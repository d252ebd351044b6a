------------------------- MODULE SessionTableProofs -------------------------
(***************************************************************************)
(* Proofs about SessionTable for every number of sessions and slots, every *)
(* set of ids and every hash: the table is sound, its counters are exact,  *)
(* and it implements Admission.                                            *)
(***************************************************************************)
EXTENDS SessionTable, SequenceTheorems, FiniteSetTheorems, TLAPS

\* A probe visits slots of the table, each at one offset.
LEMMA AtSlots ==
  ASSUME NEW id \in Ids, probe_start \in [Ids -> Slots]
  PROVE  /\ \A o \in Slots : At(id, o) \in Slots
         /\ \A o, p \in Slots : At(id, o) = At(id, p) => o = p
<1>1. probe_start[id] \in Slots /\ NumSlots \in Nat
  BY TableAssumption
<1> QED
  BY <1>1 DEF At, Slots

\* Offsets before an offset are offsets.
LEMMA SlotsDownward ==
  ASSUME NEW o \in Slots, NEW p \in 0 .. o - 1
  PROVE  p \in Slots /\ p # o
  BY TableAssumption DEF Slots

\* The markers are not session indices.
LEMMA Markers == kEmpty \notin Indices /\ kTombstone \notin Indices /\ kEmpty # kTombstone
  BY TableAssumption DEF kEmpty, kTombstone, Indices

\* pop_back() drops the last element only.
LEMMA PopBack ==
  ASSUME NEW S, NEW s \in Seq(S), Len(s) >= 1
  PROVE  /\ SubSeq(s, 1, Len(s) - 1) \in Seq(S)
         /\ Len(SubSeq(s, 1, Len(s) - 1)) = Len(s) - 1
         /\ \A n \in 1 .. Len(s) - 1 : SubSeq(s, 1, Len(s) - 1)[n] = s[n]
<1>1. Len(s) \in Nat /\ \A n \in 1 .. Len(s) : s[n] \in S
  OBVIOUS
<1>2. Len(s) - 1 \in Int /\ \A n \in 1 .. Len(s) - 1 : s[n] \in S
  BY <1>1
<1>3. /\ SubSeq(s, 1, Len(s) - 1) \in Seq(S)
      /\ Len(SubSeq(s, 1, Len(s) - 1))
           = IF 1 <= Len(s) - 1 THEN Len(s) - 1 - 1 + 1 ELSE 0
      /\ \A n \in 1 .. Len(s) - 1 - 1 + 1 : SubSeq(s, 1, Len(s) - 1)[n] = s[1 + n - 1]
  BY <1>2, SubSeqProperties
<1>4. \A n \in 1 .. Len(s) - 1 : 1 + n - 1 = n /\ n \in 1 .. Len(s) - 1 - 1 + 1
  BY <1>1
<1>5. Len(SubSeq(s, 1, Len(s) - 1)) = Len(s) - 1
  <2> DEFINE n == Len(s)
             l == Len(SubSeq(s, 1, Len(s) - 1))
  <2>1. n \in Nat /\ n >= 1 /\ l = IF 1 <= n - 1 THEN n - 1 - 1 + 1 ELSE 0
    BY <1>1, <1>3
  <2> HIDE DEF n, l
  <2>2. l = n - 1
    BY <2>1
  <2> QED
    BY <2>2 DEF n, l
<1> QED
  BY <1>3, <1>4, <1>5

\* The empty table satisfies the invariant.
LEMMA InitTableInv == Init => TableInv
<1> SUFFICES ASSUME Init PROVE TableInv
  OBVIOUS
<1>1. TypeOK
  <2>1. free_list \in Seq(Indices)
    BY TableAssumption DEF Init, Indices
  <2>2. probe_start \in [Ids -> Slots]
    BY TableAssumption DEF Init, Slots
  <2>3. NewSession \in SessionSet
    BY TableAssumption DEF NewSession, SessionSet
  <2>4. sessions \in [Indices -> SessionSet]
    BY <2>3 DEF Init
  <2> QED
    BY <2>1, <2>2, <2>4, TableAssumption DEF Init, TypeOK
<1>2. \A i \in Indices : sessions[i].active = FALSE
  BY DEF Init, NewSession
<1>3. \A s \in Slots : slots[s] \notin Indices
  BY Markers DEF Init
<1>4. FreeListExact
  <2>1. /\ Len(free_list) = MaxSessions
        /\ \A n \in 1 .. MaxSessions : free_list[n] = MaxSessions - n
    BY TableAssumption DEF Init
  <2>2. ASSUME NEW i \in Indices
        PROVE  \E n \in 1 .. Len(free_list) : free_list[n] = i
    <3>1. MaxSessions - i \in 1 .. MaxSessions
      BY TableAssumption DEF Indices
    <3>2. free_list[MaxSessions - i] = i
      BY <2>1, <3>1, TableAssumption DEF Indices
    <3> QED
      BY <2>1, <3>1, <3>2
  <2> QED
    BY <1>2, <2>1, <2>2, TableAssumption DEF FreeListExact
<1> QED
  BY <1>1, <1>2, <1>3, <1>4
     DEF TableInv, Reachable, Placed, SlotsOwned, OneSessionPerCall

\* Steps that leave every slot, session in use and its id alone.
LEMMA SameTable ==
  ASSUME TableInv, TypeOK',
         UNCHANGED <<probe_start, slots, free_list>>,
         \A i \in Indices : /\ sessions'[i].active = sessions[i].active
                            /\ sessions'[i].id = sessions[i].id
                            /\ Placed(i)' <=> Placed(i)
  PROVE  TableInv'
<1>1. Reachable'
  BY DEF TableInv, Reachable, Finds, Reaches, At
<1>2. SlotsOwned'
  BY DEF TableInv, SlotsOwned
<1>3. OneSessionPerCall'
  BY DEF TableInv, OneSessionPerCall
<1>4. FreeListExact'
  BY DEF TableInv, FreeListExact
<1> QED
  BY <1>1, <1>2, <1>3, <1>4 DEF TableInv

\* A frame of a call in progress.
LEMMA FrameStep ==
  ASSUME TableInv, NEW id \in Ids, Frame(id)
  PROVE  TableInv'
<1>1. PICK i \in Indices :
        /\ Finds(id, i)
        /\ sessions' = [sessions EXCEPT ![i].age = 0]
  BY DEF Frame
<1>2. sessions[i].active
  BY <1>1 DEF Finds
<1>3. TypeOK'
  <2>0. sessions[i] \in SessionSet
    BY DEF TableInv, TypeOK
  <2>1. [sessions[i] EXCEPT !.age = 0] \in SessionSet
    BY <2>0, TableAssumption, 0 \in 0 .. IdleLimit DEF SessionSet
  <2>2. sessions' = [sessions EXCEPT ![i] = [sessions[i] EXCEPT !.age = 0]]
    BY <1>1 DEF TableInv, TypeOK
  <2>3. sessions' \in [Indices -> SessionSet]
    BY <2>1, <2>2 DEF TableInv, TypeOK
  <2> QED
    BY <2>3 DEF TableInv, TypeOK, Frame, counters
<1>4. \A k \in Indices : /\ sessions'[k].active = sessions[k].active
                         /\ sessions'[k].id = sessions[k].id
  BY <1>1, <1>2 DEF TableInv, TypeOK, SessionSet
<1> QED
  BY <1>3, <1>4, SameTable DEF Frame, Placed

\* Ages grow.
LEMMA TickStep ==
  ASSUME TableInv, Tick
  PROVE  TableInv'
<1>1. TypeOK'
  <2>1. ASSUME NEW i \in Indices
        PROVE  sessions'[i] \in SessionSet
    <3>1. sessions[i] \in SessionSet
      BY DEF TableInv, TypeOK
    <3>2. CASE sessions[i].active /\ sessions[i].age < IdleLimit
      BY <3>1, <3>2, TableAssumption DEF SessionSet, Tick
    <3>3. CASE ~ (sessions[i].active /\ sessions[i].age < IdleLimit)
      BY <3>1, <3>3 DEF Tick
    <3> QED
      BY <3>2, <3>3
  <2>2. sessions' \in [Indices -> SessionSet]
    BY <2>1 DEF Tick
  <2> QED
    BY <2>2 DEF TableInv, TypeOK, Tick, counters
<1>2. \A k \in Indices : /\ sessions'[k].active = sessions[k].active
                         /\ sessions'[k].id = sessions[k].id
  BY DEF TableInv, TypeOK, SessionSet, Tick
<1> QED
  BY <1>1, <1>2, SameTable DEF Tick, Placed

\* Steps that touch neither the slots nor the sessions.
LEMMA LoopSteps ==
  ASSUME TableInv,
         \/ \E id \in Ids : Refuse(id)
         \/ \E loop \in {"expire_idle", "flush_all"} : Sweep(loop)
         \/ Keep
         \/ Rebuilt
  PROVE  TableInv'
<1>1. TypeOK'
  BY TableAssumption DEF TableInv, TypeOK, Refuse, Sweep, Keep, Rebuilt, counters
<1>2. UNCHANGED <<probe_start, slots, sessions, free_list>>
  BY DEF Refuse, Sweep, Keep, Rebuilt
<1>3. \A i \in Indices : Placed(i)' <=> Placed(i)
  BY TableAssumption, <1>2
     DEF Placed, Refuse, Sweep, Keep, Rebuilt, TableInv, TypeOK, Indices
<1> QED
  BY <1>1, <1>2, <1>3, SameTable DEF TableInv

\* The session popped off the free list goes to a slot its probe reaches, and
\* no call in progress loses its own.
LEMMA OpenStep ==
  ASSUME TableInv, NEW id \in Ids, Open(id)
  PROVE  TableInv'
<1> DEFINE new == [id |-> id, active |-> TRUE, age |-> 0]
<1>0. /\ free_list \in Seq(Indices) /\ Len(free_list) \in Nat /\ Len(free_list) >= 1
      /\ free_list[Len(free_list)] \in Indices
  BY DEF Open, TableInv, TypeOK
<1>i. PICK i \in Indices : i = free_list[Len(free_list)]
  BY <1>0
<1>1. PICK o \in Slots :
        /\ InsertsAt(id, o)
        /\ slots' = [slots EXCEPT ![At(id, o)] = i]
        /\ tombstones' = IF slots[At(id, o)] = kTombstone THEN tombstones - 1 ELSE tombstones
        /\ free_list' = SubSeq(free_list, 1, Len(free_list) - 1)
        /\ sessions' = [sessions EXCEPT ![i] = new]
  BY <1>i DEF Open
<1>2. /\ step = "idle" /\ step' = "idle"
      /\ probe_start' = probe_start /\ index' = index
      /\ ~ sessions[i].active
  BY <1>0, <1>i DEF Open, TableInv, FreeListExact
<1>3. /\ At(id, o) \in Slots
      /\ \A k \in Ids : \A p \in Slots : At(k, p) \in Slots
      /\ slots[At(id, o)] \in {kEmpty, kTombstone}
      /\ \A p \in 0 .. o - 1 : slots[At(id, p)] \in Indices
      /\ slots \in [Slots -> Indices \cup {kEmpty, kTombstone}]
      /\ sessions \in [Indices -> SessionSet]
  BY <1>1, AtSlots DEF InsertsAt, TableInv, TypeOK
<1> HIDE DEF new
<1>4. /\ \A s \in Slots : slots'[s] = IF s = At(id, o) THEN i ELSE slots[s]
      /\ \A k \in Indices : sessions'[k] = IF k = i THEN new ELSE sessions[k]
      /\ \A k \in Ids : \A p \in Slots : At(k, p)' = At(k, p)
  BY <1>1, <1>2, <1>3 DEF At
<1>5. \A k \in Indices : k # i => (sessions[k].active => sessions[k].id # id)
  BY <1>2 DEF Open, Unknown, TableInv, Reachable, Placed
<1>6. new.id = id /\ new.active /\ new \in SessionSet
  BY TableAssumption DEF new, SessionSet
<1>7. TypeOK'
  <2>1. sessions' \in [Indices -> SessionSet]
    BY <1>1, <1>3, <1>6
  <2>2. slots' \in [Slots -> Indices \cup {kEmpty, kTombstone}]
    BY <1>1, <1>2, <1>3
  <2>3. free_list' \in Seq(Indices)
    BY <1>0, <1>1
  <2> QED
    BY <1>1, <2>1, <2>2, <2>3 DEF Open, TableInv, TypeOK
<1>8. Reachable'
  <2> SUFFICES ASSUME NEW k \in Indices, Placed(k)'
               PROVE  Finds(sessions[k].id, k)'
    BY DEF Reachable
  <2>1. CASE k = i
    <3>1. sessions'[k].id = id /\ sessions'[k].active
      BY <1>4, <1>6, <2>1
    <3>2. slots'[At(id, o)] = k
      BY <1>3, <1>4, <2>1
    <3>3. ASSUME NEW p \in 0 .. o - 1
          PROVE  slots'[At(id, p)] # kEmpty
      BY <1>2, <1>3, <1>4, SlotsDownward, Markers
    <3> QED
      BY <1>4, <3>1, <3>2, <3>3, SlotsDownward DEF Finds, Reaches
  <2>2. CASE k # i
    <3>1. sessions'[k] = sessions[k] /\ sessions[k].active /\ sessions[k].id \in Ids
      BY <1>3, <1>4, <2>2 DEF Placed, SessionSet
    <3>2. PICK q \in Slots : Reaches(sessions[k].id, q) /\ slots[At(sessions[k].id, q)] = k
      BY <1>2, <3>1 DEF TableInv, Reachable, Placed, Finds
    <3>3. slots'[At(sessions[k].id, q)] = k
      BY <1>3, <1>4, <3>1, <3>2, Markers
    <3>4. ASSUME NEW p \in 0 .. q - 1
          PROVE  slots'[At(sessions[k].id, p)] # kEmpty
      BY <1>2, <1>3, <1>4, <3>1, <3>2, SlotsDownward, Markers DEF Reaches
    <3> QED
      BY <1>4, <3>1, <3>2, <3>3, <3>4, SlotsDownward DEF Finds, Reaches
  <2> QED
    BY <2>1, <2>2
<1>9. SlotsOwned'
  <2>1. \A s \in Slots : slots[s] # i
    BY <1>2 DEF TableInv, SlotsOwned, Placed
  <2>2. \A k \in Indices : Placed(k) => Placed(k)'
    BY <1>2, <1>4, <1>6 DEF Placed
  <2>3. Placed(i)'
    BY <1>2, <1>4, <1>6 DEF Placed
  <2>4. \A s \in Slots : slots'[s] \in Indices => Placed(slots[s])'
    <3> SUFFICES ASSUME NEW s \in Slots, slots'[s] \in Indices
                 PROVE  Placed(slots[s])'
      OBVIOUS
    <3>1. CASE s = At(id, o)
      BY <1>2, <1>4, <1>6, <3>1 DEF Placed
    <3>2. CASE s # At(id, o)
      BY <1>2, <1>4, <2>1, <3>2 DEF Placed, TableInv, SlotsOwned
    <3> QED
      BY <3>1, <3>2
  <2>5. \A s, t \in Slots : slots'[s] \in Indices /\ slots'[s] = slots'[t] => s = t
    BY <1>4, <2>1 DEF TableInv, SlotsOwned
  <2> QED
    BY <2>4, <2>5 DEF SlotsOwned
<1>10. OneSessionPerCall'
  BY <1>4, <1>5, <1>6 DEF TableInv, OneSessionPerCall
<1>11. FreeListExact'
  <2>1. /\ Len(free_list') = Len(free_list) - 1
        /\ \A n \in 1 .. Len(free_list') : free_list'[n] = free_list[n]
    BY <1>0, <1>1, PopBack
  <2>2. \A n \in 1 .. Len(free_list') : n \in 1 .. Len(free_list) /\ free_list[n] # i
    BY <1>0, <1>i, <2>1 DEF TableInv, FreeListExact
  <2>3. \A m \in 1 .. Len(free_list) : m \in 1 .. Len(free_list') \/ free_list[m] = i
    BY <1>0, <1>i, <2>1
  <2>4. ASSUME NEW k \in Indices
        PROVE  sessions'[k].active <=> \A n \in 1 .. Len(free_list') : free_list'[n] # k
    <3>1. CASE k = i
      BY <1>4, <1>6, <2>1, <2>2, <3>1
    <3>2. CASE k # i
      <4>1. sessions'[k].active <=> sessions[k].active
        BY <1>4, <3>2
      <4>2. sessions[k].active <=> \A n \in 1 .. Len(free_list) : free_list[n] # k
        BY DEF TableInv, FreeListExact
      <4> QED
        BY <2>1, <2>2, <2>3, <3>2, <4>1, <4>2
    <3> QED
      BY <3>1, <3>2
  <2> QED
    BY <1>0, <2>1, <2>2, <2>4 DEF TableInv, FreeListExact
<1> QED
  BY <1>7, <1>8, <1>9, <1>10, <1>11 DEF TableInv

\* The one slot that names a session in use is the one release() finds.
LEMMA HeldSlot ==
  ASSUME TableInv, NEW i \in Indices, Placed(i)
  PROVE  \E h \in Slots : /\ slots[h] = i
                         /\ HeldSlots(i) = {h}
<1> DEFINE id == sessions[i].id
<1>1. PICK o \in Slots : Reaches(id, o) /\ slots[At(id, o)] = i
  BY DEF TableInv, Reachable, Finds
<1>2. id \in Ids /\ probe_start \in [Ids -> Slots]
  BY DEF TableInv, TypeOK, SessionSet
<1> HIDE DEF id
<1>3. \A n \in Slots : slots[At(id, n)] = i => n = o
  BY <1>1, <1>2, AtSlots DEF TableInv, SlotsOwned
<1>4. \A p \in 0 .. o - 1 : slots[At(id, p)] \notin {kEmpty, i}
  BY <1>1, <1>3, SlotsDownward DEF Reaches
<1>5. HeldSlots(i) = {At(id, o)}
  BY <1>1, <1>3, <1>4 DEF HeldSlots, id
<1> QED
  BY <1>1, <1>2, <1>5, AtSlots

\* Leaving a tombstone keeps every other call reachable.
LEMMA ReleaseStep ==
  ASSUME TableInv, Release
  PROVE  TableInv'
<1>0. /\ index \in Indices /\ index' = index + 1
      /\ step \in {"expire_idle", "flush_all"} /\ step' = step
      /\ sessions[index].active
      /\ probe_start' = probe_start
      /\ free_list \in Seq(Indices) /\ Len(free_list) \in Nat
      /\ free_list' = Append(free_list, index)
  BY TableAssumption DEF Release, Releases, TableInv, TypeOK, Indices
<1>i. PICK i \in Indices : i = index
  BY <1>0
<1>1. PICK h \in Slots : slots[h] = i /\ HeldSlots(i) = {h}
  BY <1>0, <1>i, HeldSlot DEF Placed
<1>2. /\ slots \in [Slots -> Indices \cup {kEmpty, kTombstone}]
      /\ sessions \in [Indices -> SessionSet]
      /\ \A k \in Ids : \A p \in Slots : At(k, p) \in Slots
  BY AtSlots DEF TableInv, TypeOK
<1>3. /\ \A s \in Slots : slots'[s] = IF s = h THEN kTombstone ELSE slots[s]
      /\ \A k \in Ids : \A p \in Slots : At(k, p)' = At(k, p)
  BY <1>0, <1>1, <1>i DEF Release, At
<1>4. /\ \A k \in Indices : /\ sessions'[k].id = sessions[k].id
                            /\ k # i => sessions'[k] = sessions[k]
      /\ ~ sessions'[i].active
      /\ sessions' \in [Indices -> SessionSet]
  <2>1. sessions' = [sessions EXCEPT ![i] = [sessions[i] EXCEPT !.active = FALSE]]
    BY <1>2, <1>i DEF Release
  <2>2. sessions[i] \in SessionSet
    BY <1>2
  <2>3. [sessions[i] EXCEPT !.active = FALSE] \in SessionSet
    BY <2>2 DEF SessionSet
  <2> QED
    BY <1>2, <2>1, <2>2, <2>3 DEF SessionSet
<1>5. TypeOK'
  <2>1. slots' \in [Slots -> Indices \cup {kEmpty, kTombstone}]
    BY <1>2 DEF Release
  <2>2. free_list' \in Seq(Indices)
    BY <1>0
  <2>3. tombstones' \in Int /\ live' \in Nat
    BY DEF Release, TableInv, TypeOK
  <2>4. index' \in 0 .. MaxSessions
    BY <1>0, TableAssumption DEF Indices
  <2> QED
    BY <1>0, <1>4, <2>1, <2>2, <2>3, <2>4 DEF Release, TableInv, TypeOK, counters
<1>6. \A k \in Indices : Placed(k)' <=> Placed(k) /\ k # i
  BY <1>0, <1>4 DEF Placed
<1>7. Reachable'
  <2> SUFFICES ASSUME NEW k \in Indices, Placed(k), k # i
               PROVE  Finds(sessions[k].id, k)'
    BY <1>6 DEF Reachable
  <2>1. sessions'[k] = sessions[k] /\ sessions[k].active /\ sessions[k].id \in Ids
    BY <1>2, <1>4 DEF Placed, SessionSet
  <2>2. PICK q \in Slots : Reaches(sessions[k].id, q) /\ slots[At(sessions[k].id, q)] = k
    BY DEF TableInv, Reachable, Finds
  <2>3. slots'[At(sessions[k].id, q)] = k
    BY <1>1, <1>2, <1>3, <2>1, <2>2
  <2>4. ASSUME NEW p \in 0 .. q - 1
        PROVE  slots'[At(sessions[k].id, p)] # kEmpty
    BY <1>2, <1>3, <2>1, <2>2, SlotsDownward, Markers DEF Reaches
  <2> QED
    BY <1>3, <2>1, <2>2, <2>3, <2>4, SlotsDownward DEF Finds, Reaches
<1>8. SlotsOwned'
  <2>1. \A s \in Slots : slots'[s] \in Indices => slots'[s] = slots[s] /\ s # h
    BY <1>3, Markers
  <2>2. \A s \in Slots : s # h => slots[s] # i
    BY <1>1 DEF TableInv, SlotsOwned
  <2>3. ASSUME NEW s \in Slots, slots'[s] \in Indices
        PROVE  Placed(slots[s])'
    <3>1. PICK k \in Indices : k = slots'[s]
      BY <2>3
    <3>2. Placed(k) /\ k # i
      BY <2>1, <2>2, <2>3, <3>1 DEF TableInv, SlotsOwned
    <3>3. Placed(k)'
      BY <1>6, <3>2
    <3> QED
      BY <3>1, <3>3 DEF Placed
  <2> QED
    BY <2>1, <2>3 DEF TableInv, SlotsOwned
<1>9. OneSessionPerCall'
  BY <1>4 DEF TableInv, OneSessionPerCall
<1>10. FreeListExact'
  <2>1. /\ Len(free_list') = Len(free_list) + 1
        /\ \A n \in 1 .. Len(free_list) : free_list'[n] = free_list[n]
        /\ free_list'[Len(free_list) + 1] = i
    BY <1>0, <1>i, AppendProperties
  <2>2. \A n \in 1 .. Len(free_list) : free_list[n] # i
    BY <1>0, <1>i DEF TableInv, FreeListExact
  <2>3. ASSUME NEW k \in Indices
        PROVE  sessions'[k].active <=> \A n \in 1 .. Len(free_list') : free_list'[n] # k
    <3>1. CASE k = i
      <4>1. Len(free_list) + 1 \in 1 .. Len(free_list')
        BY <1>0, <2>1
      <4> QED
        BY <1>4, <2>1, <3>1, <4>1
    <3>2. CASE k # i
      <4>1. sessions'[k].active <=> sessions[k].active
        BY <1>4, <3>2
      <4>2. sessions[k].active <=> \A n \in 1 .. Len(free_list) : free_list[n] # k
        BY DEF TableInv, FreeListExact
      <4> QED
        BY <1>0, <2>1, <3>2, <4>1, <4>2
    <3> QED
      BY <3>1, <3>2
  <2>4. \A m, n \in 1 .. Len(free_list') : free_list'[m] = free_list'[n] => m = n
    BY <1>0, <2>1, <2>2 DEF TableInv, FreeListExact
  <2> QED
    BY <2>3, <2>4 DEF FreeListExact
<1> QED
  BY <1>5, <1>7, <1>8, <1>9, <1>10 DEF TableInv

\* The end of a sweep either keeps the table or empties it for the rebuild.
LEMMA MaybeRebuildStep ==
  ASSUME TableInv, MaybeRebuild
  PROVE  TableInv'
<1>0. /\ step \in {"expire_idle", "flush_all"} /\ index' = 0
      /\ UNCHANGED <<probe_start, sessions, free_list>>
  BY DEF MaybeRebuild
<1>1. TypeOK'
  BY TableAssumption DEF MaybeRebuild, TableInv, TypeOK, counters
<1>2. CASE step' = "idle"
  <2>1. UNCHANGED slots
    BY <1>2 DEF MaybeRebuild
  <2>2. \A i \in Indices : Placed(i)' <=> Placed(i)
    BY <1>0, <1>2 DEF Placed
  <2> QED
    BY <1>0, <1>1, <2>1, <2>2, SameTable DEF TableInv
<1>3. CASE step' = "rebuild"
  <2>1. \A s \in Slots : slots'[s] \notin Indices
    BY <1>0, <1>3, Markers DEF MaybeRebuild
  <2>2. \A i \in Indices : ~ Placed(i)'
    BY <1>0, <1>3, TableAssumption DEF Placed, Indices
  <2>3. Reachable' /\ SlotsOwned'
    BY <2>1, <2>2 DEF Reachable, SlotsOwned
  <2> QED
    BY <1>0, <1>1, <2>3
       DEF TableInv, OneSessionPerCall, FreeListExact
<1> QED
  BY <1>2, <1>3 DEF MaybeRebuild

\* The rebuild puts the next session in use where its probe finds it.
LEMMA ReinsertStep ==
  ASSUME TableInv, Reinsert
  PROVE  TableInv'
<1>0. /\ index \in Indices /\ index' = index + 1
      /\ step = "rebuild" /\ step' = "rebuild"
      /\ UNCHANGED <<probe_start, sessions, free_list>>
  BY TableAssumption DEF Reinsert, TableInv, TypeOK, Indices
<1>i. PICK i \in Indices : i = index
  BY <1>0
<1>1. \A k \in Indices : Placed(k)' <=> Placed(k) \/ (k = i /\ sessions[i].active)
  BY <1>0, <1>i DEF Placed, Indices
<1>2. CASE ~ sessions[i].active
  <2>1. UNCHANGED slots
    BY <1>2, <1>i DEF Reinsert
  <2>2. TypeOK'
    BY <1>0, <2>1, TableAssumption DEF Reinsert, TableInv, TypeOK, counters, Indices
  <2> QED
    BY <1>0, <1>1, <1>2, <2>1, <2>2, SameTable DEF TableInv
<1>3. CASE sessions[i].active
  <2> DEFINE id == sessions[i].id
  <2>1. PICK o \in Slots :
          /\ slots[At(id, o)] = kEmpty
          /\ \A p \in 0 .. o - 1 : slots[At(id, p)] # kEmpty
          /\ slots' = [slots EXCEPT ![At(id, o)] = i]
    BY <1>3, <1>i DEF Reinsert
  <2>2. /\ id \in Ids
        /\ slots \in [Slots -> Indices \cup {kEmpty, kTombstone}]
        /\ \A k \in Indices : sessions[k].id \in Ids
        /\ \A k \in Ids : \A p \in Slots : At(k, p) \in Slots
    BY AtSlots DEF TableInv, TypeOK, SessionSet
  <2>3. /\ \A s \in Slots : slots'[s] = IF s = At(id, o) THEN i ELSE slots[s]
        /\ \A k \in Ids : \A p \in Slots : At(k, p)' = At(k, p)
    BY <1>0, <2>1, <2>2 DEF At
  <2>4. \A s \in Slots : slots[s] # i
    BY <1>0, <1>i DEF TableInv, SlotsOwned, Placed, Indices
  <2>5. TypeOK'
    <3>1. slots' \in [Slots -> Indices \cup {kEmpty, kTombstone}]
      BY <2>1, <2>2
    <3>2. index' \in 0 .. MaxSessions
      BY <1>0, TableAssumption DEF Indices
    <3> QED
      BY <1>0, <3>1, <3>2 DEF Reinsert, TableInv, TypeOK, counters
  <2>6. Reachable'
    <3> SUFFICES ASSUME NEW k \in Indices, Placed(k)'
                 PROVE  Finds(sessions[k].id, k)'
      BY DEF Reachable
    <3>1. CASE k = i
      <4>1. slots'[At(id, o)] = k
        BY <2>2, <2>3, <3>1
      <4>2. ASSUME NEW p \in 0 .. o - 1
            PROVE  slots'[At(id, p)] # kEmpty
        BY <2>1, <2>2, <2>3, SlotsDownward, Markers
      <4> QED
        BY <1>0, <1>3, <2>2, <2>3, <3>1, <4>1, <4>2, SlotsDownward DEF Finds, Reaches
    <3>2. CASE k # i
      <4>1. Placed(k) /\ sessions[k].active
        BY <1>1, <3>2 DEF Placed
      <4>2. PICK q \in Slots : Reaches(sessions[k].id, q) /\ slots[At(sessions[k].id, q)] = k
        BY <4>1 DEF TableInv, Reachable, Finds
      <4>3. slots'[At(sessions[k].id, q)] = k
        BY <2>1, <2>2, <2>3, <4>2, Markers
      <4>4. ASSUME NEW p \in 0 .. q - 1
            PROVE  slots'[At(sessions[k].id, p)] # kEmpty
        BY <2>2, <2>3, <4>2, SlotsDownward, Markers DEF Reaches
      <4> QED
        BY <1>0, <2>2, <2>3, <4>1, <4>2, <4>3, <4>4, SlotsDownward DEF Finds, Reaches
    <3> QED
      BY <3>1, <3>2
  <2>7. SlotsOwned'
    <3>1. ASSUME NEW s \in Slots, slots'[s] \in Indices
          PROVE  Placed(slots[s])'
      <4>1. PICK k \in Indices : k = slots'[s]
        BY <3>1
      <4>2. Placed(k)'
        BY <1>1, <1>3, <2>3, <4>1 DEF TableInv, SlotsOwned
      <4> QED
        BY <4>1, <4>2 DEF Placed
    <3>2. \A s, t \in Slots : slots'[s] \in Indices /\ slots'[s] = slots'[t] => s = t
      BY <2>3, <2>4 DEF TableInv, SlotsOwned
    <3> QED
      BY <3>1, <3>2 DEF SlotsOwned
  <2> QED
    BY <1>0, <2>5, <2>6, <2>7
       DEF TableInv, OneSessionPerCall, FreeListExact
<1> QED
  BY <1>2, <1>3

\* Every step preserves TableInv.
LEMMA NextTableInv == TableInv /\ [Next]_vars => TableInv'
<1> SUFFICES ASSUME TableInv, [Next]_vars PROVE TableInv'
  OBVIOUS
<1>1. CASE UNCHANGED vars
  <2>1. TypeOK' /\ (\A i \in Indices : Placed(i)' <=> Placed(i))
    BY <1>1 DEF vars, counters, TableInv, TypeOK, Placed
  <2> QED
    BY <1>1, <2>1, SameTable DEF vars, TableInv
<1>2. CASE Next
  BY <1>2, FrameStep, OpenStep, LoopSteps, TickStep, ReleaseStep, MaybeRebuildStep, ReinsertStep
     DEF Next
<1> QED
  BY <1>1, <1>2

\* The table is sound for every capacity, every number of slots and every hash:
\* each call in progress is found by its probe, owns one slot and one object,
\* and every other object is on the free list.
THEOREM TableSound == Spec => []TableInv
  BY InitTableInv, NextTableInv, PTL DEF Spec

\* session.hpp:68-72: tombstones keep acquire() from ever opening a second
\* session for a call that has one.
THEOREM NoSecondSession == Spec => []OneSessionPerCall
<1>1. TableInv => OneSessionPerCall
  BY DEF TableInv
<1> QED
  BY <1>1, TableSound, PTL

-----------------------------------------------------------------------------
(* Counting.                                                               *)

Marked(f, m) == {s \in Slots : f[s] = m}
Actives == {i \in Indices : sessions[i].active}

\* The counts that slots and sessions tell.
Tally ==
  /\ tombstones = Cardinality({s \in Slots : slots[s] = kTombstone})
  /\ live = Cardinality({i \in Indices : sessions[i].active})

\* TableInv with the counters.  Between sweeps at most a quarter of the slots
\* are tombstones; a sweep adds to them, but only by turning slots in use into
\* tombstones, so the empty ones stay as many until maybe_rebuild looks.
CountInv ==
  /\ TableInv /\ Tally /\ EmptySlotsLeft
  /\ step = "idle" => tombstones * 4 <= NumSlots
  /\ step = "rebuild" => tombstones = 0

LEMMA FiniteTable ==
  /\ IsFiniteSet(Slots) /\ Cardinality(Slots) = NumSlots
  /\ IsFiniteSet(Indices) /\ Cardinality(Indices) = MaxSessions
<1>1. NumSlots \in Nat /\ MaxSessions \in Nat /\ NumSlots >= 1 /\ MaxSessions >= 1
  BY TableAssumption
<1>2. ASSUME NEW n \in Nat, n >= 1
      PROVE  IsFiniteSet(0 .. n - 1) /\ Cardinality(0 .. n - 1) = n
  <2>1. PICK m \in Int : m = n - 1
    OBVIOUS
  <2>2. IsFiniteSet(0 .. m) /\ Cardinality(0 .. m) = IF 0 > m THEN 0 ELSE m - 0 + 1
    BY FS_Interval
  <2>3. ~ (0 > m) /\ m - 0 + 1 = n
    BY <1>2, <2>1
  <2> QED
    BY <2>1, <2>2, <2>3
<1> QED
  BY <1>1, <1>2 DEF Slots, Indices

\* Slots that name sessions are at most as many as the sessions, so a table
\* with few tombstones has many empty slots.
LEMMA FewTombstones ==
  ASSUME NEW f \in [Slots -> Indices \cup {kEmpty, kTombstone}],
         \A s, t \in Slots : f[s] \in Indices /\ f[s] = f[t] => s = t,
         4 * Cardinality(Marked(f, kTombstone)) <= NumSlots
  PROVE  4 * Cardinality(Marked(f, kEmpty)) >= NumSlots
<1> DEFINE E == Marked(f, kEmpty)
           T == Marked(f, kTombstone)
           N == {s \in Slots : f[s] \in Indices}
           g == [s \in N |-> f[s]]
<1>1. E \in SUBSET Slots /\ T \in SUBSET Slots /\ N \in SUBSET Slots
  BY DEF Marked
<1>2. IsFiniteSet(E) /\ IsFiniteSet(T) /\ IsFiniteSet(N) /\ IsFiniteSet(E \cup T)
  <2> HIDE DEF E, T, N
  <2> QED
    BY <1>1, FiniteTable, FS_Subset, FS_Union
<1>3. E \cap T = {} /\ (E \cup T) \cap N = {} /\ (E \cup T) \cup N = Slots
  BY Markers DEF Marked
<1>4. Cardinality(N) <= Cardinality(Indices)
  <2>1. g \in Injection(N, Indices)
    BY DEF Injection, IsInjective
  <2> HIDE DEF g, N
  <2> QED
    BY <2>1, FiniteTable, FS_Injection
<1> HIDE DEF E, T, N, g
<1>5. Cardinality(Slots) = Cardinality(E \cup T) + Cardinality(N) - Cardinality({})
  BY <1>2, <1>3, FS_Union
<1>6. Cardinality(E \cup T) = Cardinality(E) + Cardinality(T) - Cardinality({})
  BY <1>2, <1>3, FS_Union
<1>7. /\ Cardinality(E) \in Nat /\ Cardinality(T) \in Nat /\ Cardinality(N) \in Nat
      /\ Cardinality({}) = 0
  BY <1>2, FS_CardinalityType, FS_EmptySet
<1>8. 4 * Cardinality(T) <= NumSlots
  BY DEF T
<1>9. 4 * Cardinality(E) >= NumSlots
  <2>1. /\ NumSlots = Cardinality(E) + Cardinality(T) + Cardinality(N)
        /\ 2 * Cardinality(N) <= NumSlots /\ NumSlots \in Nat
    BY <1>4, <1>5, <1>6, <1>7, FiniteTable, TableAssumption
  <2> QED
    BY <1>7, <1>8, <2>1
<1> QED
  BY <1>9 DEF E

LEMMA FiniteCounts ==
  /\ \A f, m : IsFiniteSet(Marked(f, m)) /\ Cardinality(Marked(f, m)) \in Nat
  /\ IsFiniteSet(Actives) /\ Cardinality(Actives) \in Nat
  /\ IsFiniteSet(Actives') /\ Cardinality(Actives') \in Nat
<1>1. ASSUME NEW f, NEW m
      PROVE  IsFiniteSet(Marked(f, m)) /\ Cardinality(Marked(f, m)) \in Nat
  <2>1. Marked(f, m) \in SUBSET Slots
    BY DEF Marked
  <2> QED
    BY <2>1, FiniteTable, FS_Subset, FS_CardinalityType
<1>2. Actives \in SUBSET Indices /\ Actives' \in SUBSET Indices
  BY DEF Actives, Indices
<1> HIDE DEF Actives
<1>3. IsFiniteSet(Actives) /\ IsFiniteSet(Actives')
  BY <1>2, FiniteTable, FS_Subset
<1> QED
  BY <1>1, <1>3, FS_CardinalityType

\* The counts, by the sets they count.
LEMMA Counted ==
  /\ Tally <=> /\ tombstones = Cardinality(Marked(slots, kTombstone))
                       /\ live = Cardinality(Actives)
  /\ Tally' <=> /\ tombstones' = Cardinality(Marked(slots', kTombstone))
                        /\ live' = Cardinality(Actives')
  /\ EmptySlotsLeft <=> 4 * Cardinality(Marked(slots, kEmpty)) >= NumSlots
  /\ EmptySlotsLeft' <=> 4 * Cardinality(Marked(slots', kEmpty)) >= NumSlots
BY DEF Tally, EmptySlotsLeft, Marked, Actives, Slots, Indices

LEMMA InitCountInv == Init => CountInv
<1> SUFFICES ASSUME Init PROVE CountInv
  OBVIOUS
<1>1. TableInv
  BY InitTableInv
<1>2. Marked(slots, kTombstone) = {} /\ Actives = {}
  BY Markers DEF Init, Marked, Actives, NewSession
<1>3. Tally /\ tombstones = 0
  BY <1>2, Counted, FS_EmptySet DEF Init
<1>4. 4 * Cardinality(Marked(slots, kTombstone)) <= NumSlots
  BY <1>2, FS_EmptySet, TableAssumption
<1>5. EmptySlotsLeft
  BY <1>1, <1>4, FewTombstones, Counted DEF TableInv, TypeOK, SlotsOwned
<1> QED
  BY <1>1, <1>3, <1>5, TableAssumption DEF CountInv, Init

\* Steps that leave the counts alone and do not end a sweep.
LEMMA SameCounts ==
  ASSUME CountInv, TableInv',
         UNCHANGED <<slots, tombstones, live>>,
         \A i \in Indices : sessions'[i].active = sessions[i].active,
         step' = "idle" => step \in {"idle", "rebuild"},
         step' = "rebuild" => step = "rebuild"
  PROVE  CountInv'
<1>1. Actives' = Actives
  BY DEF Actives
<1>2. Tally' /\ EmptySlotsLeft'
  BY <1>1, Counted DEF CountInv
<1>3. step' = "idle" => tombstones' * 4 <= NumSlots
  BY TableAssumption DEF CountInv
<1> QED
  BY <1>2, <1>3 DEF CountInv

\* A new call takes a slot that was empty or a tombstone.
LEMMA OpenCounts ==
  ASSUME CountInv, TableInv', NEW id \in Ids, Open(id)
  PROVE  CountInv'
<1>1. PICK i \in Indices : i = free_list[Len(free_list)] /\ ~ sessions[i].active
  BY DEF Open, CountInv, TableInv, TypeOK, FreeListExact
<1>2. PICK o \in Slots :
        /\ InsertsAt(id, o)
        /\ slots' = [slots EXCEPT ![At(id, o)] = i]
        /\ tombstones' = IF slots[At(id, o)] = kTombstone THEN tombstones - 1 ELSE tombstones
        /\ sessions' = [sessions EXCEPT ![i] = [id |-> id, active |-> TRUE, age |-> 0]]
  BY <1>1 DEF Open
<1>3. PICK s \in Slots : s = At(id, o) /\ slots[s] \in {kEmpty, kTombstone}
  BY <1>2, AtSlots DEF InsertsAt, CountInv, TableInv, TypeOK
<1>4. slots \in [Slots -> Indices \cup {kEmpty, kTombstone}] /\ sessions \in [Indices -> SessionSet]
  BY DEF CountInv, TableInv, TypeOK
<1>5. Actives' = Actives \cup {i} /\ i \notin Actives
  BY <1>1, <1>2, <1>4 DEF Actives
<1>6. live' = Cardinality(Actives')
  <2>1. live' = live + 1
    BY DEF Open
  <2>2. Cardinality(Actives') = Cardinality(Actives) + 1
    BY <1>5, FiniteCounts, FS_AddElement
  <2> QED
    BY <2>1, <2>2, Counted DEF CountInv
<1>7. Marked(slots', kTombstone) = Marked(slots, kTombstone) \ {s}
  BY <1>1, <1>2, <1>3, <1>4, Markers DEF Marked
<1>8. tombstones' = Cardinality(Marked(slots', kTombstone))
  <2>1. s \in Marked(slots, kTombstone) <=> slots[s] = kTombstone
    BY DEF Marked
  <2>2. Cardinality(Marked(slots', kTombstone))
          = IF s \in Marked(slots, kTombstone) THEN Cardinality(Marked(slots, kTombstone)) - 1
                                               ELSE Cardinality(Marked(slots, kTombstone))
    BY <1>7, FiniteCounts, FS_RemoveElement
  <2> QED
    BY <1>2, <1>3, <2>1, <2>2, Counted DEF CountInv
<1>9. step' = "idle" /\ tombstones' * 4 <= NumSlots
  BY <1>2, TableAssumption, SMTT(30) DEF Open, CountInv, TableInv, TypeOK
<1>10. EmptySlotsLeft'
  <2>1. 4 * Cardinality(Marked(slots', kTombstone)) <= NumSlots
    BY <1>8, <1>9, FiniteCounts
  <2> QED
    BY <2>1, FewTombstones, Counted DEF TableInv, TypeOK, SlotsOwned
<1> QED
  BY <1>6, <1>8, <1>9, <1>10, Counted DEF CountInv

\* A release turns the slot of a call into a tombstone.
LEMMA ReleaseCounts ==
  ASSUME CountInv, TableInv', Release
  PROVE  CountInv'
<1>1. PICK i \in Indices : i = index /\ sessions[i].active /\ Placed(i)
  BY TableAssumption, SMTT(30) DEF Release, Releases, Placed, CountInv, TableInv, TypeOK, Indices
<1>2. PICK h \in Slots : slots[h] = i /\ HeldSlots(i) = {h}
  BY <1>1, HeldSlot DEF CountInv
<1>3. slots \in [Slots -> Indices \cup {kEmpty, kTombstone}] /\ sessions \in [Indices -> SessionSet]
  BY DEF CountInv, TableInv, TypeOK
<1>4. /\ slots' = [s \in Slots |-> IF s = h THEN kTombstone ELSE slots[s]]
      /\ tombstones' = tombstones + 1
  BY <1>1, <1>2 DEF Release
<1>5. /\ Marked(slots', kTombstone) = Marked(slots, kTombstone) \cup {h}
      /\ h \notin Marked(slots, kTombstone)
      /\ Marked(slots', kEmpty) = Marked(slots, kEmpty)
  BY <1>2, <1>3, <1>4, Markers DEF Marked
<1>6. Actives' = Actives \ {i} /\ i \in Actives
  BY <1>1, <1>3 DEF Release, Actives
<1>7. tombstones' = Cardinality(Marked(slots', kTombstone))
  <2>1. Cardinality(Marked(slots', kTombstone)) = Cardinality(Marked(slots, kTombstone)) + 1
    BY <1>5, FiniteCounts, FS_AddElement
  <2> QED
    BY <1>4, <2>1, Counted DEF CountInv
<1>8. live' = Cardinality(Actives')
  <2>1. Cardinality(Actives') = Cardinality(Actives) - 1
    BY <1>6, FiniteCounts, FS_RemoveElement
  <2>2. Cardinality(Actives) # 0
    BY <1>6, FiniteCounts, FS_EmptySet
  <2>3. live' = live - 1
    BY <2>2, FiniteCounts, Counted DEF CountInv, Release
  <2> QED
    BY <2>1, <2>3, Counted DEF CountInv
<1>9. step' \in {"expire_idle", "flush_all"} /\ EmptySlotsLeft'
  BY <1>5, Counted DEF CountInv, Release
<1> QED
  BY <1>7, <1>8, <1>9, Counted DEF CountInv

\* maybe_rebuild leaves few tombstones or none.
LEMMA MaybeRebuildCounts ==
  ASSUME CountInv, TableInv', MaybeRebuild
  PROVE  CountInv'
<1>1. Actives' = Actives /\ live' = live
  BY DEF MaybeRebuild, Actives
<1>2. CASE tombstones * 4 <= NumSlots
  <2>1. UNCHANGED <<slots, tombstones>> /\ step' = "idle"
    BY <1>2 DEF MaybeRebuild
  <2>2. Tally' /\ EmptySlotsLeft'
    BY <1>1, <2>1, Counted DEF CountInv
  <2> QED
    BY <1>2, <2>1, <2>2 DEF CountInv
<1>3. CASE ~ (tombstones * 4 <= NumSlots)
  <2>1. slots' = [s \in Slots |-> kEmpty] /\ tombstones' = 0 /\ step' = "rebuild"
    BY <1>3 DEF MaybeRebuild
  <2>2. Marked(slots', kTombstone) = {}
    BY <2>1, Markers DEF Marked
  <2>3. Tally'
    BY <1>1, <2>1, <2>2, Counted, FS_EmptySet DEF CountInv
  <2>4. 4 * Cardinality(Marked(slots', kTombstone)) <= NumSlots
    BY <2>2, FS_EmptySet, TableAssumption
  <2>5. EmptySlotsLeft'
    BY <2>4, FewTombstones, Counted DEF TableInv, TypeOK, SlotsOwned
  <2> QED
    BY <2>1, <2>3, <2>5 DEF CountInv
<1> QED
  BY <1>2, <1>3

\* The rebuild makes no tombstones.
LEMMA ReinsertCounts ==
  ASSUME CountInv, TableInv', Reinsert
  PROVE  CountInv'
<1>1. /\ Actives' = Actives /\ live' = live
      /\ tombstones' = tombstones /\ tombstones = 0 /\ step' = "rebuild"
  BY DEF Reinsert, Actives, CountInv
<1>2. Marked(slots', kTombstone) = Marked(slots, kTombstone)
  <2>1. CASE UNCHANGED slots
    BY <2>1
  <2>2. CASE sessions[index].active
    <3>1. PICK i \in Indices : i = index
      BY TableAssumption DEF Reinsert, CountInv, TableInv, TypeOK, Indices
    <3>2. PICK o \in Slots : /\ slots[At(sessions[i].id, o)] = kEmpty
                             /\ slots' = [slots EXCEPT ![At(sessions[i].id, o)] = i]
      BY <2>2, <3>1 DEF Reinsert
    <3>3. sessions[i].id \in Ids /\ slots \in [Slots -> Indices \cup {kEmpty, kTombstone}]
      BY DEF CountInv, TableInv, TypeOK, SessionSet
    <3>4. PICK s \in Slots : s = At(sessions[i].id, o)
      BY <3>3, AtSlots DEF CountInv, TableInv, TypeOK
    <3> QED
      BY <3>2, <3>3, <3>4, Markers DEF Marked
  <2> QED
    BY <2>1, <2>2 DEF Reinsert
<1>3. Tally'
  BY <1>1, <1>2, Counted DEF CountInv
<1>4. 4 * Cardinality(Marked(slots', kTombstone)) <= NumSlots
  BY <1>1, <1>3, Counted, TableAssumption
<1>5. EmptySlotsLeft'
  BY <1>4, FewTombstones, Counted DEF TableInv, TypeOK, SlotsOwned
<1> QED
  BY <1>1, <1>3, <1>5 DEF CountInv

LEMMA NextCountInv == CountInv /\ [Next]_vars => CountInv'
<1> SUFFICES ASSUME CountInv, [Next]_vars PROVE CountInv'
  OBVIOUS
<1>1. TableInv'
  BY NextTableInv DEF CountInv
<1>2. CASE UNCHANGED vars
  BY <1>1, <1>2, SameCounts DEF vars
<1>3. ASSUME NEW id \in Ids, Frame(id)
      PROVE  CountInv'
  <2>1. \A i \in Indices : sessions'[i].active = sessions[i].active
    BY <1>3 DEF Frame, CountInv, TableInv, TypeOK, SessionSet
  <2> QED
    BY <1>1, <1>3, <2>1, SameCounts DEF Frame
<1>4. CASE Tick
  <2>1. \A i \in Indices : sessions'[i].active = sessions[i].active
    BY <1>4 DEF Tick, CountInv, TableInv, TypeOK, SessionSet
  <2> QED
    BY <1>1, <1>4, <2>1, SameCounts DEF Tick
<1>5. CASE \/ \E id \in Ids : Refuse(id)
           \/ \E loop \in {"expire_idle", "flush_all"} : Sweep(loop)
           \/ Keep
           \/ Rebuilt
  BY <1>1, <1>5, SameCounts DEF Refuse, Sweep, Keep, Rebuilt
<1> QED
  BY <1>1, <1>2, <1>3, <1>4, <1>5, OpenCounts, ReleaseCounts, MaybeRebuildCounts, ReinsertCounts
     DEF Next

LEMMA CountInvariant == Spec => []CountInv
  BY InitCountInv, NextCountInv, PTL DEF Spec

\* A call that is opened is live, so it raises the peak at most to the number of objects
\* or of calls opened.
LEMMA PeakStep == CountInv /\ CountInv' /\ PeakExact /\ [Next]_vars => PeakExact'
<1> SUFFICES ASSUME CountInv, CountInv', PeakExact, [Next]_vars PROVE PeakExact'
  OBVIOUS
<1>0. /\ live \in Nat /\ opened \in Nat /\ peak_live \in Nat /\ MaxSessions \in Nat
      /\ live' \in Nat
  BY TableAssumption DEF CountInv, TableInv, TypeOK
<1>1. live' <= MaxSessions
  <2>1. Actives' \in SUBSET Indices /\ live' = Cardinality(Actives')
    BY DEF CountInv, Tally, Actives, Indices
  <2> QED
    BY <2>1, FiniteTable, FS_Subset
<1>2. CASE \E id \in Ids : Open(id)
  BY <1>0, <1>1, <1>2 DEF Open, PeakExact
<1>3. CASE live' <= live /\ UNCHANGED <<opened, peak_live>>
  BY <1>0, <1>3 DEF PeakExact
<1>4. \/ \E id \in Ids : Open(id)
      \/ live' <= live /\ UNCHANGED <<opened, peak_live>>
  BY <1>0 DEF Next, vars, counters, Frame, Refuse, Tick, Sweep, Keep, Release, MaybeRebuild,
              Reinsert, Rebuilt
<1> QED
  BY <1>2, <1>3, <1>4

\* tombstones_ and live_ are exact whatever order calls are opened, released
\* and reinserted in, so the threshold of maybe_rebuild and the live count
\* that hot_loop publishes rest on true numbers.
THEOREM CountersAreExact == Spec => []CountersExact
<1>1. CountInv /\ PeakExact => CountersExact
  BY DEF CountInv, Tally, CountersExact
<1>2. Init => PeakExact
  BY TableAssumption DEF Init, PeakExact
<1>3. CountInv /\ CountInv' /\ PeakExact /\ [Next]_vars => PeakExact'
  BY PeakStep
<1> QED
  BY <1>1, <1>2, <1>3, CountInvariant, PTL DEF Spec

\* At least a quarter of the slots stays empty, in the middle of a sweep or a
\* rebuild too, so no probe of acquire(), release() or maybe_rebuild() walks
\* the whole table and the loop of maybe_rebuild() always ends.
THEOREM QuarterEmpty == Spec => []EmptySlotsLeft
<1>1. CountInv => EmptySlotsLeft
  BY DEF CountInv
<1> QED
  BY <1>1, CountInvariant, PTL

-----------------------------------------------------------------------------
(* The table implements Admission.                                         *)

\* Each call in progress has one session, so there are as many of either.
LEMMA CallsCounted ==
  ASSUME CountInv
  PROVE  IsFiniteSet(Calls) /\ Cardinality(Calls) = Cardinality(Actives)
<1> DEFINE f == [i \in Actives |-> sessions[i].id]
<1>1. \A i, j \in Actives : sessions[i].id = sessions[j].id => i = j
  BY DEF Actives, CountInv, TableInv, OneSessionPerCall
<1>2. Calls = {sessions[i].id : i \in Actives}
  BY DEF Calls, Actives
<1> HIDE DEF Actives
<1>3. f \in Bijection(Actives, Calls)
  BY <1>1, <1>2 DEF Bijection, Injection, Surjection, IsInjective
<1>4. ExistsBijection(Actives, Calls)
  BY <1>3 DEF ExistsBijection
<1> QED
  BY <1>4, FiniteCounts, FS_Bijection

\* No object is free exactly when max_sessions calls are in progress.
LEMMA FullTable ==
  ASSUME CountInv
  PROVE  IF free_list = <<>> THEN Cardinality(Calls) = MaxSessions
                             ELSE Cardinality(Calls) < MaxSessions
<1>1. free_list \in Seq(Indices) /\ Len(free_list) \in Nat
  BY DEF CountInv, TableInv, TypeOK
<1>2. Actives \in SUBSET Indices
  BY DEF Actives
<1>3. CASE free_list = <<>>
  <2>1. Actives = Indices
    BY <1>3 DEF CountInv, TableInv, FreeListExact, Actives
  <2> QED
    BY <1>3, <2>1, FiniteTable, CallsCounted
<1>4. CASE free_list # <<>>
  <2>1. Len(free_list) \in 1 .. Len(free_list) /\ free_list[Len(free_list)] \in Indices
    BY <1>1, <1>4, EmptySeq
  <2>2. Actives # Indices
    BY <2>1 DEF CountInv, TableInv, FreeListExact, Actives
  <2> HIDE DEF Actives
  <2>3. /\ Cardinality(Actives) <= Cardinality(Indices)
        /\ Cardinality(Actives) # Cardinality(Indices)
    BY <1>2, <2>2, FiniteTable, FS_Subset
  <2> QED
    BY <1>4, <2>3, FiniteTable, FiniteCounts, CallsCounted, TableAssumption
<1> QED
  BY <1>3, <1>4

\* A probe reaches every slot.
LEMMA AtCovers ==
  ASSUME NEW id \in Ids, probe_start \in [Ids -> Slots], NEW s \in Slots
  PROVE  \E o \in Slots : At(id, o) = s
<1>1. PICK b \in Slots : b = probe_start[id]
  OBVIOUS
<1>2. NumSlots \in Nat /\ b \in 0 .. NumSlots - 1 /\ s \in 0 .. NumSlots - 1
  BY TableAssumption DEF Slots
<1>3. CASE s >= b
  <2>1. s - b \in 0 .. NumSlots - 1 /\ b + (s - b) = s
    BY <1>2, <1>3
  <2>2. At(id, s - b) = s
    BY <1>1, <1>2, <2>1 DEF At
  <2> QED
    BY <2>1, <2>2 DEF Slots
<1>4. CASE s < b
  <2>1. s - b + NumSlots \in 0 .. NumSlots - 1
    BY <1>2, <1>4
  <2>2. ~ (b + (s - b + NumSlots) < NumSlots) /\ b + (s - b + NumSlots) - NumSlots = s
    BY <1>2
  <2>3. At(id, s - b + NumSlots) = s
    BY <1>1, <2>2 DEF At
  <2> QED
    BY <2>1, <2>3 DEF Slots
<1> QED
  BY <1>2, <1>3, <1>4

\* While slots are empty, every probe that finds nothing has a place to insert.
LEMMA PlaceToInsert ==
  ASSUME CountInv, NEW id \in Ids
  PROVE  \E o \in Slots : InsertsAt(id, o)
<1> DEFINE O == {o \in Slots : slots[At(id, o)] \in {kEmpty, kTombstone}}
<1>1. probe_start \in [Ids -> Slots] /\ slots \in [Slots -> Indices \cup {kEmpty, kTombstone}]
  BY DEF CountInv, TableInv, TypeOK
<1>2. PICK s \in Slots : slots[s] = kEmpty
  <2>1. 4 * Cardinality(Marked(slots, kEmpty)) >= NumSlots
    BY Counted DEF CountInv
  <2>2. Cardinality(Marked(slots, kEmpty)) # 0
    BY <2>1, TableAssumption
  <2>3. Marked(slots, kEmpty) # {}
    BY <2>2, FS_EmptySet
  <2> QED
    BY <2>3 DEF Marked
<1>3. O # {} /\ O \subseteq Nat
  <2>1. \E o \in Slots : At(id, o) = s
    BY <1>1, AtCovers
  <2> QED
    BY <1>2, <2>1, TableAssumption DEF Slots
<1>4. PICK o \in O : \A p \in O : ~ (<<p, o>> \in OpToRel(<, Nat))
  <2> HIDE DEF O
  <2> QED
    BY <1>3, NatLessThanWellFounded, WFMin
<1>5. ASSUME NEW p \in 0 .. o - 1
      PROVE  slots[At(id, p)] \in Indices
  <2>1. p \in Slots /\ p < o /\ p \in Nat /\ o \in Nat
    BY <1>3, SlotsDownward
  <2>2. <<p, o>> \in OpToRel(<, Nat)
    BY <2>1 DEF OpToRel
  <2>3. p \notin O
    BY <1>4, <2>2
  <2>4. At(id, p) \in Slots
    BY <1>1, <2>1, AtSlots
  <2> QED
    BY <1>1, <2>1, <2>3, <2>4
<1> QED
  BY <1>5 DEF InsertsAt

\* A lookup that finds nothing is for a call not in progress.
LEMMA UnknownCalls ==
  ASSUME CountInv, step = "idle", NEW id \in Ids, Unknown(id)
  PROVE  id \notin Calls
BY DEF Calls, Unknown, CountInv, TableInv, Reachable, Placed

\* Admission counts calls by the same definition of cardinality.
LEMMA SameCardinality == \A S : Registry!Cardinality(S) = Cardinality(S)
  BY DEF Registry!Cardinality, Cardinality

LEMMA InitAdmits == Init => Registry!Init
<1> SUFFICES ASSUME Init PROVE Registry!Init
  OBVIOUS
<1>1. Calls = {}
  BY DEF Init, Calls, NewSession
<1> QED
  BY <1>1 DEF Init, Registry!Init

LEMMA OpenAdmits ==
  ASSUME CountInv, NEW id \in Ids, Open(id)
  PROVE  Registry!Open(id)
<1>1. PICK i \in Indices : i = free_list[Len(free_list)] /\ ~ sessions[i].active
  BY DEF Open, CountInv, TableInv, TypeOK, FreeListExact
<1>2. sessions' = [sessions EXCEPT ![i] = [id |-> id, active |-> TRUE, age |-> 0]]
  BY <1>1 DEF Open
<1>3. /\ sessions'[i].id = id /\ sessions'[i].active
      /\ \A k \in Indices : k # i => sessions'[k] = sessions[k]
  BY <1>2 DEF CountInv, TableInv, TypeOK
<1>4. Calls' = Calls \cup {id}
  BY <1>1, <1>3 DEF Calls
<1>5. id \notin Calls /\ Cardinality(Calls) < MaxSessions
  BY FullTable, UnknownCalls DEF Open
<1> QED
  BY <1>4, <1>5, SameCardinality DEF Open, Registry!Open

LEMMA RefuseAdmits ==
  ASSUME CountInv, NEW id \in Ids, Refuse(id)
  PROVE  Registry!Refuse(id)
<1>1. free_list = <<>>
  BY PlaceToInsert DEF Refuse
<1>2. id \notin Calls /\ Cardinality(Calls) = MaxSessions
  BY <1>1, FullTable, UnknownCalls DEF Refuse
<1>3. Calls' = Calls
  BY DEF Refuse, Calls
<1> QED
  BY <1>2, <1>3, SameCardinality DEF Refuse, Registry!Refuse

LEMMA ReleaseEnds ==
  ASSUME CountInv, Release
  PROVE  \E id \in Ids : Registry!End(id)
<1>1. PICK i \in Indices : i = index /\ sessions[i].active
  BY TableAssumption DEF Release, Releases, CountInv, TableInv, TypeOK, Indices
<1>2. /\ ~ sessions'[i].active
      /\ \A k \in Indices : k # i => sessions'[k] = sessions[k]
  BY <1>1 DEF Release, CountInv, TableInv, TypeOK, SessionSet
<1>3. PICK id \in Ids : id = sessions[i].id
  BY DEF CountInv, TableInv, TypeOK, SessionSet
<1>4. \A k \in Indices : sessions[k].active /\ sessions[k].id = id => k = i
  BY <1>1, <1>3 DEF CountInv, TableInv, OneSessionPerCall
<1>5. id \in Calls /\ Calls' = Calls \ {id}
  BY <1>1, <1>2, <1>3, <1>4 DEF Calls
<1> QED
  BY <1>5 DEF Release, Registry!End, counters

\* Everything else is invisible to the caller.
LEMMA OthersAdmit ==
  ASSUME CountInv,
         \/ UNCHANGED vars
         \/ \E id \in Ids : Frame(id)
         \/ Tick
         \/ \E loop \in {"expire_idle", "flush_all"} : Sweep(loop)
         \/ Keep \/ MaybeRebuild \/ Reinsert \/ Rebuilt
  PROVE  UNCHANGED Registry!admissionVars
<1>1. UNCHANGED counters
  BY DEF vars, Frame, Tick, Sweep, Keep, MaybeRebuild, Reinsert, Rebuilt
<1>2. \A i \in Indices : sessions'[i].active = sessions[i].active /\ sessions'[i].id = sessions[i].id
  <2>1. \A i \in Indices : sessions[i] \in SessionSet
    BY DEF CountInv, TableInv, TypeOK
  <2>2. CASE \E id \in Ids : Frame(id)
    BY <2>1, <2>2 DEF Frame, CountInv, TableInv, TypeOK, SessionSet
  <2>3. CASE Tick
    BY <2>1, <2>3 DEF Tick, SessionSet
  <2>4. CASE UNCHANGED sessions
    BY <2>4
  <2> QED
    BY <2>2, <2>3, <2>4 DEF vars, Sweep, Keep, MaybeRebuild, Reinsert, Rebuilt
<1>3. Calls' = Calls
  BY <1>2 DEF Calls
<1> QED
  BY <1>1, <1>3 DEF counters, Registry!admissionVars

\* session.hpp:17 and :74: the table opens a call once, refuses one only while
\* max_sessions are in progress, and ends only calls in progress.
THEOREM TableImplementsAdmission == Spec => AdmissionSpec
<1>1. CountInv /\ [Next]_vars => [Registry!Next]_(Registry!admissionVars)
  <2> SUFFICES ASSUME CountInv, [Next]_vars PROVE [Registry!Next]_(Registry!admissionVars)
    OBVIOUS
  <2>1. CASE \E id \in Ids : Open(id)
    BY <2>1, OpenAdmits DEF Registry!Next
  <2>2. CASE \E id \in Ids : Refuse(id)
    BY <2>2, RefuseAdmits DEF Registry!Next
  <2>3. CASE Release
    BY <2>3, ReleaseEnds DEF Registry!Next
  <2> QED
    BY <2>1, <2>2, <2>3, OthersAdmit DEF Next
<1> QED
  BY <1>1, InitAdmits, CountInvariant, PTL DEF Spec, AdmissionSpec, Registry!Spec
=============================================================================
