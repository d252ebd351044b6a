---------------------------- MODULE SessionTable ----------------------------
(***************************************************************************)
(* SessionTable of include/vhp/session.hpp: an open-addressed table with   *)
(* linear probing and tombstones, a free list of session objects, and the  *)
(* periodic sweep that expires idle calls and rebuilds the slots.          *)
(*                                                                         *)
(* Only the hot thread uses the table.  acquire() is one action; the loops *)
(* of expire_idle(), flush_all() and maybe_rebuild() take one action per   *)
(* session, in index order, and nothing else happens in between.           *)
(*                                                                         *)
(* The hash is any function of Hashes.  A session's last_frame_ns is kept  *)
(* as its age, now - last_frame_ns, up to the idle limit. Its assembler is *)
(* not here: what flush() closes and emit() is given when a session is     *)
(* released is the matter of HotPath, whose Release ships it.              *)
(***************************************************************************)
EXTENDS Integers, Sequences, FiniteSets

CONSTANTS
  Ids,           \* session ids that frames carry
  MaxSessions,   \* max_sessions_
  NumSlots,      \* slot_mask_ + 1
  Hashes,        \* what probe_start() may be: functions from ids to slots
  IdleLimit,     \* idle_ns, in units of Tick
  MaxOpened,     \* bounds of the model: calls opened
  MaxRejected    \* and frames refused in one behaviour

\* The constructor raises max_sessions to 1 and takes the power of two next
\* above twice as many slots; the proofs need only the factor.
ASSUME TableAssumption ==
  /\ MaxSessions \in Nat /\ MaxSessions >= 1
  /\ NumSlots \in Nat /\ NumSlots >= 2 * MaxSessions
  /\ IdleLimit \in Nat /\ IdleLimit >= 1
  /\ Ids \subseteq Nat /\ 0 \in Ids
  /\ Hashes \subseteq [Ids -> 0 .. NumSlots - 1]
  /\ MaxOpened \in Nat /\ MaxRejected \in Nat

VARIABLES
  probe_start,   \* the hash, fixed for a behaviour
  slots,         \* slots_
  sessions,      \* sessions_
  free_list,     \* free_list_
  tombstones,    \* tombstones_
  live,          \* live_
  peak_live,     \* peak_live_
  opened,        \* opened_
  rejected,      \* rejected_
  step,          \* the loop in progress, or "idle"
  index          \* its next session

counters == <<opened, rejected, peak_live>>
vars == <<probe_start, slots, sessions, free_list, tombstones, live, counters, step, index>>

Slots == 0 .. NumSlots - 1
Indices == 0 .. MaxSessions - 1
kEmpty == -1
kTombstone == -2

NewSession == [id |-> 0, active |-> FALSE, age |-> 0]

Init ==
  /\ probe_start \in Hashes
  /\ slots = [s \in Slots |-> kEmpty]
  /\ sessions = [i \in Indices |-> NewSession]
  /\ free_list = [n \in 1 .. MaxSessions |-> MaxSessions - n]
  /\ tombstones = 0 /\ live = 0 /\ peak_live = 0
  /\ opened = 0 /\ rejected = 0
  /\ step = "idle" /\ index = 0

-----------------------------------------------------------------------------
(* Probing.                                                                *)

\* The o-th slot probed for id.
At(id, o) == IF probe_start[id] + o < NumSlots
               THEN probe_start[id] + o
               ELSE probe_start[id] + o - NumSlots

\* Slip: a lookup that stops at a tombstone as well.
Reaches_StopsAtTombstone(id, o) == \A p \in 0 .. o - 1 : slots[At(id, p)] \in Indices

\* The probe for id gets as far as its o-th slot.
Reaches(id, o) == \A p \in 0 .. o - 1 : slots[At(id, p)] # kEmpty

\* acquire() finds session i for id.
Finds(id, i) ==
  /\ sessions[i].active /\ sessions[i].id = id
  /\ \E o \in Slots : Reaches(id, o) /\ slots[At(id, o)] = i

\* acquire() inserts id at its o-th slot: the first tombstone passed if there
\* is one, otherwise the empty slot that ended the probe.
InsertsAt(id, o) == /\ slots[At(id, o)] \in {kEmpty, kTombstone}
                    /\ \A p \in 0 .. o - 1 : slots[At(id, p)] \in Indices

-----------------------------------------------------------------------------
(* acquire(), and on_frame() on the session it returns.                    *)

\* A frame of a call in progress.
Frame(id) ==
  /\ step = "idle"
  /\ \E i \in Indices : Finds(id, i) /\ sessions' = [sessions EXCEPT ![i].age = 0]
  /\ UNCHANGED <<probe_start, slots, free_list, tombstones, live, counters, step, index>>

Unknown(id) == \A i \in Indices : ~ Finds(id, i)

\* The first frame of a call.
Open(id) ==
  /\ step = "idle" /\ Unknown(id) /\ free_list # <<>> /\ opened < MaxOpened
  /\ LET last == Len(free_list)
         i    == free_list[last]
     IN  \E o \in Slots :
           /\ InsertsAt(id, o)
           /\ slots' = [slots EXCEPT ![At(id, o)] = i]
           /\ tombstones' = IF slots[At(id, o)] = kTombstone THEN tombstones - 1 ELSE tombstones
           /\ free_list' = SubSeq(free_list, 1, last - 1)
           /\ sessions' = [sessions EXCEPT
                             ![i] = [id |-> id, active |-> TRUE, age |-> 0]]
  /\ live' = live + 1
  /\ peak_live' = IF live' > peak_live THEN live' ELSE peak_live
  /\ opened' = opened + 1
  /\ UNCHANGED <<probe_start, rejected, step, index>>

\* No object, or no slot, for a new call.
Refuse(id) ==
  /\ step = "idle" /\ Unknown(id) /\ rejected < MaxRejected
  /\ free_list = <<>> \/ \A o \in Slots : ~ InsertsAt(id, o)
  /\ rejected' = rejected + 1
  /\ UNCHANGED <<probe_start, slots, sessions, free_list, tombstones, live, opened, peak_live, step, index>>

\* Time passes between two iterations of hot_loop.
Tick ==
  /\ step = "idle"
  /\ sessions' = [i \in Indices |->
                    IF sessions[i].active /\ sessions[i].age < IdleLimit
                      THEN [sessions[i] EXCEPT !.age = @ + 1]
                      ELSE sessions[i]]
  /\ UNCHANGED <<probe_start, slots, free_list, tombstones, live, counters, step, index>>

-----------------------------------------------------------------------------
(* expire_idle(), flush_all() and maybe_rebuild().                         *)

\* Slip: a loop that starts at one.
Sweep_SkipsFirst(loop) ==
  /\ step = "idle"
  /\ step' = loop /\ index' = 1
  /\ UNCHANGED <<probe_start, slots, sessions, free_list, tombstones, live, counters>>

\* expire_idle() or flush_all() is called.
Sweep(loop) ==
  /\ step = "idle"
  /\ step' = loop /\ index' = 0
  /\ UNCHANGED <<probe_start, slots, sessions, free_list, tombstones, live, counters>>

\* The slot release() finds for session i, if any.
HeldSlots(i) ==
  LET id == sessions[i].id
  IN  {At(id, o) : o \in {n \in Slots : /\ slots[At(id, n)] = i
                                        /\ \A p \in 0 .. n - 1 : slots[At(id, p)] \notin {kEmpty, i}}}

Releases(i) == sessions[i].active /\ (step = "flush_all" \/ sessions[i].age >= IdleLimit)

Keep ==
  /\ step \in {"expire_idle", "flush_all"} /\ index < MaxSessions
  /\ ~ Releases(index)
  /\ index' = index + 1
  /\ UNCHANGED <<probe_start, slots, sessions, free_list, tombstones, live, counters, step>>

\* Slip: clearing the slot instead of leaving a tombstone.
Release_Clears ==
  /\ step \in {"expire_idle", "flush_all"} /\ index < MaxSessions
  /\ Releases(index)
  /\ slots' = [s \in Slots |-> IF s \in HeldSlots(index) THEN kEmpty ELSE slots[s]]
  /\ sessions' = [sessions EXCEPT ![index].active = FALSE]
  /\ free_list' = Append(free_list, index)
  /\ live' = IF live > 0 THEN live - 1 ELSE live
  /\ index' = index + 1
  /\ UNCHANGED <<probe_start, tombstones, counters, step>>

\* Slip: the object does not go back to the free list.
Release_Leaks ==
  /\ step \in {"expire_idle", "flush_all"} /\ index < MaxSessions
  /\ Releases(index)
  /\ slots' = [s \in Slots |-> IF s \in HeldSlots(index) THEN kTombstone ELSE slots[s]]
  /\ tombstones' = IF HeldSlots(index) # {} THEN tombstones + 1 ELSE tombstones
  /\ sessions' = [sessions EXCEPT ![index].active = FALSE]
  /\ live' = IF live > 0 THEN live - 1 ELSE live
  /\ index' = index + 1
  /\ UNCHANGED <<probe_start, free_list, counters, step>>

\* release(), once what flush() closed has been emitted.
Release ==
  /\ step \in {"expire_idle", "flush_all"} /\ index < MaxSessions
  /\ Releases(index)
  /\ slots' = [s \in Slots |-> IF s \in HeldSlots(index) THEN kTombstone ELSE slots[s]]
  /\ tombstones' = IF HeldSlots(index) # {} THEN tombstones + 1 ELSE tombstones
  /\ sessions' = [sessions EXCEPT ![index].active = FALSE]
  /\ free_list' = Append(free_list, index)
  /\ live' = IF live > 0 THEN live - 1 ELSE live
  /\ index' = index + 1
  /\ UNCHANGED <<probe_start, counters, step>>

\* Slip: the rebuild forgets the tombstones it removed.
MaybeRebuild_KeepsCount ==
  /\ step \in {"expire_idle", "flush_all"} /\ index = MaxSessions
  /\ IF tombstones * 4 <= NumSlots
       THEN /\ step' = "idle"
            /\ UNCHANGED <<slots, tombstones>>
       ELSE /\ step' = "rebuild"
            /\ slots' = [s \in Slots |-> kEmpty]
            /\ UNCHANGED tombstones
  /\ index' = 0
  /\ UNCHANGED <<probe_start, sessions, free_list, live, counters>>

\* Slip: never rebuilding.
MaybeRebuild_Never ==
  /\ step \in {"expire_idle", "flush_all"} /\ index = MaxSessions
  /\ step' = "idle"
  /\ index' = 0
  /\ UNCHANGED <<probe_start, slots, tombstones, sessions, free_list, live, counters>>

\* The end of the sweep: too many tombstones empty the table.
MaybeRebuild ==
  /\ step \in {"expire_idle", "flush_all"} /\ index = MaxSessions
  /\ IF tombstones * 4 <= NumSlots
       THEN /\ step' = "idle"
            /\ UNCHANGED <<slots, tombstones>>
       ELSE /\ step' = "rebuild"
            /\ slots' = [s \in Slots |-> kEmpty]
            /\ tombstones' = 0
  /\ index' = 0
  /\ UNCHANGED <<probe_start, sessions, free_list, live, counters>>

\* A session in use goes to the first empty slot of its probe.
Reinsert ==
  /\ step = "rebuild" /\ index < MaxSessions
  /\ IF sessions[index].active
       THEN \E o \in Slots :
              /\ slots[At(sessions[index].id, o)] = kEmpty
              /\ \A p \in 0 .. o - 1 : slots[At(sessions[index].id, p)] # kEmpty
              /\ slots' = [slots EXCEPT ![At(sessions[index].id, o)] = index]
       ELSE UNCHANGED slots
  /\ index' = index + 1
  /\ UNCHANGED <<probe_start, sessions, free_list, tombstones, live, counters, step>>

Rebuilt ==
  /\ step = "rebuild" /\ index = MaxSessions
  /\ step' = "idle" /\ index' = 0
  /\ UNCHANGED <<probe_start, slots, sessions, free_list, tombstones, live, counters>>

-----------------------------------------------------------------------------
Next == \/ \E id \in Ids : Frame(id) \/ Open(id) \/ Refuse(id)
        \/ Tick
        \/ \E loop \in {"expire_idle", "flush_all"} : Sweep(loop)
        \/ Keep \/ Release \/ MaybeRebuild \/ Reinsert \/ Rebuilt

Spec == Init /\ [][Next]_vars

\* The clock advances between two iterations of hot_loop, and every 250 ms it
\* sweeps before it looks at the next frame, whatever else it does; a loop once
\* begun runs to its end.  No frame need ever arrive.
FairSpec ==
  /\ Spec
  /\ SF_vars(Tick) /\ SF_vars(Sweep("expire_idle"))
  /\ WF_vars(Keep \/ Release \/ MaybeRebuild \/ Reinsert \/ Rebuilt)

-----------------------------------------------------------------------------
(* Properties.                                                             *)

SessionSet == [id : Ids, active : BOOLEAN, age : 0 .. IdleLimit]

\* Types of the table's fields; a part of TableInv.
TypeOK ==
  /\ probe_start \in [Ids -> Slots]
  /\ slots \in [Slots -> Indices \cup {kEmpty, kTombstone}]
  /\ sessions \in [Indices -> SessionSet]
  /\ free_list \in Seq(Indices)
  /\ tombstones \in Int /\ live \in Nat
  /\ {opened, rejected, peak_live} \subseteq Nat
  /\ step \in {"idle", "expire_idle", "flush_all", "rebuild"}
  /\ index \in 0 .. MaxSessions

\* Sessions whose slot is written: all those in use, except in the middle of
\* a rebuild.
Placed(i) == sessions[i].active /\ (step = "rebuild" => i < index)

\* Every call in progress is found by a probe from its id, whatever was
\* released before it in the chain (session.hpp:68).
Reachable == \A i \in Indices : Placed(i) => Finds(sessions[i].id, i)

\* A slot that names a session belongs to a call in progress, and no session
\* has two.
SlotsOwned ==
  /\ \A s \in Slots : slots[s] \in Indices => Placed(slots[s])
  /\ \A s, t \in Slots : slots[s] \in Indices /\ slots[s] = slots[t] => s = t

\* session.hpp:70: no call ever has a second session.
OneSessionPerCall ==
  \A i, j \in Indices :
    sessions[i].active /\ sessions[j].active /\ sessions[i].id = sessions[j].id => i = j

\* The free list holds each session that is not in use, once.
FreeListExact ==
  /\ \A i \in Indices : sessions[i].active <=> \A n \in 1 .. Len(free_list) : free_list[n] # i
  /\ \A m, n \in 1 .. Len(free_list) : free_list[m] = free_list[n] => m = n

\* The part of the inductive invariant that does not count.
TableInv == /\ TypeOK /\ Reachable /\ SlotsOwned /\ OneSessionPerCall
            /\ FreeListExact

\* peak_live_ lies between what is live now and what there is room for or was ever
\* opened; a part of CountersExact.
PeakExact == live <= peak_live /\ peak_live <= MaxSessions /\ peak_live <= opened

\* tombstones_ and live_ count what they say, however slots are reused,
\* released and rebuilt, and peak_live_ keeps its bounds.
CountersExact ==
  /\ tombstones = Cardinality({s \in Slots : slots[s] = kTombstone})
  /\ live = Cardinality({i \in Indices : sessions[i].active})
  /\ PeakExact

\* The threshold of maybe_rebuild leaves a quarter of the slots empty, so a
\* probe that finds nothing stops before it has walked the whole table.
EmptySlotsLeft == 4 * Cardinality({s \in Slots : slots[s] = kEmpty}) >= NumSlots

\* session.hpp:17 and :74: new calls are opened once and refused only while
\* max_sessions calls are in progress, never because a free object cannot be
\* reached.
Calls == {sessions[i].id : i \in {n \in Indices : sessions[n].active}}

Registry == INSTANCE Admission
              WITH MaxCalls <- MaxSessions, calls <- Calls, refused <- rejected

AdmissionSpec == Registry!Spec

\* session.hpp:128: a call that hangs up without saying so does not keep its
\* session: again and again each session is free or has just had a frame.
NoGhosts == \A i \in Indices : []<>(~ sessions[i].active \/ sessions[i].age = 0)
=============================================================================
