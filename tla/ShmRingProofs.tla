---------------------------- MODULE ShmRingProofs ----------------------------
(***************************************************************************)
(* Proofs about ShmRing for any number of creators and attachers: whoever  *)
(* runs on a segment finds its size set and its header complete, and no    *)
(* two creators ever have one segment open.                                *)
(***************************************************************************)
EXTENDS ShmRing, Integers, SequenceTheorems, TLAPS

\* Where a process has a segment open.
Mapped == {"truncate", "map", "store", "fstat", "magic", "layout", "running"}

\* Where a process can stand.
Places == {"start", "open", "truncate", "map", "store", "fstat", "magic", "layout", "running",
           "unlink"} \cup Over

\* What a process has made of its segment or found in it when it stands there.
Progress(p) ==
  /\ pc[p] \in Mapped <=> layout[p] # None
  /\ pc[p] \in {"map", "store", "magic", "layout", "running"} => segments[layout[p]].sized
  /\ pc[p] = "running" => Fields \subseteq segments[layout[p]].stored
  /\ p \in Creators =>
       /\ pc[p] \notin {"fstat", "magic", "layout"}
       /\ pc[p] \in {"truncate", "map"} => segments[layout[p]].stored = {}
       /\ pc[p] = "running" => segments[layout[p]].stored = Parts

\* The inductive invariant: what a process has found stays so, and what a creator has
\* not stored yet nobody else stores, as no other creator has its segment open.
ShmInv == TypeOK /\ CreatorsApart /\ \A p \in Processes : Progress(p)

SegmentSet == [sized : BOOLEAN, stored : SUBSET Parts]

\* A new segment is one more, and the others stay.
LEMMA AppendSegment ==
  ASSUME segments \in Seq(SegmentSet), segments' = Append(segments, NewSegment)
  PROVE  /\ segments' \in Seq(SegmentSet)
         /\ Len(segments') = Len(segments) + 1
         /\ \A s \in 1 .. Len(segments) : segments'[s] = segments[s]
         /\ segments'[Len(segments')] = NewSegment
<1>1. NewSegment \in SegmentSet
  BY DEF NewSegment, SegmentSet, Parts, Fields
<1> QED
  BY <1>1

\* A store to the segment of p leaves the others alone.
LEMMA UpdateSegment ==
  ASSUME segments \in Seq(SegmentSet), NEW p, layout[p] \in 1 .. Len(segments),
         NEW segment \in SegmentSet,
         segments' = [segments EXCEPT ![layout[p]] = segment]
  PROVE  /\ segments' \in Seq(SegmentSet)
         /\ Len(segments') = Len(segments)
         /\ segments'[layout[p]] = segment
         /\ \A s \in 1 .. Len(segments) : s # layout[p] => segments'[s] = segments[s]
  OBVIOUS

\* What a store does to the segment itself.
LEMMA Stores ==
  ASSUME NEW s \in SegmentSet, NEW h \in SUBSET Parts
  PROVE  /\ [s EXCEPT !.sized = TRUE] \in SegmentSet
         /\ [s EXCEPT !.sized = TRUE].sized
         /\ [s EXCEPT !.sized = TRUE].stored = s.stored
         /\ [s EXCEPT !.stored = h] \in SegmentSet
         /\ [s EXCEPT !.stored = h].sized = s.sized
         /\ [s EXCEPT !.stored = h].stored = h
  BY DEF SegmentSet

\* A step that makes no segment and changes none, and leaves p or gives its segment up,
\* keeps what does not depend on where p stands.
LEMMA SameSegments ==
  ASSUME ShmInv, NEW p \in Processes,
         NEW to \in Places, pc' = [pc EXCEPT ![p] = to],
         UNCHANGED segments,
         name' = name \/ name' = None,
         unlinked' = unlinked \/ unlinked' = unlinked \cup ({name} \ {None}),
         \/ layout' = layout
         \/ layout' = [layout EXCEPT ![p] = None]
         \/ layout' = [layout EXCEPT ![p] = name] /\ p \in Attachers,
         Progress(p)'
  PROVE  ShmInv'
<1> USE DEF ShmInv
<1>0. /\ layout' \in [Processes -> 0 .. Len(segments)] /\ pc' \in [Processes -> Places]
      /\ \A q \in Processes : q # p => layout'[q] = layout[q] /\ pc'[q] = pc[q]
  BY DEF TypeOK, None, Places
<1>a. pc'[p] \in Over => layout'[p] = None
  BY DEF Over, Progress, Mapped
<1>b. \A q \in Processes : pc'[q] \in Over => layout'[q] = None
  BY <1>0, <1>a DEF TypeOK
<1>c. name' \in 0 .. Len(segments) /\ unlinked' \subseteq 1 .. Len(segments)
  <2>1. Len(segments) \in Nat /\ name \in 0 .. Len(segments) /\ unlinked \subseteq 1 .. Len(segments)
    BY DEF TypeOK
  <2>2. {name} \ {None} \subseteq 1 .. Len(segments)
    BY <2>1 DEF None
  <2>3. name' \in 0 .. Len(segments)
    BY <2>1 DEF None
  <2> QED
    BY <2>1, <2>2, <2>3
<1>1. TypeOK'
  BY <1>0, <1>b, <1>c DEF TypeOK, Places
<1>3. CreatorsApart'
  BY ShmAssumption DEF CreatorsApart, TypeOK, Processes, None
<1>4. ASSUME NEW q \in Processes, q # p PROVE Progress(q)'
  BY <1>4 DEF Progress, TypeOK, Mapped
<1> QED
  BY <1>1, <1>3, <1>4

\* A store by p to its segment keeps what does not depend on where p stands.
LEMMA StoreStep ==
  ASSUME ShmInv, NEW p \in Creators, layout[p] # None,
         NEW segment \in SegmentSet,
         segments' = [segments EXCEPT ![layout[p]] = segment],
         segments[layout[p]].sized => segment.sized,
         segments[layout[p]].stored \subseteq segment.stored,
         NEW to \in Places \ Over, pc' = [pc EXCEPT ![p] = to],
         UNCHANGED <<name, layout, unlinked>>,
         Progress(p)'
  PROVE  ShmInv'
<1>0. layout[p] \in 1 .. Len(segments) /\ segments \in Seq(SegmentSet)
  BY DEF ShmInv, TypeOK, None, SegmentSet, Processes
<1>1. /\ segments' \in Seq(SegmentSet) /\ Len(segments') = Len(segments)
      /\ segments'[layout[p]] = segment
      /\ \A s \in 1 .. Len(segments) : s # layout[p] => segments'[s] = segments[s]
  BY <1>0, UpdateSegment
<1>2. TypeOK'
  BY <1>1 DEF ShmInv, TypeOK, Places, SegmentSet
<1>4. CreatorsApart'
  BY DEF ShmInv, CreatorsApart
<1>5. ASSUME NEW q \in Processes, q # p PROVE Progress(q)'
  <2>1. /\ layout'[q] = layout[q] /\ pc'[q] = pc[q]
        /\ layout[q] # None => layout[q] \in 1 .. Len(segments)
    BY <1>5 DEF ShmInv, TypeOK, None
  <2>2. CASE layout[q] = layout[p]
    <3>1. q \notin Creators
      BY <1>5, <2>2 DEF ShmInv, CreatorsApart, None
    <3> QED
      BY <1>1, <2>1, <2>2, <3>1 DEF ShmInv, Progress, Mapped
  <2>3. CASE layout[q] # layout[p]
    BY <1>1, <2>1, <2>3 DEF ShmInv, Progress, Mapped
  <2> QED
    BY <2>2, <2>3
<1> QED
  BY <1>2, <1>4, <1>5 DEF ShmInv

\* Nothing is mapped at first.
LEMMA InitShmInv == Init => ShmInv
<1> SUFFICES ASSUME Init PROVE ShmInv
  OBVIOUS
<1> USE DEF Init
<1>1. TypeOK
  BY DEF TypeOK, None, Over
<1>3. CreatorsApart
  BY DEF CreatorsApart, Processes
<1>4. \A p \in Processes : Progress(p)
  BY DEF Progress, Mapped
<1> QED
  BY <1>1, <1>3, <1>4 DEF ShmInv

\* shm_open with O_EXCL: the segment is new, so nobody has it open.
LEMMA CreateOpenStep ==
  ASSUME ShmInv, NEW p \in Creators, CreateOpen(p)
  PROVE  ShmInv'
<1> DEFINE new == Len(segments) + 1
<1>0. /\ segments \in Seq(SegmentSet) /\ Len(segments) \in Nat
      /\ \A q \in Processes : layout[q] \in 0 .. Len(segments)
      /\ p \in Processes
  BY DEF ShmInv, TypeOK, SegmentSet, Processes
<1>1. /\ segments' \in Seq(SegmentSet) /\ Len(segments') = new
      /\ \A s \in 1 .. Len(segments) : segments'[s] = segments[s]
      /\ segments'[new] = NewSegment
  BY <1>0, AppendSegment DEF CreateOpen
<1>2. /\ name' = new /\ layout' = [layout EXCEPT ![p] = new] /\ unlinked' = unlinked
      /\ pc[p] = "open" /\ pc' = [pc EXCEPT ![p] = "truncate"]
  BY <1>1 DEF CreateOpen, Open, Goto
<1>3. TypeOK'
  BY <1>0, <1>1, <1>2 DEF ShmInv, TypeOK, SegmentSet, Over
<1>5. CreatorsApart'
  BY <1>0, <1>2 DEF ShmInv, CreatorsApart, TypeOK, Processes
<1>6. ASSUME NEW q \in Processes PROVE Progress(q)'
  <2>1. CASE q = p
    BY <1>0, <1>1, <1>2, <2>1 DEF ShmInv, TypeOK, Progress, None, Mapped, NewSegment
  <2>2. CASE q # p
    BY <1>0, <1>1, <1>2, <2>2 DEF ShmInv, TypeOK, Progress, None, Mapped
  <2> QED
    BY <2>1, <2>2
<1> QED
  BY <1>3, <1>5, <1>6 DEF ShmInv

\* The stores of create() to the segment it has made.
LEMMA CreatorStores ==
  ASSUME ShmInv, NEW p \in Creators, CreateTruncate(p) \/ Construct(p)
  PROVE  ShmInv'
<1> DEFINE s == segments[layout[p]]
<1>0. /\ p \in Processes /\ layout[p] # None /\ layout[p] \in 1 .. Len(segments)
      /\ segments \in Seq(SegmentSet) /\ s \in SegmentSet
      /\ pc \in [Processes -> Places] /\ Progress(p)
  <2>1. p \in Processes /\ pc[p] \in Mapped
    BY DEF Processes, CreateTruncate, Construct, Goto, Mapped
  <2>2. layout[p] # None
    BY <2>1 DEF ShmInv, Progress
  <2>3. layout[p] \in 1 .. Len(segments) /\ segments \in Seq(SegmentSet)
    BY <2>1, <2>2 DEF ShmInv, TypeOK, SegmentSet, None
  <2>4. s \in SegmentSet
    BY <2>3
  <2> QED
    BY <2>1, <2>2, <2>3, <2>4 DEF ShmInv, TypeOK, Places
<1>1. CASE CreateTruncate(p)
  <2> DEFINE segment == [s EXCEPT !.sized = TRUE]
  <2>1. segments' = [segments EXCEPT ![layout[p]] = segment]
    BY <1>1 DEF CreateTruncate
  <2>2. segment \in SegmentSet /\ segment.sized /\ segment.stored = s.stored
    BY <1>0, Stores
  <2>3. pc[p] = "truncate" /\ pc' = [pc EXCEPT ![p] = "map"] /\ "map" \in Places \ Over
    BY <1>1 DEF CreateTruncate, Goto, Places, Over
  <2>4. UNCHANGED <<name, layout, unlinked>>
    BY <1>1 DEF CreateTruncate
  <2>5. Progress(p)'
    <3>1. segments'[layout[p]] = segment /\ pc'[p] = "map"
      BY <1>0, <2>1, <2>2, <2>3, UpdateSegment
    <3> QED
      BY <1>0, <2>2, <2>3, <2>4, <3>1 DEF Progress, Mapped
  <2> HIDE DEF segment
  <2> QED
    BY <1>0, <2>1, <2>2, <2>3, <2>4, <2>5, StoreStep
<1>2. CASE Construct(p)
  <2>0. PICK part \in Parts \ s.stored :
          LET stored == s.stored \cup {part}
          IN  /\ segments' = [segments EXCEPT ![layout[p]].stored = stored]
              /\ pc' = [pc EXCEPT ![p] = IF stored = Parts THEN "running" ELSE "store"]
    BY <1>2 DEF Construct
  <2> DEFINE stored == s.stored \cup {part}
             segment == [s EXCEPT !.stored = stored]
             to == IF stored = Parts THEN "running" ELSE "store"
  <2>1. segments' = [segments EXCEPT ![layout[p]] = segment]
    BY <2>0
  <2>2. stored \in SUBSET Parts
    BY <1>0 DEF SegmentSet
  <2>3. segment \in SegmentSet /\ segment.sized = s.sized /\ segment.stored = stored
    BY <1>0, <2>2, Stores
  <2>4. s.sized
    BY <1>0, <1>2 DEF Progress, Construct
  <2>5. pc' = [pc EXCEPT ![p] = to] /\ to \in Places \ Over
    BY <2>0 DEF Places, Over
  <2>6. UNCHANGED <<name, layout, unlinked>>
    BY <1>2 DEF Construct
  <2>7. Progress(p)'
    <3>1. segments'[layout[p]] = segment
      BY <1>0, <2>1, <2>3, UpdateSegment
    <3>2. pc'[p] = to
      BY <1>0, <2>5
    <3>3. Fields \subseteq Parts
      BY DEF Parts
    <3> QED
      BY <1>0, <2>3, <2>4, <2>6, <3>1, <3>2, <3>3 DEF Progress, Mapped
  <2>8. s.stored \subseteq segment.stored
    BY <2>3
  <2> HIDE DEF segment, stored, to
  <2> QED
    BY <1>0, <2>1, <2>3, <2>4, <2>5, <2>6, <2>7, <2>8, StoreStep
<1> QED
  BY <1>1, <1>2

\* The steps of create() and of its destructor that store nothing in the segment.
LEMMA CreatorSteps ==
  ASSUME ShmInv, NEW p \in Creators,
         \/ CreateUnlink(p) \/ OpenFails(p) \/ TruncateFails(p)
         \/ CreateMap(p) \/ MapFails(p) \/ Unlink(p)
  PROVE  ShmInv'
<1>0. /\ p \in Processes /\ Progress(p)
      /\ pc \in [Processes -> Places] /\ layout \in [Processes -> 0 .. Len(segments)]
  BY DEF ShmInv, TypeOK, Places, Processes
<1>a. {"open", "map", "store", "failed", "unmapped", "exited"} \subseteq Places
  BY DEF Places, Over
<1>1. CASE CreateUnlink(p)
  <2>1. /\ pc' = [pc EXCEPT ![p] = "open"] /\ UNCHANGED segments
        /\ name' = None /\ unlinked' = unlinked \cup ({name} \ {None}) /\ layout' = layout
    BY <1>1 DEF CreateUnlink, Goto
  <2>2. Progress(p)'
    BY <1>0, <1>1, <2>1 DEF Progress, CreateUnlink, Goto, Mapped
  <2> QED
    BY <1>0, <1>a, <2>1, <2>2, SameSegments
<1>2. CASE OpenFails(p)
  <2>1. /\ pc' = [pc EXCEPT ![p] = "failed"] /\ UNCHANGED segments
        /\ name' = name /\ unlinked' = unlinked /\ layout' = layout
    BY <1>2 DEF OpenFails, Goto
  <2>2. Progress(p)'
    BY <1>0, <1>2, <2>1 DEF Progress, OpenFails, Goto, Mapped
  <2> QED
    BY <1>0, <1>a, <2>1, <2>2, SameSegments
<1>3. CASE TruncateFails(p)
  <2>1. /\ pc' = [pc EXCEPT ![p] = "failed"] /\ UNCHANGED segments
        /\ name' = None /\ unlinked' = unlinked /\ layout' = [layout EXCEPT ![p] = None]
    BY <1>3 DEF TruncateFails, Goto, Open
  <2>2. Progress(p)'
    BY <1>0, <2>1 DEF Progress, Mapped
  <2> QED
    BY <1>0, <1>a, <2>1, <2>2, SameSegments
<1>4. CASE MapFails(p)
  <2>1. /\ pc' = [pc EXCEPT ![p] = "unmapped"] /\ UNCHANGED segments
        /\ name' = name /\ unlinked' = unlinked /\ layout' = [layout EXCEPT ![p] = None]
    BY <1>4 DEF MapFails, Goto, Open
  <2>2. Progress(p)'
    BY <1>0, <2>1 DEF Progress, Mapped
  <2> QED
    BY <1>0, <1>a, <2>1, <2>2, SameSegments
<1>5. CASE Unlink(p)
  <2>1. /\ pc' = [pc EXCEPT ![p] = "exited"] /\ UNCHANGED segments
        /\ name' = None /\ unlinked' = unlinked /\ layout' = layout
    BY <1>5 DEF Unlink, Goto
  <2>2. Progress(p)'
    BY <1>0, <1>5, <2>1 DEF Progress, Unlink, Goto, Mapped
  <2> QED
    BY <1>0, <1>a, <2>1, <2>2, SameSegments
<1>6. CASE CreateMap(p)
  <2>1. /\ pc' = [pc EXCEPT ![p] = "store"] /\ UNCHANGED segments
        /\ name' = name /\ unlinked' = unlinked /\ layout' = layout
    BY <1>6 DEF CreateMap, Goto
  <2>2. Progress(p)'
    BY <1>0, <1>6, <2>1 DEF Progress, CreateMap, Goto, Mapped
  <2> QED
    BY <1>0, <1>a, <2>1, <2>2, SameSegments
<1> QED
  BY <1>1, <1>2, <1>3, <1>4, <1>5, <1>6

\* A check of attach() that passes, with what it has found, or fails.
LEMMA CheckStep ==
  ASSUME ShmInv, NEW p \in Attachers,
         NEW from \in {"fstat", "magic", "layout"}, NEW to \in {"magic", "layout", "running"},
         NEW passed \in BOOLEAN, Check(p, from, passed, to),
         from = "fstat" /\ passed => segments[layout[p]].sized,
         to = "running" /\ passed => Fields \subseteq segments[layout[p]].stored
  PROVE  ShmInv'
<1>0. /\ p \in Processes /\ Progress(p) /\ p \notin Creators
      /\ pc \in [Processes -> Places] /\ layout \in [Processes -> 0 .. Len(segments)]
  BY ShmAssumption DEF ShmInv, TypeOK, Places, Processes
<1>1. UNCHANGED <<name, segments, unlinked>> /\ pc[p] = from
  BY DEF Check, Goto
<1>2. to \in Places /\ "failed" \in Places
  BY DEF Places, Over
<1>3. CASE passed
  <2>1. pc' = [pc EXCEPT ![p] = to] /\ layout' = layout
    BY <1>0, <1>3 DEF Check, Goto, Open
  <2>2. Progress(p)'
    BY <1>0, <1>1, <1>3, <2>1 DEF Progress, Mapped
  <2> QED
    BY <1>0, <1>1, <1>2, <2>1, <2>2, SameSegments
<1>4. CASE ~ passed
  <2>1. pc' = [pc EXCEPT ![p] = "failed"] /\ layout' = [layout EXCEPT ![p] = None]
    BY <1>4 DEF Check, Goto, Open
  <2>2. Progress(p)'
    BY <1>0, <2>1 DEF Progress, Mapped
  <2> QED
    BY <1>0, <1>1, <1>2, <2>1, <2>2, SameSegments
<1> QED
  BY <1>3, <1>4

\* attach() opens what has the name now, whoever made it, and checks it field by field.
LEMMA AttacherSteps ==
  ASSUME ShmInv, NEW p \in Attachers, Attach(p)
  PROVE  ShmInv'
<1>0. /\ p \in Processes /\ Progress(p) /\ name \in 0 .. Len(segments) /\ p \notin Creators
      /\ pc \in [Processes -> Places] /\ layout \in [Processes -> 0 .. Len(segments)]
      /\ segments \in Seq(SegmentSet)
  BY ShmAssumption DEF ShmInv, TypeOK, Places, Processes, SegmentSet
<1>1. CASE AttachOpen(p)
  <2> DEFINE to == IF name = None THEN "failed" ELSE "fstat"
  <2>1. /\ pc' = [pc EXCEPT ![p] = to] /\ layout' = [layout EXCEPT ![p] = name]
        /\ UNCHANGED <<name, segments, unlinked>>
    BY <1>1 DEF AttachOpen, Goto, Open
  <2>2. to \in Places
    BY DEF Places, Over
  <2>3. Progress(p)'
    <3>1. pc'[p] = to /\ layout'[p] = name
      BY <1>0, <2>1
    <3> QED
      BY <1>0, <3>1 DEF Progress, Mapped
  <2> HIDE DEF to
  <2> QED
    BY <1>0, <2>1, <2>2, <2>3, SameSegments
<1>2. CASE AttachStat(p)
  <2>1. PICK mapped \in BOOLEAN :
          Check(p, "fstat", segments[layout[p]].sized /\ mapped, "magic")
    BY <1>2 DEF AttachStat
  <2>2. (segments[layout[p]].sized /\ mapped) \in BOOLEAN
    OBVIOUS
  <2> QED
    BY <2>1, <2>2, CheckStep
<1>3. CASE CheckMagic(p)
  <2>1. ("magic" \in segments[layout[p]].stored) \in BOOLEAN
    OBVIOUS
  <2> QED
    BY <1>3, <2>1, CheckStep DEF CheckMagic
<1>4. CASE CheckLayout(p)
  <2>1. (Fields \subseteq segments[layout[p]].stored) \in BOOLEAN
    OBVIOUS
  <2> QED
    BY <1>4, <2>1, CheckStep DEF CheckLayout
<1> QED
  BY <1>1, <1>2, <1>3, <1>4 DEF Attach

\* A process lets go of its segment, by its destructor or because it is killed.
LEMMA LeaveSteps ==
  ASSUME ShmInv, NEW p \in Processes, Unmap(p) \/ Crash(p)
  PROVE  ShmInv'
<1>0. pc \in [Processes -> Places] /\ layout \in [Processes -> 0 .. Len(segments)]
  BY DEF ShmInv, TypeOK, Places
<1>1. PICK to \in {"unlink", "exited", "crashed"} : pc' = [pc EXCEPT ![p] = to]
  BY DEF Unmap, Crash, Goto
<1>2. layout' = [layout EXCEPT ![p] = None] /\ UNCHANGED <<name, segments, unlinked>>
  BY DEF Unmap, Crash, Open
<1>3. to \in Places
  BY DEF Places, Over
<1>4. Progress(p)'
  BY <1>0, <1>1, <1>2 DEF Progress, Mapped
<1> QED
  BY <1>1, <1>2, <1>3, <1>4, SameSegments

\* Every step of every process preserves ShmInv.
LEMMA NextShmInv == ShmInv /\ [Next]_vars => ShmInv'
<1> SUFFICES ASSUME ShmInv, [Next]_vars PROVE ShmInv'
  OBVIOUS
<1>1. ASSUME NEW p \in Creators, Create(p) \/ Unlink(p) PROVE ShmInv'
  BY <1>1, CreateOpenStep, CreatorStores, CreatorSteps DEF Create
<1>2. ASSUME NEW p \in Attachers, Attach(p) PROVE ShmInv'
  BY <1>2, AttacherSteps
<1>3. ASSUME NEW p \in Processes, Unmap(p) \/ Crash(p) PROVE ShmInv'
  BY <1>3, LeaveSteps
<1>4. CASE UNCHANGED vars
  BY <1>4 DEF vars, ShmInv, TypeOK, CreatorsApart, Progress
<1> QED
  BY <1>1, <1>2, <1>3, <1>4 DEF Next

LEMMA ShmInvariant == Spec => []ShmInv
  BY InitShmInv, NextShmInv, PTL DEF Spec

\* shm_ring.hpp:74: however creators and attachers interleave, fail and die, nobody
\* touches a segment that has no size or runs on one whose header is half written, and
\* while a creator that has returned still holds it, the ring is there as well.
THEOREM SegmentReady == Spec => []SegmentInv
<1>1. ASSUME ShmInv PROVE SegmentInv
  <2>1. ASSUME NEW p \in Processes, pc[p] = "running", "ring" \notin segments[layout[p]].stored,
               NEW c \in Creators, layout[c] = layout[p]
        PROVE  pc[c] = "store"
    <3>1. Progress(p) /\ Progress(c)
      BY <1>1 DEF ShmInv, Processes
    <3>2. pc[c] \in {"truncate", "map", "store", "running"}
      BY <2>1, <3>1 DEF Progress, Mapped
    <3> QED
      BY <2>1, <3>1, <3>2 DEF Progress, Parts, Fields
  <2>2. AttachedIsReady
    BY <1>1, <2>1 DEF ShmInv, AttachedIsReady, Progress
  <2> QED
    BY <1>1, <2>2 DEF ShmInv, SegmentInv
<1> QED
  BY <1>1, ShmInvariant, PTL

\* Two creators never have one segment open, so no ring has two consumers.
THEOREM OneCreatorPerSegment == Spec => []CreatorsApart
<1>1. ShmInv => CreatorsApart
  BY DEF ShmInv
<1> QED
  BY <1>1, ShmInvariant, PTL
=============================================================================
