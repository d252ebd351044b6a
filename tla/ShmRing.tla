------------------------------ MODULE ShmRing ------------------------------
(***************************************************************************)
(* The life of the shared-memory segment of include/vhp/shm_ring.hpp: the  *)
(* processes that create() it and those that attach() to it, each started  *)
(* at any time, interleaved at their system calls and at the plain stores  *)
(* of create(), which another process may see in any order, ending through *)
(* the destructor or killed.                                               *)
(***************************************************************************)
EXTENDS Naturals, Sequences

CONSTANTS
  Creators,   \* processes that run create() (the consumer, or vhp_producer --create)
  Attachers   \* processes that run attach()

ASSUME ShmAssumption == Creators \cap Attachers = {}

Processes == Creators \cup Attachers

\* The fields of the header that attach() checks.
Fields == {"magic", "version", "slot_bytes", "capacity"}

\* What create() stores in a segment: those, and the ring constructed in place.
Parts == Fields \cup {"ring"}

VARIABLES
  name,       \* the segment that has the name, or None
  segments,   \* every segment made: its size is set, and what others can see stored in it
  pc,         \* where each process stands
  layout,     \* the segment each has open
  unlinked    \* history: segments that create() took the name of

vars == <<name, segments, pc, layout, unlinked>>

None == 0
NewSegment == [sized |-> FALSE, stored |-> {}]

Init ==
  /\ name = None /\ segments = <<>>
  /\ pc = [p \in Processes |-> "start"]
  /\ layout = [p \in Processes |-> None]
  /\ unlinked = {}

Goto(p, from, to) == pc[p] = from /\ pc' = [pc EXCEPT ![p] = to]

Open(p, segment) == layout' = [layout EXCEPT ![p] = segment]

\* The next check passes, or the mapping is given up and attach() throws.
Check(p, from, passed, to) ==
  /\ Goto(p, from, IF passed THEN to ELSE "failed")
  /\ Open(p, IF passed THEN layout[p] ELSE None)
  /\ UNCHANGED <<name, segments, unlinked>>

-----------------------------------------------------------------------------
(* create().                                                               *)

\* Whatever has the name loses it.
CreateUnlink(p) ==
  /\ Goto(p, "start", "open")
  /\ name' = None /\ unlinked' = unlinked \cup ({name} \ {None})
  /\ UNCHANGED <<segments, layout>>

\* Slip: shm_open without O_EXCL.
CreateOpen_NotExclusive(p) ==
  /\ Goto(p, "open", "truncate")
  /\ IF name # None
       THEN Open(p, name) /\ UNCHANGED <<name, segments>>
       ELSE /\ segments' = Append(segments, NewSegment)
            /\ name' = Len(segments') /\ Open(p, Len(segments'))
  /\ UNCHANGED unlinked

\* shm_open with O_EXCL: another may have made a segment in the meantime.
CreateOpen(p) ==
  /\ Goto(p, "open", "truncate") /\ name = None
  /\ segments' = Append(segments, NewSegment)
  /\ name' = Len(segments') /\ Open(p, Len(segments'))
  /\ UNCHANGED unlinked

\* shm_open fails, for that reason or another.
OpenFails(p) ==
  /\ Goto(p, "open", "failed")
  /\ UNCHANGED <<name, segments, layout, unlinked>>

CreateTruncate(p) ==
  /\ Goto(p, "truncate", "map")
  /\ segments' = [segments EXCEPT ![layout[p]].sized = TRUE]
  /\ UNCHANGED <<name, layout, unlinked>>

\* ftruncate fails: the name is given up, whoever has it by now.
TruncateFails(p) ==
  /\ Goto(p, "truncate", "failed")
  /\ name' = None /\ Open(p, None)
  /\ UNCHANGED <<segments, unlinked>>

CreateMap(p) == Goto(p, "map", "store") /\ UNCHANGED <<name, segments, layout, unlinked>>

\* mmap fails: the segment and its name stay.
MapFails(p) ==
  /\ Goto(p, "map", "unmapped") /\ Open(p, None)
  /\ UNCHANGED <<name, segments, unlinked>>

\* memset, the ring in place and the header are plain stores: another process may see
\* them in any order.
Construct(p) ==
  /\ pc[p] = "store"
  /\ \E part \in Parts \ segments[layout[p]].stored :
       LET stored == segments[layout[p]].stored \cup {part}
       IN  /\ segments' = [segments EXCEPT ![layout[p]].stored = stored]
           /\ pc' = [pc EXCEPT ![p] = IF stored = Parts THEN "running" ELSE "store"]
  /\ UNCHANGED <<name, layout, unlinked>>

-----------------------------------------------------------------------------
(* attach().                                                               *)

AttachOpen(p) ==
  /\ Goto(p, "start", IF name = None THEN "failed" ELSE "fstat")
  /\ Open(p, name)
  /\ UNCHANGED <<name, segments, unlinked>>

\* A segment that is too small is refused; mmap may fail.
AttachStat(p) ==
  \E mapped \in BOOLEAN : Check(p, "fstat", segments[layout[p]].sized /\ mapped, "magic")

\* Slip: the magic number is enough.
CheckMagic_IsEnough(p) == Check(p, "magic", "magic" \in segments[layout[p]].stored, "running")

CheckMagic(p) == Check(p, "magic", "magic" \in segments[layout[p]].stored, "layout")

CheckLayout(p) == Check(p, "layout", Fields \subseteq segments[layout[p]].stored, "running")

-----------------------------------------------------------------------------
(* The destructor: an attacher unmaps; a creator also removes the name.    *)

Unmap(p) ==
  /\ Goto(p, "running", IF p \in Creators THEN "unlink" ELSE "exited")
  /\ Open(p, None)
  /\ UNCHANGED <<name, segments, unlinked>>

\* Whatever has the name loses it, its own segment or a newer one.
Unlink(p) ==
  /\ Goto(p, "unlink", "exited")
  /\ name' = None
  /\ UNCHANGED <<segments, layout, unlinked>>

Over == {"failed", "unmapped", "exited", "crashed"}

\* Killed: no destructor runs.
Crash(p) ==
  /\ pc[p] \notin Over
  /\ pc' = [pc EXCEPT ![p] = "crashed"] /\ Open(p, None)
  /\ UNCHANGED <<name, segments, unlinked>>

-----------------------------------------------------------------------------
Create(p) == \/ CreateUnlink(p) \/ CreateOpen(p) \/ OpenFails(p) \/ CreateTruncate(p)
             \/ TruncateFails(p) \/ CreateMap(p) \/ MapFails(p) \/ Construct(p)

Attach(p) == AttachOpen(p) \/ AttachStat(p) \/ CheckMagic(p) \/ CheckLayout(p)

Next == \/ \E p \in Creators : Create(p) \/ Unlink(p)
        \/ \E p \in Attachers : Attach(p)
        \/ \E p \in Processes : Unmap(p) \/ Crash(p)

Spec == Init /\ [][Next]_vars

-----------------------------------------------------------------------------
(* Properties.                                                             *)

\* Types; and a process that is over has nothing mapped.
TypeOK ==
  /\ segments \in Seq([sized : BOOLEAN, stored : SUBSET Parts])
  /\ name \in 0 .. Len(segments)
  /\ layout \in [Processes -> 0 .. Len(segments)]
  /\ unlinked \subseteq 1 .. Len(segments)
  /\ pc \in [Processes -> {"start", "open", "truncate", "map", "store", "fstat",
                           "magic", "layout", "running", "unlink"} \cup Over]
  /\ \A p \in Processes : pc[p] \in Over => layout[p] = None

\* shm_ring.hpp:74, whenever a process attaches and whoever creates or dies meanwhile:
\* nobody touches a mapping before the segment has its size, or trusts a header that is
\* half written; while a creator that has returned from create() still holds the segment,
\* the ring is there as well.
AttachedIsReady ==
  \A p \in Processes :
    /\ pc[p] \in {"store", "magic", "layout", "running"} => segments[layout[p]].sized
    /\ pc[p] = "running" =>
         /\ Fields \subseteq segments[layout[p]].stored
         /\ \/ "ring" \in segments[layout[p]].stored
            \/ \A c \in Creators : layout[c] = layout[p] => pc[c] = "store"

\* The types, and the promise of attach() at shm_ring.hpp:74, as far as the code keeps
\* it: no process runs on a segment whose size or header is not ready.
SegmentInv == TypeOK /\ AttachedIsReady

\* Two consumers never pop from one ring: those that race to create the name
\* end on segments of their own, or fail.
CreatorsApart ==
  \A p, q \in Creators : p # q /\ layout[p] # None => layout[p] # layout[q]

-----------------------------------------------------------------------------
(* Statements of the sources that the code does not keep.                  *)

\* shm_ring.hpp:53: what create() unlinks is a segment from a crashed run, not
\* that of a process that is running on it.
UnlinksOnlyStale ==
  [][\A s \in unlinked' \ unlinked : \A p \in Creators : pc[p] = "running" => layout[p] # s]_vars

\* shm_ring.hpp:74: attach() validates before trusting an index of the ring. The
\* header can be seen complete while the ring's construction is still on its way:
\* nothing releases the magic number and nothing acquires it.
AttachedIsConstructed ==
  \A p \in Processes : pc[p] = "running" => "ring" \in segments[layout[p]].stored
=============================================================================
