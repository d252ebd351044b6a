------------------------------ MODULE SpscRing ------------------------------
(***************************************************************************)
(* The lock-free ring of include/vhp/spsc_ring.hpp, under the C++ memory   *)
(* model rather than under interleaving alone.                             *)
(*                                                                         *)
(* `head' and `tail' are atomics with one writer each, and each only       *)
(* grows, so the values a location ever held are the numbers up to its     *)
(* current one.  A thread reads its own index exactly.  An acquire load of *)
(* the other side's index returns ANY value from the newest one this       *)
(* thread has already seen up to the current one: a load may be stale, but *)
(* coherence never lets it go back.  A release store carries what the      *)
(* storing thread had done by then, here the number of slot writes (or     *)
(* slot copies) it has performed, and the acquire load that reads it makes *)
(* them happen-before whatever the loading thread does next.  The slots    *)
(* are plain memory: copying a slot whose write does not happen-before the *)
(* copy is a data race, and the copy may then return anything.             *)
(*                                                                         *)
(* try_push and try_pop are split at their shared accesses.                *)
(***************************************************************************)
EXTENDS Naturals, Sequences

CONSTANTS
  Capacity,   \* number of slots (kCapacity)
  Values,     \* the items that may be pushed
  Blank,      \* content of a slot nothing was written to
  MaxItems    \* bound of the model: pushes accepted in one behaviour

\* The static_asserts on Capacity.  Being a power of two only makes
\* `seq & kMask' the remainder that Slot takes.
ASSUME RingAssumption == /\ Capacity \in Nat /\ Capacity >= 2
                         /\ MaxItems \in Nat
                         /\ Blank \notin Values

VARIABLES
  \* the shared memory
  head, tail,           \* the two atomics
  slots,                \* slots_
  head_release,         \* value of head -> slot writes its store released
  tail_release,         \* value of tail -> slot copies its store released
  \* the producer thread
  prod_pc, item,        \* where try_push stands, and its argument
  tail_cache,           \* prod_.tail_cache
  tail_seen,            \* newest tail this thread has loaded
  writes,               \* slot writes performed
  copies_seen,          \* slot copies that happen-before its next step
  \* the consumer thread
  cons_pc, out,         \* where try_pop stands, and its result
  head_cache,           \* cons_.head_cache
  head_seen,            \* newest head this thread has loaded
  copies,               \* slot copies performed
  writes_seen,          \* slot writes that happen-before its next step
  \* history
  sent,                 \* items accepted by try_push, in order
  got                   \* items returned by try_pop, in order

prodVars == <<prod_pc, item, tail_cache, tail_seen, writes, copies_seen>>
consVars == <<cons_pc, out, head_cache, head_seen, copies, writes_seen>>
headVars == <<head, head_release, sent>>
tailVars == <<tail, tail_release, got>>
vars == <<prodVars, consVars, headVars, tailVars, slots>>

\* Slip: reducing by the mask instead of masking.
Slot_ByMask(seq) == seq % (Capacity - 1)

Slot(seq) == seq % Capacity

SlotIndex == 0 .. Capacity - 1

\* max of what was known and what an acquire load brings.
Join(m, n) == IF m >= n THEN m ELSE n

Init ==
  /\ head = 0 /\ head_release = [v \in {0} |-> 0] /\ sent = <<>>
  /\ tail = 0 /\ tail_release = [v \in {0} |-> 0] /\ got = <<>>
  /\ slots = [s \in SlotIndex |-> Blank]
  /\ prod_pc = "idle" /\ item = Blank
  /\ tail_cache = 0 /\ tail_seen = 0 /\ writes = 0 /\ copies_seen = 0
  /\ cons_pc = "idle" /\ out = Blank
  /\ head_cache = 0 /\ head_seen = 0 /\ copies = 0 /\ writes_seen = 0

-----------------------------------------------------------------------------
(* The producer thread: try_push and size().                               *)

\* Any value an acquire load of the other side's index may return.
TailLoads == tail_seen .. tail
HeadLoads == head_seen .. head

AcquireTail(t) == /\ tail_seen' = t
                  /\ copies_seen' = Join(copies_seen, tail_release[t])

\* Slip: > for >= in the fullness test.
PushCall_OneTooMany(v) ==
  /\ prod_pc = "idle" /\ head < MaxItems
  /\ item' = v
  /\ prod_pc' = IF head - tail_cache > Capacity THEN "reload" ELSE "store"
  /\ UNCHANGED <<tail_cache, tail_seen, writes, copies_seen,
                 consVars, headVars, tailVars, slots>>

\* Call, and the first fullness test, on thread-local data only.  A caller
\* that was refused may call again with the same item (spin) or another (shed).
PushCall(v) ==
  /\ prod_pc = "idle" /\ head < MaxItems
  /\ item' = v
  /\ prod_pc' = IF head - tail_cache >= Capacity THEN "reload" ELSE "store"
  /\ UNCHANGED <<tail_cache, tail_seen, writes, copies_seen,
                 consVars, headVars, tailVars, slots>>

\* Slip: a ring that wastes a slot.
PushReload_WastesSlot(t) ==
  /\ prod_pc = "reload"
  /\ AcquireTail(t)
  /\ tail_cache' = t
  /\ prod_pc' = IF head - t >= Capacity - 1 THEN "idle" ELSE "store"
  /\ UNCHANGED <<item, writes, consVars, headVars, tailVars, slots>>

\* The cached view says full: re-read tail, test again, give up with kFull.
PushReload(t) ==
  /\ prod_pc = "reload"
  /\ AcquireTail(t)
  /\ tail_cache' = t
  /\ prod_pc' = IF head - t >= Capacity THEN "idle" ELSE "store"
  /\ UNCHANGED <<item, writes, consVars, headVars, tailVars, slots>>

PushStore ==
  /\ prod_pc = "store"
  /\ slots' = [slots EXCEPT ![Slot(head)] = item]
  /\ writes' = writes + 1
  /\ prod_pc' = "publish"
  /\ UNCHANGED <<item, tail_cache, tail_seen, copies_seen, consVars, headVars, tailVars>>

\* Slip: a relaxed store of head, which releases nothing.
PushPublish_Relaxed ==
  /\ prod_pc = "publish"
  /\ head' = head + 1
  /\ head_release' = [v \in 0 .. head + 1 |-> 0]
  /\ sent' = Append(sent, item)
  /\ prod_pc' = "idle"
  /\ UNCHANGED <<item, tail_cache, tail_seen, writes, copies_seen,
                 consVars, tailVars, slots>>

PushPublish ==
  /\ prod_pc = "publish"
  /\ head' = head + 1
  /\ head_release' = [v \in 0 .. head + 1 |->
                        IF v <= head THEN head_release[v] ELSE writes]
  /\ sent' = Append(sent, item)
  /\ prod_pc' = "idle"
  /\ UNCHANGED <<item, tail_cache, tail_seen, writes, copies_seen,
                 consVars, tailVars, slots>>

\* size() or empty() between two calls of try_push.
PushSize(t) ==
  /\ prod_pc = "idle"
  /\ AcquireTail(t)
  /\ UNCHANGED <<prod_pc, item, tail_cache, writes, consVars, headVars, tailVars, slots>>

-----------------------------------------------------------------------------
(* The consumer thread: try_pop and size().                                *)

AcquireHead(h) == /\ head_seen' = h
                  /\ writes_seen' = Join(writes_seen, head_release[h])

\* Slip: reporting empty on the cached view alone.
PopCall_NoReload ==
  /\ cons_pc = "idle"
  /\ cons_pc' = IF tail = head_cache THEN "idle" ELSE "copy"
  /\ UNCHANGED <<out, head_cache, head_seen, copies, writes_seen,
                 prodVars, headVars, tailVars, slots>>

PopCall ==
  /\ cons_pc = "idle"
  /\ cons_pc' = IF tail = head_cache THEN "reload" ELSE "copy"
  /\ UNCHANGED <<out, head_cache, head_seen, copies, writes_seen,
                 prodVars, headVars, tailVars, slots>>

\* Slip: the second emptiness test forgotten.
PopReload_NoTest(h) ==
  /\ cons_pc = "reload"
  /\ AcquireHead(h)
  /\ head_cache' = h
  /\ cons_pc' = "copy"
  /\ UNCHANGED <<out, copies, prodVars, headVars, tailVars, slots>>

\* The cached view says empty: re-read head, test again, give up with false.
PopReload(h) ==
  /\ cons_pc = "reload"
  /\ AcquireHead(h)
  /\ head_cache' = h
  /\ cons_pc' = IF tail = h THEN "idle" ELSE "copy"
  /\ UNCHANGED <<out, copies, prodVars, headVars, tailVars, slots>>

\* A slot whose write does not happen-before this copy yields anything.
PopCopy ==
  /\ cons_pc = "copy"
  /\ out' \in IF tail < writes_seen THEN {slots[Slot(tail)]} ELSE Values \cup {Blank}
  /\ copies' = copies + 1
  /\ cons_pc' = "release"
  /\ UNCHANGED <<head_cache, head_seen, writes_seen, prodVars, headVars, tailVars, slots>>

PopRelease ==
  /\ cons_pc = "release"
  /\ tail' = tail + 1
  /\ tail_release' = [v \in 0 .. tail + 1 |->
                        IF v <= tail THEN tail_release[v] ELSE copies]
  /\ got' = Append(got, out)
  /\ cons_pc' = "idle"
  /\ UNCHANGED <<out, head_cache, head_seen, copies, writes_seen,
                 prodVars, headVars, slots>>

\* size() or empty() between two calls of try_pop: hot_loop samples the
\* frame ring this way, publish_loop tests the event ring.
PopSize(h) ==
  /\ cons_pc = "idle"
  /\ AcquireHead(h)
  /\ UNCHANGED <<cons_pc, out, head_cache, copies, prodVars, headVars, tailVars, slots>>

-----------------------------------------------------------------------------
Producer == \/ \E v \in Values : PushCall(v)
            \/ \E t \in TailLoads : PushReload(t) \/ PushSize(t)
            \/ PushStore
            \/ PushPublish

Consumer == \/ PopCall
            \/ \E h \in HeadLoads : PopReload(h) \/ PopSize(h)
            \/ PopCopy
            \/ PopRelease

Next == Producer \/ Consumer

Spec == Init /\ [][Next]_vars

\* hot_loop and publish_loop call try_pop for ever, and a store becomes
\* visible to other threads in finite time.  Nothing makes the producer push.
FairSpec ==
  /\ Spec
  /\ WF_vars(PopCall) /\ WF_vars(PopCopy) /\ WF_vars(PopRelease)
  /\ WF_vars(\E h \in HeadLoads : PopReload(h))
  /\ SF_vars(PopReload(head))

-----------------------------------------------------------------------------
(* Properties.                                                             *)

\* Types.  A data race would let the consumer hand over the initial content
\* of a slot, which got excludes.
TypeOK ==
  /\ head \in Nat /\ tail \in Nat
  /\ slots \in [SlotIndex -> Values \cup {Blank}]
  /\ head_release \in [0 .. head -> Nat] /\ tail_release \in [0 .. tail -> Nat]
  /\ prod_pc \in {"idle", "reload", "store", "publish"}
  /\ cons_pc \in {"idle", "reload", "copy", "release"}
  /\ item \in Values \cup {Blank} /\ out \in Values \cup {Blank}
  /\ tail_cache \in Nat /\ tail_seen \in Nat /\ writes \in Nat /\ copies_seen \in Nat
  /\ head_cache \in Nat /\ head_seen \in Nat /\ copies \in Nat /\ writes_seen \in Nat
  /\ sent \in Seq(Values) /\ got \in Seq(Values)

\* How far each side's view of the other lags behind, and how far ahead of the
\* consumer the producer can run.
IndexOrder ==
  /\ tail_cache <= tail_seen /\ tail_seen <= tail /\ tail <= head_cache
  /\ head_cache <= head_seen /\ head_seen <= head /\ head <= tail_cache + Capacity
  /\ prod_pc \in {"store", "publish"} => head < tail_cache + Capacity
  /\ cons_pc \in {"copy", "release"} => tail < head_cache

\* An index store releases exactly the slot accesses before it, so a side knows
\* of as many accesses of the other as the newest index it has loaded.
Synchronised ==
  /\ writes = IF prod_pc = "publish" THEN head + 1 ELSE head
  /\ copies = IF cons_pc = "release" THEN tail + 1 ELSE tail
  /\ \A v \in 0 .. head : head_release[v] = v
  /\ \A v \in 0 .. tail : tail_release[v] = v
  /\ writes_seen = head_seen /\ copies_seen = tail_seen

\* The slots between tail and head hold the items accepted and not yet popped.
Contents ==
  /\ Len(sent) = head /\ Len(got) = tail
  /\ \A i \in 1 .. tail : got[i] = sent[i]
  /\ \A i \in tail .. head - 1 : slots[Slot(i)] = sent[i + 1]
  /\ prod_pc # "idle" => item \in Values
  /\ prod_pc = "publish" => slots[Slot(head)] = item
  /\ cons_pc = "release" => out = sent[tail + 1]

\* The inductive invariant of the proofs: the code relies on all of it.
RingInv == TypeOK /\ IndexOrder /\ Synchronised /\ Contents

\* Neither side ever touches a slot while the other side's last use of it is
\* not ordered before: the consumer copies an item only when its write
\* happens-before the copy, and the producer overwrites a slot only when the
\* copy of the item one lap earlier happens-before the write.  This is the
\* correctness argument of spsc_ring.hpp:15-18, which x86 cannot test.
NoDataRace ==
  /\ cons_pc = "copy" => tail < writes_seen
  /\ prod_pc = "store" => head < Capacity \/ head - Capacity < copies_seen

\* size() from either side, at any point, is a number
\* of items the ring can hold: whatever stale index the load returns, the
\* unsigned subtraction never wraps and never exceeds the capacity.
SizeInRange ==
  /\ \A h \in HeadLoads : tail <= h /\ h <= tail + Capacity
  /\ \A t \in TailLoads : t <= head /\ head <= t + Capacity

\* kFull is returned only for a ring the producer sees holding exactly
\* Capacity items: no slot is given up to tell full from empty.
RefusedOnlyWhenFull ==
  [][prod_pc = "reload" /\ prod_pc' = "idle" => head = tail_cache' + Capacity]_vars

\* The ring implements the bounded FIFO: what try_pop returns is what
\* try_push accepted, in order, once each, and never more than Capacity items
\* are in flight.
Fifo == INSTANCE BoundedFifo
          WITH queue <- SubSeq(sent, tail + 1, head), taken <- got

FifoSpec == Fifo!Spec

\* Every accepted item is eventually popped, however stale single loads are.
FifoFairSpec == Fifo!FairSpec
=============================================================================
