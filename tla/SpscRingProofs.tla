--------------------------- MODULE SpscRingProofs ---------------------------
(***************************************************************************)
(* Proofs about SpscRing for every capacity, item set and bound: RingInv   *)
(* is inductive, and it implies the absence of data races, the bounds of   *)
(* size(), the exactness of kFull and the refinement of the bounded FIFO.  *)
(***************************************************************************)
EXTENDS SpscRing, Integers, SequenceTheorems, TLAPS

\* A sequence number's slot is a slot of the ring (head & kMask).
LEMMA SlotInRange ==
  \A i \in Nat : Slot(i) \in SlotIndex
BY RingAssumption, SMT DEF Slot, SlotIndex

\* Two sequence numbers less than a lap apart use different slots.
LEMMA SlotsDistinct ==
  ASSUME NEW i \in Nat, NEW j \in Nat, i < j, j < i + Capacity
  PROVE  Slot(i) # Slot(j)
<1> DEFINE qi == i \div Capacity
           qj == j \div Capacity
<1>1. Capacity \in Nat /\ Capacity > 0
  BY RingAssumption
<1>2. /\ qi \in Int /\ qj \in Int
      /\ i = Capacity * qi + Slot(i)
      /\ j = Capacity * qj + Slot(j)
      /\ Slot(i) \in Int /\ Slot(j) \in Int
  BY <1>1, SMT DEF Slot
<1> HIDE DEF qi, qj
<1>3. SUFFICES ASSUME Slot(i) = Slot(j)
               PROVE  FALSE
  OBVIOUS
<1>4. j - i = Capacity * (qj - qi)
  BY <1>1, <1>2, <1>3, SMT
<1>5. CASE qj - qi <= 0
  <2>1. Capacity * (qj - qi) <= 0
    BY <1>1, <1>2, <1>5, SMT
  <2> QED
    BY <1>4, <2>1, SMT
<1>6. CASE qj - qi >= 1
  <2>1. Capacity * (qj - qi) >= Capacity
    BY <1>1, <1>2, <1>6, SMT
  <2> QED
    BY <1>1, <1>4, <2>1, SMT
<1> QED
  BY <1>2, <1>5, <1>6, SMT

\* RingInv holds of the empty ring.
LEMMA InitRingInv == Init => RingInv
<1> SUFFICES ASSUME Init PROVE RingInv
  OBVIOUS
<1> USE RingAssumption DEF Init
<1>1. TypeOK
  BY DEF TypeOK, SlotIndex
<1>2. IndexOrder
  BY DEF IndexOrder
<1>3. Synchronised
  BY DEF Synchronised
<1>4. Contents
  BY DEF Contents
<1> QED
  BY <1>1, <1>2, <1>3, <1>4 DEF RingInv

\* try_push, first fullness test.
LEMMA PushCallStep ==
  ASSUME RingInv, NEW v \in Values, PushCall(v)
  PROVE  RingInv'
<1> USE RingAssumption DEF PushCall, RingInv, consVars, headVars, tailVars
<1>1. TypeOK'
  BY DEF TypeOK
<1>2. IndexOrder'
  BY DEF TypeOK, IndexOrder
<1>3. Synchronised'
  BY DEF TypeOK, Synchronised
<1>4. Contents'
  BY DEF TypeOK, Contents, Slot
<1> QED
  BY <1>1, <1>2, <1>3, <1>4

\* try_push, re-read of tail.
LEMMA PushReloadStep ==
  ASSUME RingInv, NEW t \in TailLoads, PushReload(t)
  PROVE  RingInv'
<1> USE RingAssumption DEF PushReload, AcquireTail, RingInv, consVars, headVars, tailVars
<1>0. /\ t \in Nat /\ tail_seen <= t /\ t <= tail
      /\ tail_release[t] = t
      /\ copies_seen' = t
  BY DEF TypeOK, TailLoads, Synchronised, Join
<1>1. TypeOK'
  BY <1>0 DEF TypeOK
<1>2. IndexOrder'
  BY <1>0 DEF TypeOK, IndexOrder
<1>3. Synchronised'
  BY <1>0 DEF TypeOK, Synchronised
<1>4. Contents'
  BY <1>0 DEF TypeOK, Contents, Slot
<1> QED
  BY <1>1, <1>2, <1>3, <1>4

\* The producer's slot write leaves every queued item alone.
LEMMA PushStoreStep ==
  ASSUME RingInv, PushStore
  PROVE  RingInv'
<1> USE RingAssumption DEF PushStore, RingInv, consVars, headVars, tailVars
<1>0. /\ head \in Nat /\ tail \in Nat
      /\ head < tail + Capacity
      /\ item \in Values
      /\ Slot(head) \in SlotIndex
  BY SlotInRange DEF TypeOK, IndexOrder, Contents
<1>1. TypeOK'
  BY <1>0 DEF TypeOK
<1>2. IndexOrder'
  BY DEF TypeOK, IndexOrder
<1>3. Synchronised'
  BY DEF TypeOK, Synchronised
<1>4. Contents'
  <2>1. slots'[Slot(head)] = item
    BY <1>0 DEF TypeOK
  <2>2. ASSUME NEW i \in tail .. head - 1
        PROVE  slots'[Slot(i)] = sent[i + 1]
    <3>1. i \in Nat /\ i < head /\ head < i + Capacity
      BY <1>0
    <3>2. Slot(i) # Slot(head) /\ Slot(i) \in SlotIndex
      BY <1>0, <3>1, SlotsDistinct, SlotInRange
    <3>3. slots[Slot(i)] = sent[i + 1]
      BY DEF Contents
    <3> QED
      BY <3>2, <3>3 DEF TypeOK
  <2> QED
    BY <1>0, <2>1, <2>2 DEF Contents, Slot
<1> QED
  BY <1>1, <1>2, <1>3, <1>4

\* The release store of head.
LEMMA PushPublishStep ==
  ASSUME RingInv, PushPublish
  PROVE  RingInv'
<1> USE RingAssumption DEF PushPublish, RingInv, consVars, tailVars
<1>0. /\ head \in Nat /\ tail \in Nat /\ tail <= head
      /\ head' = head + 1
      /\ writes = head + 1
      /\ sent \in Seq(Values) /\ Len(sent) = head
      /\ item \in Values
  BY DEF TypeOK, IndexOrder, Synchronised, Contents
<1>a. /\ Len(sent') = head + 1
      /\ sent' \in Seq(Values)
      /\ \A i \in 1 .. head : sent'[i] = sent[i]
      /\ sent'[head + 1] = item
  BY <1>0
<1>1. TypeOK'
  <2>1. head_release' \in [0 .. head' -> Nat]
    BY <1>0 DEF TypeOK
  <2> QED
    BY <1>0, <1>a, <2>1 DEF TypeOK
<1>2. IndexOrder'
  BY DEF TypeOK, IndexOrder
<1>3. Synchronised'
  <2>1. \A v \in 0 .. head' : head_release'[v] = v
    BY <1>0 DEF TypeOK, Synchronised
  <2> QED
    BY <1>0, <2>1 DEF TypeOK, Synchronised
<1>4. Contents'
  <2>1. \A i \in 1 .. tail : got'[i] = sent'[i]
    BY <1>0, <1>a DEF Contents
  <2>2. ASSUME NEW i \in tail .. head
        PROVE  slots'[Slot(i)] = sent'[i + 1]
    <3>1. CASE i = head
      BY <1>0, <1>a, <3>1 DEF Contents
    <3>2. CASE i # head
      BY <1>0, <1>a, <3>2 DEF Contents
    <3> QED
      BY <3>1, <3>2
  <2>3. cons_pc = "release" => out = sent'[tail + 1]
    BY <1>0, <1>a DEF Contents, IndexOrder, TypeOK
  <2>4. \A i \in tail' .. head' - 1 : slots'[Slot(i)] = sent'[i + 1]
    <3>1. tail' .. head' - 1 = tail .. head
      BY <1>0
    <3> QED
      BY <2>2, <3>1
  <2>5. Len(sent') = head' /\ Len(got') = tail'
    BY <1>0, <1>a DEF Contents
  <2> QED
    BY <1>0, <1>a, <2>1, <2>3, <2>4, <2>5 DEF Contents, Slot
<1> QED
  BY <1>1, <1>2, <1>3, <1>4

\* size() in the producer.
LEMMA PushSizeStep ==
  ASSUME RingInv, NEW t \in TailLoads, PushSize(t)
  PROVE  RingInv'
<1> USE RingAssumption DEF PushSize, AcquireTail, RingInv, consVars, headVars, tailVars
<1>0. /\ t \in Nat /\ tail_seen <= t /\ t <= tail
      /\ tail_release[t] = t
      /\ copies_seen' = t
  BY DEF TypeOK, TailLoads, Synchronised, Join
<1>1. TypeOK'
  BY <1>0 DEF TypeOK
<1>2. IndexOrder'
  BY <1>0 DEF TypeOK, IndexOrder
<1>3. Synchronised'
  BY <1>0 DEF TypeOK, Synchronised
<1>4. Contents'
  BY <1>0 DEF TypeOK, Contents, Slot
<1> QED
  BY <1>1, <1>2, <1>3, <1>4

\* try_pop, first emptiness test.
LEMMA PopCallStep ==
  ASSUME RingInv, PopCall
  PROVE  RingInv'
<1> USE RingAssumption DEF PopCall, RingInv, prodVars, headVars, tailVars
<1>1. TypeOK'
  BY DEF TypeOK
<1>2. IndexOrder'
  BY DEF TypeOK, IndexOrder
<1>3. Synchronised'
  BY DEF TypeOK, Synchronised
<1>4. Contents'
  BY DEF TypeOK, Contents, Slot
<1> QED
  BY <1>1, <1>2, <1>3, <1>4

\* try_pop, re-read of head.
LEMMA PopReloadStep ==
  ASSUME RingInv, NEW h \in HeadLoads, PopReload(h)
  PROVE  RingInv'
<1> USE RingAssumption DEF PopReload, AcquireHead, RingInv, prodVars, headVars, tailVars
<1>0. /\ h \in Nat /\ head_seen <= h /\ h <= head
      /\ head_release[h] = h
      /\ writes_seen' = h
  BY DEF TypeOK, HeadLoads, Synchronised, Join
<1>1. TypeOK'
  BY <1>0 DEF TypeOK
<1>2. IndexOrder'
  BY <1>0 DEF TypeOK, IndexOrder
<1>3. Synchronised'
  BY <1>0 DEF TypeOK, Synchronised
<1>4. Contents'
  BY <1>0 DEF TypeOK, Contents, Slot
<1> QED
  BY <1>1, <1>2, <1>3, <1>4

\* The copy out of the slot is the item accepted at that sequence number.
LEMMA PopCopyStep ==
  ASSUME RingInv, PopCopy
  PROVE  RingInv'
<1> USE RingAssumption DEF PopCopy, RingInv, prodVars, headVars, tailVars
<1>0. /\ head \in Nat /\ tail \in Nat /\ tail < head /\ tail < writes_seen
      /\ sent \in Seq(Values) /\ Len(sent) = head
      /\ sent[tail + 1] \in Values
      /\ out' = sent[tail + 1]
  BY DEF TypeOK, IndexOrder, Synchronised, Contents
<1>1. TypeOK'
  BY <1>0 DEF TypeOK
<1>2. IndexOrder'
  BY DEF TypeOK, IndexOrder
<1>3. Synchronised'
  BY <1>0 DEF TypeOK, Synchronised
<1>4. Contents'
  BY <1>0 DEF TypeOK, Contents, Slot
<1> QED
  BY <1>1, <1>2, <1>3, <1>4

\* The release store of tail.
LEMMA PopReleaseStep ==
  ASSUME RingInv, PopRelease
  PROVE  RingInv'
<1> USE RingAssumption DEF PopRelease, RingInv, prodVars, headVars
<1>0. /\ head \in Nat /\ tail \in Nat /\ tail < head
      /\ tail' = tail + 1
      /\ copies = tail + 1
      /\ got \in Seq(Values) /\ Len(got) = tail
      /\ sent \in Seq(Values) /\ Len(sent) = head
      /\ out = sent[tail + 1]
      /\ out \in Values
  BY DEF TypeOK, IndexOrder, Synchronised, Contents
<1>a. /\ Len(got') = tail + 1
      /\ got' \in Seq(Values)
      /\ \A i \in 1 .. tail : got'[i] = got[i]
      /\ got'[tail + 1] = out
  BY <1>0
<1>1. TypeOK'
  <2>1. tail_release' \in [0 .. tail' -> Nat]
    BY <1>0 DEF TypeOK
  <2> QED
    BY <1>0, <1>a, <2>1 DEF TypeOK
<1>2. IndexOrder'
  BY <1>0 DEF TypeOK, IndexOrder
<1>3. Synchronised'
  <2>1. \A v \in 0 .. tail' : tail_release'[v] = v
    BY <1>0 DEF TypeOK, Synchronised
  <2> QED
    BY <1>0, <2>1 DEF TypeOK, Synchronised
<1>4. Contents'
  <2>1. \A i \in 1 .. tail' : got'[i] = sent'[i]
    BY <1>0, <1>a DEF Contents
  <2>2. \A i \in tail' .. head' - 1 : slots'[Slot(i)] = sent'[i + 1]
    BY <1>0 DEF Contents
  <2> QED
    BY <1>0, <1>a, <2>1, <2>2 DEF Contents, Slot
<1> QED
  BY <1>1, <1>2, <1>3, <1>4

\* size() in the consumer.
LEMMA PopSizeStep ==
  ASSUME RingInv, NEW h \in HeadLoads, PopSize(h)
  PROVE  RingInv'
<1> USE RingAssumption DEF PopSize, AcquireHead, RingInv, prodVars, headVars, tailVars
<1>0. /\ h \in Nat /\ head_seen <= h /\ h <= head
      /\ head_release[h] = h
      /\ writes_seen' = h
  BY DEF TypeOK, HeadLoads, Synchronised, Join
<1>1. TypeOK'
  BY <1>0 DEF TypeOK
<1>2. IndexOrder'
  BY <1>0 DEF TypeOK, IndexOrder
<1>3. Synchronised'
  BY <1>0 DEF TypeOK, Synchronised
<1>4. Contents'
  BY <1>0 DEF TypeOK, Contents, Slot
<1> QED
  BY <1>1, <1>2, <1>3, <1>4

\* Every step of either thread preserves RingInv.
LEMMA NextRingInv == RingInv /\ [Next]_vars => RingInv'
<1> SUFFICES ASSUME RingInv, [Next]_vars PROVE RingInv'
  OBVIOUS
<1>1. CASE Producer
  BY <1>1, PushCallStep, PushReloadStep, PushSizeStep, PushStoreStep, PushPublishStep
     DEF Producer
<1>2. CASE Consumer
  BY <1>2, PopCallStep, PopReloadStep, PopSizeStep, PopCopyStep, PopReleaseStep
     DEF Consumer
<1>3. CASE UNCHANGED vars
  BY <1>3 DEF RingInv, TypeOK, IndexOrder, Synchronised, Contents, Slot,
              vars, prodVars, consVars, headVars, tailVars
<1> QED
  BY <1>1, <1>2, <1>3 DEF Next

\* The inductive invariant of the ring, for every capacity: the lags of the
\* cached indices, the synchronisation the index stores carry, and the content
\* of the slots between tail and head.
THEOREM RingInvariant == Spec => []RingInv
  BY InitRingInv, NextRingInv, PTL DEF Spec

\* spsc_ring.hpp:15-18: every slot access is ordered after the other side's
\* previous use of the slot.
THEOREM NoRace == Spec => []NoDataRace
<1>1. RingInv => NoDataRace
  BY RingAssumption DEF RingInv, TypeOK, IndexOrder, Synchronised, NoDataRace
<1> QED
  BY <1>1, RingInvariant, PTL

\* size() never wraps and never exceeds the capacity, in either thread.
THEOREM SizeBounded == Spec => []SizeInRange
<1>1. RingInv => SizeInRange
  BY RingAssumption DEF RingInv, TypeOK, IndexOrder, SizeInRange, HeadLoads, TailLoads
<1> QED
  BY <1>1, RingInvariant, PTL

\* kFull is returned only when the freshly loaded tail is Capacity behind.
THEOREM RefusalExact == Spec => RefusedOnlyWhenFull
<1>1. RingInv /\ [Next]_vars
        => [prod_pc = "reload" /\ prod_pc' = "idle" => head = tail_cache' + Capacity]_vars
  <2> SUFFICES ASSUME RingInv, Next, prod_pc = "reload", prod_pc' = "idle"
               PROVE  head = tail_cache' + Capacity
    BY DEF vars, prodVars
  <2>1. PICK t \in TailLoads : PushReload(t)
    BY DEF Next, Producer, Consumer, PushCall, PushSize, PushStore, PushPublish,
           PopCall, PopReload, PopSize, PopCopy, PopRelease, prodVars
  <2>2. t \in Nat /\ tail_seen <= t
    BY DEF RingInv, TypeOK, TailLoads
  <2> QED
    BY <2>1, <2>2, RingAssumption DEF PushReload, RingInv, TypeOK, IndexOrder
<1> QED
  BY <1>1, RingInvariant, PTL DEF Spec, RefusedOnlyWhenFull

-----------------------------------------------------------------------------
(* The refinement of BoundedFifo.                                          *)

\* Appending to a sequence appends to each of its suffixes.
LEMMA SuffixAppend ==
  ASSUME NEW S, NEW s \in Seq(S), NEW v \in S, NEW m \in 0 .. Len(s)
  PROVE  SubSeq(Append(s, v), m + 1, Len(s) + 1)
           = Append(SubSeq(s, m + 1, Len(s)), v)
<1> DEFINE t == Append(s, v)
           suffix == SubSeq(s, m + 1, Len(s))
           longer == SubSeq(t, m + 1, Len(s) + 1)
<1>1. /\ Len(s) \in Nat /\ m \in Nat /\ m <= Len(s)
      /\ \A i \in 1 .. Len(s) : s[i] \in S
      /\ Len(t) = Len(s) + 1 /\ t[Len(s) + 1] = v
      /\ \A i \in 1 .. Len(s) : t[i] = s[i]
  BY AppendProperties
<1> HIDE DEF t
<1>2. /\ suffix \in Seq(S) /\ Len(suffix) = Len(s) - m
      /\ \A i \in 1 .. Len(s) - m : suffix[i] = s[m + i]
  BY <1>1, SubSeqProperties
<1>3. /\ longer \in Seq(S) /\ Len(longer) = Len(s) - m + 1
      /\ \A i \in 1 .. Len(s) - m + 1 : longer[i] = t[m + i]
  BY <1>1, SubSeqProperties
<1> HIDE DEF suffix, longer
<1>4. /\ Append(suffix, v) \in Seq(S) /\ Len(Append(suffix, v)) = Len(s) - m + 1
      /\ \A i \in 1 .. Len(s) - m : Append(suffix, v)[i] = s[m + i]
      /\ Append(suffix, v)[Len(s) - m + 1] = v
  BY <1>2, AppendProperties
<1>5. \A i \in 1 .. Len(s) - m + 1 : longer[i] = Append(suffix, v)[i]
  <2> SUFFICES ASSUME NEW i \in 1 .. Len(s) - m + 1
               PROVE  longer[i] = Append(suffix, v)[i]
    OBVIOUS
  <2>1. longer[i] = t[m + i]
    BY <1>3
  <2>2. CASE i = Len(s) - m + 1
    BY <1>1, <1>4, <2>1, <2>2
  <2>3. CASE i # Len(s) - m + 1
    <3>1. i \in 1 .. Len(s) - m /\ m + i \in 1 .. Len(s)
      BY <1>1, <2>3
    <3> QED
      BY <1>1, <1>4, <2>1, <3>1
  <2> QED
    BY <2>2, <2>3
<1>6. longer = Append(suffix, v)
  BY <1>1, <1>3, <1>4, <1>5, SeqEqual
<1> QED
  BY <1>6 DEF t, suffix, longer

\* Dropping one more item from the front of a suffix.
LEMMA SuffixTail ==
  ASSUME NEW S, NEW s \in Seq(S), NEW m \in 0 .. Len(s) - 1
  PROVE  /\ SubSeq(s, m + 1, Len(s)) # <<>>
         /\ Head(SubSeq(s, m + 1, Len(s))) = s[m + 1]
         /\ Tail(SubSeq(s, m + 1, Len(s))) = SubSeq(s, m + 2, Len(s))
<1>1. Len(s) \in Nat /\ m + 1 \in 1 .. Len(s) /\ Len(s) \in m + 1 .. Len(s)
  OBVIOUS
<1>2. Len(SubSeq(s, m + 1, Len(s))) = Len(s) - m
  BY <1>1
<1> QED
  BY <1>1, <1>2, HeadTailOfSubSeq

\* The empty ring is the empty queue.
LEMMA InitRefines == Init => Fifo!Init
  BY DEF Init, Fifo!Init

\* Publishing head is the put, and it finds room.
LEMMA PublishRefines ==
  ASSUME RingInv, PushPublish
  PROVE  Fifo!Put(item)
<1>1. /\ sent \in Seq(Values) /\ Len(sent) = head /\ head \in Nat
      /\ tail \in 0 .. head /\ item \in Values
      /\ head < tail + Capacity
      /\ head' = head + 1 /\ sent' = Append(sent, item)
      /\ tail' = tail /\ got' = got
  BY RingAssumption DEF RingInv, TypeOK, IndexOrder, Contents, PushPublish, tailVars
<1>2. Len(SubSeq(sent, tail + 1, head)) < Capacity
  BY <1>1, RingAssumption
<1>3. SubSeq(sent, tail + 1, head)' = Append(SubSeq(sent, tail + 1, head), item)
  BY <1>1, SuffixAppend
<1> QED
  BY <1>1, <1>2, <1>3 DEF Fifo!Put

\* Releasing tail is the take of the oldest item.
LEMMA ReleaseRefines ==
  ASSUME RingInv, PopRelease
  PROVE  Fifo!Take
<1>1. /\ sent \in Seq(Values) /\ Len(sent) = head /\ head \in Nat
      /\ tail \in 0 .. head - 1 /\ tail' = tail + 1
      /\ out = sent[tail + 1] /\ got' = Append(got, out)
      /\ head' = head /\ sent' = sent
  BY RingAssumption DEF RingInv, TypeOK, IndexOrder, Contents, PopRelease, headVars
<1>2. /\ SubSeq(sent, tail + 1, head) # <<>>
      /\ Head(SubSeq(sent, tail + 1, head)) = out
      /\ Tail(SubSeq(sent, tail + 1, head)) = SubSeq(sent, tail + 1, head)'
  BY <1>1, SuffixTail, SMTT(30)
<1> QED
  BY <1>1, <1>2 DEF Fifo!Take

\* No other step of the ring is visible in the queue.
LEMMA OthersStutter ==
  ASSUME [Next]_vars, ~ PushPublish, ~ PopRelease
  PROVE  UNCHANGED Fifo!fifoVars
<1>1. UNCHANGED <<head, tail, sent, got>>
  BY DEF Next, Producer, Consumer, PushCall, PushReload, PushSize, PushStore,
         PopCall, PopReload, PopSize, PopCopy, headVars, tailVars, vars
<1> QED
  BY <1>1 DEF Fifo!fifoVars

\* The ring, stale loads and all, implements a first-in first-out queue of at
\* most Capacity items: try_pop returns what try_push accepted, in order.
THEOREM RingImplementsFifo == Spec => FifoSpec
<1>1. RingInv /\ [Next]_vars => [Fifo!Next]_(Fifo!fifoVars)
  <2> SUFFICES ASSUME RingInv, [Next]_vars PROVE [Fifo!Next]_(Fifo!fifoVars)
    OBVIOUS
  <2>1. CASE PushPublish
    <3>1. item \in Values
      BY <2>1 DEF RingInv, Contents, PushPublish
    <3> QED
      BY <2>1, <3>1, PublishRefines DEF Fifo!Next
  <2>2. CASE PopRelease
    BY <2>2, ReleaseRefines DEF Fifo!Next
  <2>3. CASE ~ PushPublish /\ ~ PopRelease
    BY <2>3, OthersStutter
  <2> QED
    BY <2>1, <2>2, <2>3
<1> QED
  BY <1>1, InitRefines, RingInvariant, PTL DEF Spec, FifoSpec, Fifo!Spec
=============================================================================
