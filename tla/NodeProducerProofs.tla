------------------------- MODULE NodeProducerProofs -------------------------
(***************************************************************************)
(* Proofs about NodeProducer for any number of calls, ticks and cells and  *)
(* any room in the kernel: what reaches the socket stays framed, nothing   *)
(* is lost before the exit or the end of the reader, and it is what was    *)
(* written until a write is first queued.                                  *)
(***************************************************************************)
EXTENDS NodeProducer, Integers, SequenceTheorems, TLAPS

\* While there is a tick there is a number for it.
TickInRange == pc = "tick" => seq < totalFrames

\* Only the first of the queued writes is begun, and one is queued only once the
\* kernel had no room.
OneBegun == /\ \A i \in 2 .. Len(pending) : pending[i] = 0
            /\ pending # <<>> => blocked

\* The inductive invariant: the length of the stream tells where in a frame it ends,
\* which is where the first queued write goes on.
ProducerInv == StreamInv /\ IntactUntilBlocked /\ TickInRange /\ OneBegun

-----------------------------------------------------------------------------
(* Arithmetic.                                                             *)

\* Quotient and remainder are what they were built from.
LEMMA Division ==
  ASSUME NEW c \in Nat, c >= 1, NEW q \in Nat, NEW r \in 0 .. c - 1
  PROVE  (c * q + r) \div c = q /\ (c * q + r) % c = r
<1> DEFINE a == c * q + r
           q2 == a \div c
           r2 == a % c
<1>1. a \in Nat
  OBVIOUS
<1>2. q2 \in Int /\ r2 \in 0 .. c - 1 /\ a = c * q2 + r2
  BY <1>1, SMT
<1>3. c * q + r = c * q2 + r2
  BY <1>2
<1> HIDE DEF a, q2, r2
<1>4. c * (q - q2) = r2 - r
  BY <1>2, <1>3, SMT
<1>5. CASE q - q2 >= 1
  <2>1. c * (q - q2) >= c
    BY <1>2, <1>5, SMT
  <2> QED
    BY <1>2, <1>4, <2>1, SMT
<1>6. CASE q - q2 <= -1
  <2>1. c * (q - q2) <= -c
    BY <1>2, <1>6, SMT
  <2> QED
    BY <1>2, <1>4, <2>1, SMT
<1>7. CASE q - q2 = 0
  <2>1. q = q2
    BY <1>2, <1>7
  <2>2. r = r2
    BY <1>2, <1>3, <2>1
  <2> QED
    BY <2>1, <2>2 DEF a, q2, r2
<1> QED
  BY <1>2, <1>5, <1>6, <1>7

\* What follows whole frames and r cells of the next one goes on at cell r + 1.
LEMMA CellAfter ==
  ASSUME NEW n \in Nat, NEW r \in 0 .. Cells - 1, NEW l \in Nat, l = Cells * n + r,
         NEW j \in 1 .. Cells - r
  PROVE  ((l + j - 1) \div Cells = n) /\ (((l + j - 1) % Cells) + 1 = r + j)
<1>1. r + j - 1 \in 0 .. Cells - 1 /\ l + j - 1 = Cells * n + (r + j - 1)
  BY NodeAssumption
<1>2. Cells \in Nat /\ Cells >= 1
  BY NodeAssumption
<1>3. (l + j - 1) \div Cells = n /\ (l + j - 1) % Cells = r + j - 1
  BY <1>1, <1>2, Division
<1> QED
  BY <1>2, <1>3
\* A negative number of frames is at most one frame less than none.
LEMMA NegativeProduct ==
  ASSUME NEW c \in Nat, NEW n \in Int, n < 0
  PROVE  c * n <= - c
  BY SMT

-----------------------------------------------------------------------------
(* The stream.                                                             *)

\* The cells sent at once or later are cells.
LEMMA CellsOfType ==
  ASSUME NEW content \in Frames, NEW first \in 1 .. Cells, NEW last \in first - 1 .. Cells
  PROVE  /\ CellsOf(content, first, last) \in Seq(CellSet)
         /\ Len(CellsOf(content, first, last)) = last + 1 - first
         /\ \A i \in 1 .. last + 1 - first :
              CellsOf(content, first, last)[i] = [frame |-> content, k |-> first - 1 + i]
<1>1. last + 1 - first \in Nat
  BY NodeAssumption
<1>2. \A i \in 1 .. last + 1 - first : [frame |-> content, k |-> first - 1 + i] \in CellSet
  BY NodeAssumption DEF CellSet
<1> QED
  BY <1>1, <1>2 DEF CellsOf

\* What the kernel takes is at the end of the stream.
LEMMA StreamGrows ==
  ASSUME kernel \in Seq(CellSet), received \in Seq(CellSet), NEW c \in Seq(CellSet),
         kernel' = kernel \o c, received' = received
  PROVE  /\ kernel' \in Seq(CellSet) /\ Len(kernel') = Len(kernel) + Len(c)
         /\ Stream \in Seq(CellSet) /\ Stream' \in Seq(CellSet)
         /\ Len(Stream') = Len(Stream) + Len(c)
         /\ \A i \in 1 .. Len(Stream) : Stream'[i] = Stream[i]
         /\ \A i \in 1 .. Len(c) : Stream'[Len(Stream) + i] = c[i]
<1>1. Stream \in Seq(CellSet)
  BY ConcatProperties DEF Stream
<1>2. kernel \o c \in Seq(CellSet) /\ Len(kernel \o c) = Len(kernel) + Len(c)
  BY ConcatProperties
<1>3. Stream' = Stream \o c
  BY ConcatAssociative DEF Stream
<1>4. /\ Stream \o c \in Seq(CellSet) /\ Len(Stream \o c) = Len(Stream) + Len(c)
      /\ \A i \in 1 .. Len(Stream) + Len(c) :
           (Stream \o c)[i] = IF i <= Len(Stream) THEN Stream[i] ELSE c[i - Len(Stream)]
      /\ Len(Stream) \in Nat /\ Len(c) \in Nat
  BY <1>1, ConcatProperties, LenProperties
<1> HIDE DEF Stream
<1>5. /\ \A i \in 1 .. Len(Stream) : Stream'[i] = Stream[i]
      /\ \A i \in 1 .. Len(c) : Stream'[Len(Stream) + i] = c[i]
  BY <1>3, <1>4
<1> QED
  BY <1>1, <1>2, <1>3, <1>4, <1>5

\* Reading leaves the stream as it is.
LEMMA StreamRead ==
  ASSUME kernel \in Seq(CellSet), received \in Seq(CellSet), NEW n \in 1 .. Len(kernel),
         received' = received \o SubSeq(kernel, 1, n),
         kernel' = SubSeq(kernel, n + 1, Len(kernel))
  PROVE  /\ kernel' \in Seq(CellSet) /\ received' \in Seq(CellSet)
         /\ Len(kernel') = Len(kernel) - n
         /\ Stream' = Stream
<1> DEFINE first == SubSeq(kernel, 1, n)
           rest == SubSeq(kernel, n + 1, Len(kernel))
<1>0. Len(kernel) \in Nat /\ n \in 1 .. Len(kernel) /\ \A i \in 1 .. Len(kernel) : kernel[i] \in CellSet
  BY LenProperties
<1>1. first \in Seq(CellSet)
  BY <1>0, SubSeqProperties
<1>2. rest \in Seq(CellSet) /\ Len(rest) = Len(kernel) - n
  BY <1>0, SubSeqProperties
<1>3. first \o rest = SubSeq(kernel, 1, Len(kernel))
  BY <1>0, ConcatAdjacentSubSeq
<1>4. first \o rest = kernel
  BY <1>3, SubSeqFull
<1> HIDE DEF first, rest
<1>5. (received \o first) \o rest = received \o (first \o rest)
  BY <1>1, <1>2, SMTT(30), ConcatAssociative
<1>6. received \o first \in Seq(CellSet)
  BY <1>1, ConcatProperties
<1> QED
  BY <1>2, <1>4, <1>5, <1>6 DEF Stream, first, rest

\* The cells that continue the frame begun keep the framing.
LEMMA FramingGrows ==
  ASSUME FramingKept, NEW c \in Seq(CellSet), NEW n \in Nat, NEW r \in 0 .. Cells - 1,
         Len(Stream) = Cells * n + r, Len(Stream) \in Nat, Len(c) <= Cells - r,
         \A i \in 1 .. Len(c) : c[i].k = r + i,
         Len(Stream') = Len(Stream) + Len(c),
         \A i \in 1 .. Len(Stream) : Stream'[i] = Stream[i],
         \A i \in 1 .. Len(c) : Stream'[Len(Stream) + i] = c[i]
  PROVE  FramingKept'
<1> SUFFICES ASSUME NEW i \in 1 .. Len(Stream) + Len(c)
             PROVE  Stream'[i].k = ((i - 1) % Cells) + 1
  BY DEF FramingKept
<1>1. CASE i \in 1 .. Len(Stream)
  BY <1>1 DEF FramingKept
<1>2. CASE i \notin 1 .. Len(Stream)
  <2> DEFINE j == i - Len(Stream)
  <2>0. Len(c) \in Nat /\ Cells \in Nat
    BY LenProperties, NodeAssumption
  <2>1. j \in 1 .. Len(c) /\ j \in 1 .. Cells - r /\ i = Len(Stream) + j
    BY <1>2, <2>0, SMT
  <2>2. Stream'[i].k = r + j
    BY <2>1
  <2>3. ((i - 1) % Cells) + 1 = r + j
    BY <2>1, CellAfter
  <2> QED
    BY <2>2, <2>3
<1> QED
  BY <1>1, <1>2
-----------------------------------------------------------------------------
(* The steps.                                                              *)

\* The cell of a frame that the stream ends before.
Begun == IF pending = <<>> THEN 0 ELSE Head(pending)

\* The numbers that the invariant speaks of are numbers.
LEMMA Numbers ==
  ASSUME ProducerInv
  PROVE  /\ sessions \in Nat /\ sessions >= 1 /\ totalFrames \in Nat
         /\ Cells \in Nat /\ Cells >= 1 /\ Room \in Nat /\ Room >= 1
         /\ kernel \in Seq(CellSet) /\ received \in Seq(CellSet) /\ Stream \in Seq(CellSet)
         /\ Len(kernel) \in 0 .. Room /\ Len(Stream) \in Nat
         /\ seq \in 0 .. totalFrames /\ sessionId \in 0 .. sessions /\ Written \in Nat
         /\ pending \in Seq(0 .. Cells - 1) /\ Len(pending) \in Nat
         /\ Begun \in 0 .. Cells - 1
         /\ Free \in 0 .. Room
         /\ wire \in Frames
<1>1. /\ kernel \in Seq(CellSet) /\ received \in Seq(CellSet) /\ Len(kernel) <= Room
      /\ seq \in 0 .. totalFrames /\ sessionId \in 0 .. sessions
      /\ pending \in Seq(0 .. Cells - 1) /\ wire \in Frames
  BY DEF ProducerInv, StreamInv, TypeOK
<1>2. /\ sessions \in Nat /\ sessions >= 1 /\ totalFrames \in Nat
      /\ Cells \in Nat /\ Cells >= 1 /\ Room \in Nat /\ Room >= 1
  BY NodeAssumption
<1>3. Stream \in Seq(CellSet)
  BY <1>1, ConcatProperties DEF Stream
<1>4. Len(kernel) \in Nat /\ Len(Stream) \in Nat /\ Len(pending) \in Nat
  BY <1>1, <1>3, LenProperties
<1>5. Begun \in 0 .. Cells - 1
  BY <1>1, <1>2 DEF Begun
<1>6. Written \in Nat
  BY <1>1, <1>2 DEF Written
<1>7. Len(kernel) \in 0 .. Room /\ Free \in 0 .. Room
  BY <1>1, <1>2, <1>4 DEF Free
<1> QED
  BY <1>1, <1>2, <1>3, <1>4, <1>5, <1>6, <1>7

\* The stream ends before that cell.
LEMMA StreamEnd ==
  ASSUME ProducerInv, pc # "exited", ~ closed
  PROVE  /\ Written - Len(pending) \in Nat
         /\ Len(Stream) = Cells * (Written - Len(pending)) + Begun
<1> DEFINE n == Written - Len(pending)
<1>1. Cells * Written = Len(Stream) + Owed
  BY DEF ProducerInv, StreamInv, NoneForgotten
<1>2. Len(Stream) = Cells * n + Begun
  <2>1. CASE pending = <<>>
    BY <1>1, <2>1, Numbers DEF Owed, Begun
  <2>2. CASE pending # <<>>
    <3>1. Cells * Written = Len(Stream) + (Cells * Len(pending) - Begun)
      BY <1>1, <2>2 DEF Owed, Begun
    <3>2. Cells * (Written - Len(pending)) = Cells * Written - Cells * Len(pending)
      BY Numbers
    <3> HIDE DEF n
    <3> QED
      BY <3>1, <3>2, Numbers, SMTT(30) DEF n
  <2> QED
    BY <2>1, <2>2
<1>3. n \in Int
  BY Numbers
<1>4. CASE n < 0
  <2> HIDE DEF n
  <2>1. Cells * n <= - Cells
    BY <1>3, <1>4, Numbers, NegativeProduct
  <2> QED
    BY <1>2, <2>1, <1>3, Numbers, SMTT(30)
<1> QED
  BY <1>2, <1>3, <1>4

\* Nothing is written at first.
LEMMA InitProducerInv == Init => ProducerInv
<1> SUFFICES ASSUME Init PROVE ProducerInv
  OBVIOUS
<1> USE NodeAssumption DEF Init
<1>0. wire \in Frames
  BY DEF Frames
<1>a. pending \in Seq(0 .. Cells - 1) /\ kernel \in Seq(CellSet) /\ received \in Seq(CellSet)
  BY EmptySeq
<1>b. Len(kernel) <= Room
  BY EmptySeq
<1>c. sessionId \in 0 .. sessions /\ seq \in 0 .. totalFrames
  OBVIOUS
<1>d. {blocked, closed} \subseteq BOOLEAN /\ pc \in {"connecting", "tick", "loop", "exited"}
  OBVIOUS
<1>1. TypeOK
  BY <1>0, <1>a, <1>b, <1>c, <1>d DEF TypeOK
<1>2. Stream = <<>>
  BY DEF Stream
<1>3. NoneForgotten /\ Cells * Written = Len(Stream)
  BY <1>2 DEF NoneForgotten, Owed, Written
<1> QED
  BY <1>1, <1>2, <1>3
     DEF ProducerInv, StreamInv, FramingKept, IntactUntilBlocked, TickInRange, OneBegun

\* Reading takes the cells in order and changes nothing else.
LEMMA ReadStep ==
  ASSUME ProducerInv, Read
  PROVE  ProducerInv'
<1>1. PICK n \in 1 .. Len(kernel) :
        /\ received' = received \o SubSeq(kernel, 1, n)
        /\ kernel' = SubSeq(kernel, n + 1, Len(kernel))
  BY DEF Read
<1>2. UNCHANGED <<wire, sessionId, seq, pending, blocked, closed, pc>>
  BY DEF Read
<1>3. /\ kernel' \in Seq(CellSet) /\ received' \in Seq(CellSet)
      /\ Len(kernel') = Len(kernel) - n /\ Stream' = Stream
  BY <1>1, StreamRead, Numbers
<1>4. TypeOK'
  BY <1>2, <1>3, Numbers DEF ProducerInv, StreamInv, TypeOK
<1> QED
  BY <1>2, <1>3, <1>4
     DEF ProducerInv, StreamInv, FramingKept, NoneForgotten, Owed, Written,
         IntactUntilBlocked, TickInRange, OneBegun

\* The timer, the end of a tick and the exit leave the stream alone.
LEMMA TickSteps ==
  ASSUME ProducerInv, Tick \/ EndTick \/ Finish \/ SocketFails
  PROVE  ProducerInv'
<1>1. UNCHANGED <<wire, kernel, received, blocked, closed>> /\ Stream' = Stream
  BY DEF Tick, EndTick, EndTickAfter, Finish, SocketFails, Exit, Stream
<1>2. Written' = Written
  <2>1. CASE Tick
    BY <2>1, Numbers DEF Tick, Written
  <2>2. CASE EndTick
    <3>1. sessionId = sessions /\ pc = "tick" /\ pc' = "loop" /\ seq' = seq + 1
      BY <2>2, Numbers DEF EndTick, EndTickAfter
    <3>2. (seq + 1) * sessions = seq * sessions + sessions
      BY Numbers
    <3> QED
      BY <3>1, <3>2 DEF Written
  <2>3. CASE Finish \/ SocketFails
    BY <2>3 DEF Finish, SocketFails, Exit, Written
  <2> QED
    BY <2>1, <2>2, <2>3
<1>3. \/ pending' = pending /\ pc # "exited"
      \/ pending' = <<>> /\ pc' = "exited"
  BY DEF Tick, EndTick, EndTickAfter, Finish, SocketFails, Exit
<1>4. pending' \in Seq(0 .. Cells - 1) /\ OneBegun'
  <2>1. CASE pending' = pending
    BY <1>1, <2>1 DEF ProducerInv, StreamInv, TypeOK, OneBegun
  <2>2. CASE pending' = <<>>
    BY <2>2, EmptySeq DEF OneBegun
  <2> QED
    BY <1>3, <2>1, <2>2
<1>5. TypeOK'
  BY <1>1, <1>4, Numbers
     DEF ProducerInv, StreamInv, TickInRange, TypeOK, Tick, EndTick, EndTickAfter, Finish,
         SocketFails, Exit
<1>6. TickInRange'
  BY DEF ProducerInv, TickInRange, Tick, EndTick, EndTickAfter, Finish, SocketFails, Exit
<1>7. NoneForgotten'
  BY <1>1, <1>2, <1>3 DEF ProducerInv, StreamInv, NoneForgotten, Owed
<1> QED
  BY <1>1, <1>2, <1>4, <1>5, <1>6, <1>7
     DEF ProducerInv, StreamInv, FramingKept, IntactUntilBlocked

\* The reader goes: what it has read is the beginning of the stream.
LEMMA HangUpStep ==
  ASSUME ProducerInv, HangUp
  PROVE  ProducerInv'
<1>1. /\ closed' = TRUE /\ kernel' = <<>>
      /\ UNCHANGED <<wire, sessionId, seq, pending, received, blocked, pc>>
  BY DEF HangUp
<1>2. /\ kernel' \in Seq(CellSet) /\ Len(kernel') <= Room
      /\ Stream' = received /\ Len(received) \in Nat
      /\ Len(received) <= Len(Stream)
      /\ \A i \in 1 .. Len(received) : Stream[i] = received[i]
  BY <1>1, EmptySeq, Numbers, ConcatProperties, ConcatEmptySeq, LenProperties DEF Stream
<1>3. TypeOK'
  BY <1>1, <1>2, Numbers DEF ProducerInv, StreamInv, TypeOK
<1>a. \A i \in 1 .. Len(Stream') : i \in 1 .. Len(Stream) /\ Stream'[i] = Stream[i]
  BY <1>2, Numbers
<1>4. FramingKept'
  BY <1>a DEF ProducerInv, StreamInv, FramingKept
<1>5. NoneForgotten'
  BY <1>1 DEF NoneForgotten
<1>6. IntactUntilBlocked'
  BY <1>1, <1>a DEF ProducerInv, IntactUntilBlocked
<1> QED
  BY <1>1, <1>3, <1>4, <1>5, <1>6 DEF ProducerInv, StreamInv, TickInRange, OneBegun

\* What a step has sent of a frame, and what the other lemmas need of it.
LEMMA SendStep ==
  ASSUME ProducerInv, pc # "exited", ~ closed,
         NEW content \in Frames, NEW last \in Begun .. Cells,
         last - Begun <= Free,
         kernel' = kernel \o CellsOf(content, Begun + 1, last), received' = received
  PROVE  /\ kernel' \in Seq(CellSet) /\ Len(kernel') <= Room
         /\ Len(Stream') = Len(Stream) + (last - Begun)
         /\ FramingKept'
         /\ \A i \in 1 .. Len(Stream) : Stream'[i] = Stream[i]
         /\ \A i \in Len(Stream) + 1 .. Len(Stream') : Stream'[i].frame = content
<1> DEFINE c == CellsOf(content, Begun + 1, last)
<1>n. /\ Begun \in 0 .. Cells - 1 /\ Cells \in Nat /\ Len(Stream) \in Nat
      /\ Room \in Nat /\ Len(kernel) \in Nat
  BY Numbers
<1>0. /\ Begun + 1 \in 1 .. Cells /\ last \in Begun + 1 - 1 .. Cells
      /\ last - Begun \in Nat /\ last + 1 - (Begun + 1) = last - Begun
  BY <1>n
<1>1. /\ c \in Seq(CellSet) /\ Len(c) = last - Begun
      /\ \A i \in 1 .. last - Begun : c[i] = [frame |-> content, k |-> Begun + i]
  <2> DEFINE first == Begun + 1
  <2>1. first \in 1 .. Cells /\ last \in first - 1 .. Cells
    BY <1>0
  <2>2. /\ last + 1 - first = last - Begun
        /\ \A i \in 1 .. last - Begun : first - 1 + i = Begun + i
    BY <1>n
  <2>3. c = CellsOf(content, first, last)
    OBVIOUS
  <2> HIDE DEF c, first
  <2>4. /\ CellsOf(content, first, last) \in Seq(CellSet)
        /\ Len(CellsOf(content, first, last)) = last + 1 - first
        /\ \A i \in 1 .. last + 1 - first :
             CellsOf(content, first, last)[i] = [frame |-> content, k |-> first - 1 + i]
    BY <2>1, CellsOfType, Zenon
  <2> QED
    BY <2>2, <2>3, <2>4, <1>0
<1> HIDE DEF c
<1>2. \A i \in 1 .. Len(c) : c[i].frame = content /\ c[i].k = Begun + i
  BY <1>1
<1>3. /\ kernel' \in Seq(CellSet) /\ Len(kernel') = Len(kernel) + Len(c)
      /\ Len(Stream') = Len(Stream) + Len(c)
      /\ \A i \in 1 .. Len(Stream) : Stream'[i] = Stream[i]
      /\ \A i \in 1 .. Len(c) : Stream'[Len(Stream) + i] = c[i]
  BY <1>1, StreamGrows, Numbers DEF c
<1>4. Len(kernel') <= Room
  BY <1>n, <1>0, <1>1, <1>3 DEF Free
<1>5. FramingKept'
  <2>1. FramingKept /\ Len(c) <= Cells - Begun
    BY <1>n, <1>0, <1>1 DEF ProducerInv, StreamInv
  <2> QED
    BY <1>n, <1>0, <1>1, <1>2, <1>3, <2>1, StreamEnd, FramingGrows
<1>6. ASSUME NEW i \in Len(Stream) + 1 .. Len(Stream') PROVE Stream'[i].frame = content
  <2>1. i - Len(Stream) \in 1 .. Len(c) /\ Len(Stream) + (i - Len(Stream)) = i
    BY <1>n, <1>0, <1>1, <1>3
  <2> QED
    BY <1>2, <1>3, <2>1
<1> QED
  BY <1>1, <1>3, <1>4, <1>5, <1>6

\* A frame written while nothing waits begins where one ends; behind another it waits
\* itself, and sends nothing.
LEMMA WriteStep ==
  ASSUME ProducerInv, WriteFrame
  PROVE  ProducerInv'
<1> DEFINE now == IF pending = <<>> THEN Least(Cells, Free) ELSE 0
<1>0. WriteCells(now) /\ TypeOK /\ FramingKept /\ NoneForgotten /\ OneBegun /\ TickInRange
  BY DEF WriteFrame, ProducerInv, StreamInv
<1>n. /\ sessions \in Nat /\ sessions >= 1 /\ Cells \in Nat /\ Cells >= 1 /\ Written \in Nat
      /\ seq \in Nat /\ sessionId \in Nat /\ Len(Stream) \in Nat /\ Len(pending) \in Nat
      /\ pending \in Seq(0 .. Cells - 1)
  BY Numbers
<1>1. now \in 0 .. Cells /\ now <= Free
  BY Numbers DEF Least
<1> HIDE DEF now
<1>2. /\ pc = "tick" /\ sessionId < sessions /\ wire' = [seq |-> seq, session |-> sessionId]
      /\ kernel' = kernel \o CellsOf(wire', 1, now)
      /\ pending' = IF now < Cells THEN Append(pending, now) ELSE pending
      /\ blocked' = (blocked \/ now < Cells)
      /\ sessionId' = sessionId + 1 /\ UNCHANGED <<seq, received, closed, pc>>
  BY <1>0 DEF WriteCells
<1>3. wire' \in Frames
  BY <1>2, Numbers DEF Frames
<1>4. Written' = Written + 1
  BY <1>2, Numbers, SMTT(30) DEF Written
<1>5. CASE pending = <<>> /\ ~ closed
  <2>1. Begun = 0 /\ Owed = 0 /\ Len(pending) = 0
    BY <1>5 DEF Begun, Owed
  <2>0. pc # "exited" /\ ~ closed
    BY <1>2, <1>5
  <2>2. /\ kernel' \in Seq(CellSet) /\ Len(kernel') <= Room
        /\ Len(Stream') = Len(Stream) + now
        /\ FramingKept'
        /\ \A i \in 1 .. Len(Stream) : Stream'[i] = Stream[i]
        /\ \A i \in Len(Stream) + 1 .. Len(Stream') : Stream'[i].frame = wire'
    <3>1. /\ now \in Begun .. Cells /\ now - Begun <= Free /\ now - Begun = now
          /\ CellsOf(wire', 1, now) = CellsOf(wire', Begun + 1, now)
      BY <1>1, <1>n, <2>1
    <3> QED
      BY <1>2, <1>3, <2>0, <3>1, SendStep
  <2>3. pending' = IF now < Cells THEN <<now>> ELSE <<>>
    BY <1>2, <1>5
  <2>4. pending' \in Seq(0 .. Cells - 1)
    <3>1. CASE now < Cells
      <4>1. now \in 0 .. Cells - 1
        BY <1>1, <1>n, <3>1
      <4> QED
        BY <2>3, <3>1, <4>1
    <3>2. CASE ~ (now < Cells)
      BY <2>3, <3>2, EmptySeq
    <3> QED
      BY <3>1, <3>2
  <2>5. TypeOK'
    BY <1>0, <1>2, <1>3, <2>2, <2>4, Numbers DEF TypeOK
  <2>6. OneBegun'
    <3>1. \A i \in 2 .. Len(pending') : FALSE
      BY <2>3, <1>n
    <3>2. pending' # <<>> => now < Cells
      BY <2>3
    <3> QED
      BY <1>2, <3>1, <3>2 DEF OneBegun
  <2>7. NoneForgotten'
    <3>1. Owed' = Cells - now
      <4>1. CASE now < Cells
        BY <1>1, <1>n, <2>3, <4>1 DEF Owed
      <4>2. CASE ~ (now < Cells)
        BY <1>1, <1>n, <2>3, <4>2 DEF Owed
      <4> QED
        BY <4>1, <4>2
    <3>2. Cells * Written = Len(Stream)
      BY <1>0, <1>n, <2>0, <2>1 DEF NoneForgotten
    <3>3. Cells * (Written + 1) = Cells * Written + Cells
      BY <1>n
    <3>4. Cells * (Written + 1) = Len(Stream') + Owed'
      BY <1>1, <1>n, <2>2, <3>1, <3>2, <3>3, SMTT(30)
    <3> QED
      BY <1>4, <3>4 DEF NoneForgotten
  <2>8. IntactUntilBlocked'
    <3>0. ASSUME ~ blocked' PROVE Cells * Written' = Len(Stream')
      <4>1. ~ (now < Cells)
        BY <1>2, <3>0, Zenon
      <4>2. pending' = <<>> /\ ~ closed' /\ pc' # "exited"
        BY <1>2, <2>0, <2>3, <4>1
      <4> QED
        BY <1>n, <2>2, <2>7, <4>2, Numbers DEF NoneForgotten, Owed
    <3> SUFFICES ASSUME ~ blocked', NEW i \in 1 .. Len(Stream')
                 PROVE  LET n == (i - 1) \div Cells
                        IN  Stream'[i].frame = [seq |-> n \div sessions, session |-> n % sessions]
      BY <3>0 DEF IntactUntilBlocked
    <3>1. now = Cells /\ ~ blocked
      <4>1. ~ blocked /\ ~ (now < Cells)
        BY <1>2, Zenon
      <4> QED
        BY <1>1, <1>n, <4>1
    <3>2. CASE i \in 1 .. Len(Stream)
      BY <2>2, <3>1, <3>2 DEF ProducerInv, IntactUntilBlocked
    <3>3. CASE i \notin 1 .. Len(Stream)
      <4>1. i \in Len(Stream) + 1 .. Len(Stream') /\ i - Len(Stream) \in 1 .. Cells
        BY <1>n, <2>2, <3>1, <3>3
      <4>2. Len(Stream) = Cells * Written + 0
        BY <2>0, <2>1, StreamEnd, Numbers
      <4>3. (i - 1) \div Cells = Written
        <5>1. 0 \in 0 .. Cells - 1 /\ Len(Stream) + (i - Len(Stream)) - 1 = i - 1
              /\ i - Len(Stream) \in 1 .. Cells - 0
          BY <1>n, <4>1
        <5> DEFINE l == Len(Stream)
                   j == i - Len(Stream)
        <5>2. l \in Nat /\ l = Cells * Written + 0 /\ j \in 1 .. Cells - 0 /\ l + j - 1 = i - 1
          BY <1>n, <4>2, <5>1
        <5> HIDE DEF l, j
        <5>3. (l + j - 1) \div Cells = Written
          BY <1>n, <5>1, <5>2, CellAfter
        <5> QED
          BY <5>2, <5>3
      <4>4. Written = sessions * seq + sessionId
        BY <1>n, <1>2 DEF Written
      <4>5. Written \div sessions = seq /\ Written % sessions = sessionId
        <5>1. sessionId \in 0 .. sessions - 1
          BY <1>n, <1>2
        <5> QED
          BY <1>n, <4>4, <5>1, Division
      <4> QED
        BY <1>2, <2>2, <4>1, <4>3, <4>5
    <3> QED
      BY <3>2, <3>3
  <2> QED
    BY <1>0, <1>2, <2>2, <2>5, <2>6, <2>7, <2>8 DEF ProducerInv, StreamInv, TickInRange
<1>6. CASE pending # <<>> \/ closed
  <2>1. now = 0 /\ now < Cells
    BY <1>6, <1>n DEF now, Least, Free
  <2>a. blocked' = TRUE
    BY <1>2, <2>1, Zenon
  <2>2. CellsOf(wire', 1, now) = <<>>
    BY <2>1 DEF CellsOf
  <2>3. kernel' = kernel /\ Stream' = Stream
    <3>1. kernel' = kernel
      BY <1>2, <2>2, Numbers, ConcatEmptySeq
    <3> QED
      BY <1>2, <3>1 DEF Stream
  <2>4. pending' = Append(pending, 0)
    BY <1>2, <2>1, Numbers
  <2>5. /\ pending' \in Seq(0 .. Cells - 1) /\ Len(pending') = Len(pending) + 1
        /\ \A i \in 1 .. Len(pending) : pending'[i] = pending[i]
        /\ pending'[Len(pending) + 1] = 0 /\ pending' # <<>>
    <3>1. 0 \in 0 .. Cells - 1
      BY <1>n
    <3> QED
      BY <1>n, <2>4, <3>1, AppendProperties
  <2>6. TypeOK'
    <3>1. sessionId + 1 \in 0 .. sessions
      BY <1>2, <1>n
    <3> QED
      BY <1>0, <1>2, <1>3, <2>a, <2>3, <2>5, <3>1 DEF TypeOK
  <2>7. OneBegun'
    <3> SUFFICES ASSUME NEW i \in 2 .. Len(pending) + 1 PROVE pending'[i] = 0
      BY <2>a, <2>5 DEF OneBegun
    <3>1. CASE i = Len(pending) + 1
      BY <2>5, <3>1
    <3>2. CASE i # Len(pending) + 1
      <4>1. i \in 2 .. Len(pending) /\ i \in 1 .. Len(pending)
        BY <1>n, <3>2
      <4> QED
        BY <1>0, <2>5, <4>1 DEF OneBegun
    <3> QED
      BY <3>1, <3>2
  <2>8. NoneForgotten'
    <3> SUFFICES ASSUME ~ closed PROVE Cells * Written' = Len(Stream') + Owed'
      BY <1>2 DEF NoneForgotten
    <3>0. pending # <<>> /\ Cells * Written = Len(Stream) + Owed
      BY <1>0, <1>2, <1>6 DEF NoneForgotten
    <3>1. Len(pending) >= 1 /\ Head(pending') = pending'[1] /\ Head(pending) = pending[1]
      BY <3>0, <2>5, Numbers
    <3>2. Owed' = Owed + Cells
      <4>1. Cells * (Len(pending) + 1) = Cells * Len(pending) + Cells
        BY Numbers
      <4>2. Head(pending') = Head(pending) /\ Head(pending) \in 0 .. Cells - 1
        BY <2>5, <3>1, Numbers, SMTT(30)
      <4> QED
        BY <3>0, <2>5, <4>1, <4>2, Numbers, SMTT(30) DEF Owed
    <3>3. Cells * (Written + 1) = Cells * Written + Cells /\ Owed \in Int
      <4>1. Head(pending) \in 0 .. Cells - 1
        BY <3>1, Numbers
      <4> QED
        BY <3>0, <4>1, Numbers, SMTT(30) DEF Owed
    <3> QED
      BY <1>4, <2>3, <3>0, <3>2, <3>3, Numbers, SMTT(30)
  <2> QED
    BY <1>0, <1>2, <2>a, <2>3, <2>6, <2>7, <2>8
       DEF ProducerInv, StreamInv, FramingKept, IntactUntilBlocked, TickInRange
<1> QED
  BY <1>5, <1>6

\* The event loop goes on with the first queued write, where the stream ends.
LEMMA DrainStep ==
  ASSUME ProducerInv, Drain
  PROVE  ProducerInv'
<1> DEFINE last == Least(Cells, Begun + Free)
<1>0. /\ pending # <<>> /\ Free > 0 /\ Begun = Head(pending) /\ blocked
      /\ ~ closed /\ pc # "exited"
      /\ UNCHANGED <<wire, sessionId, seq, received, blocked, closed, pc>>
      /\ kernel' = kernel \o CellsOf(wire, Begun + 1, last)
      /\ pending' = IF last = Cells THEN Tail(pending) ELSE <<last>> \o Tail(pending)
      /\ TypeOK /\ NoneForgotten /\ OneBegun /\ TickInRange
  BY DEF Drain, Begun, Free, OneBegun, ProducerInv, StreamInv
<1>1. last \in Begun .. Cells /\ last - Begun <= Free /\ wire \in Frames
  BY Numbers DEF Least
<1> HIDE DEF last
<1>n. /\ Cells \in Nat /\ Cells >= 1 /\ Written \in Nat /\ Begun \in Nat /\ last \in Nat
      /\ Len(Stream) \in Nat /\ Len(pending) \in Nat /\ pending \in Seq(0 .. Cells - 1)
  BY <1>1, Numbers
<1>2. /\ kernel' \in Seq(CellSet) /\ Len(kernel') <= Room
      /\ Len(Stream') = Len(Stream) + (last - Begun)
      /\ FramingKept'
  BY <1>0, <1>1, SendStep
<1>3. /\ Tail(pending) \in Seq(0 .. Cells - 1) /\ Len(Tail(pending)) = Len(pending) - 1
      /\ \A i \in 1 .. Len(pending) - 1 : Tail(pending)[i] = 0
      /\ Len(pending) >= 1
  <2>1. Len(pending) >= 1
    BY <1>0, Numbers
  <2>2. /\ Tail(pending) \in Seq(0 .. Cells - 1) /\ Len(Tail(pending)) = Len(pending) - 1
        /\ \A i \in 1 .. Len(pending) - 1 : Tail(pending)[i] = pending[i + 1]
    BY <1>0, Numbers, HeadTailProperties
  <2>3. \A i \in 1 .. Len(pending) - 1 : i + 1 \in 2 .. Len(pending)
    BY <2>1, Numbers
  <2> QED
    BY <1>0, <2>1, <2>2, <2>3 DEF OneBegun
<1>4. CASE last = Cells
  <2>1. pending' = Tail(pending)
    BY <1>0, <1>4
  <2>2. TypeOK'
    BY <1>0, <1>2, <1>3, <2>1, Numbers DEF TypeOK
  <2>3. OneBegun'
    <3>1. \A i \in 2 .. Len(pending') : i \in 1 .. Len(pending) - 1
      BY <1>n, <1>3, <2>1
    <3> QED
      BY <1>0, <1>3, <2>1, <3>1 DEF OneBegun
  <2>4. Owed' = Cells * (Len(pending) - 1)
    <3>1. CASE pending' = <<>>
      <4>1. Len(pending) - 1 = 0
        BY <1>3, <2>1, <3>1
      <4>2. Cells * (Len(pending) - 1) = 0
        <5>1. Cells * 0 = 0
          BY <1>n
        <5> QED
          BY <4>1, <5>1
      <4> QED
        BY <3>1, <4>2 DEF Owed
    <3>2. CASE pending' # <<>>
      <4>1. Len(Tail(pending)) >= 1
        BY <1>3, <2>1, <3>2, LenProperties, EmptySeq
      <4>2. Head(pending') = pending'[1] /\ pending'[1] = 0
        BY <1>n, <1>3, <2>1, <4>1, SMTT(30)
      <4>3. Cells * Len(pending') - 0 = Cells * (Len(pending) - 1)
        <5>1. Len(pending') = Len(pending) - 1
          BY <1>3, <2>1
        <5>2. Cells * (Len(pending) - 1) \in Int
          BY <1>n
        <5> QED
          BY <5>1, <5>2
      <4> QED
        BY <3>2, <4>2, <4>3 DEF Owed
    <3> QED
      BY <3>1, <3>2
  <2>5. NoneForgotten'
    <3>1. Written' = Written /\ Owed = Cells * Len(pending) - Begun
      BY <1>0 DEF Written, Owed
    <3>2. Cells * (Len(pending) - 1) = Cells * Len(pending) - Cells
      BY <1>n
    <3> DEFINE w == Cells * Written
               p == Cells * Len(pending)
    <3>3. w \in Int /\ p \in Int
      BY <1>n
    <3>4. w = Len(Stream) + Owed
      BY <1>0 DEF NoneForgotten
    <3>5. Owed = p - Begun /\ Owed' = p - Cells
      BY <2>4, <3>1, <3>2
    <3> HIDE DEF w, p
    <3>6. w = Len(Stream') + Owed'
      BY <1>n, <1>2, <1>4, <3>3, <3>4, <3>5
    <3> QED
      BY <3>1, <3>6 DEF NoneForgotten, w
  <2> QED
    BY <1>0, <1>2, <2>2, <2>3, <2>5
       DEF ProducerInv, StreamInv, IntactUntilBlocked, TickInRange
<1>5. CASE last # Cells
  <2>0. last \in 0 .. Cells - 1
    BY <1>1, <1>5, Numbers
  <2>1. /\ pending' \in Seq(0 .. Cells - 1) /\ Len(pending') = Len(pending)
        /\ pending'[1] = last /\ pending' # <<>> /\ Head(pending') = last
        /\ \A i \in 2 .. Len(pending) : pending'[i] = 0
    <3>1. <<last>> \in Seq(0 .. Cells - 1) /\ Len(<<last>>) = 1
      BY <2>0
    <3>2. /\ pending' \in Seq(0 .. Cells - 1)
          /\ Len(pending') = 1 + (Len(pending) - 1)
          /\ \A i \in 1 .. 1 + (Len(pending) - 1) :
               pending'[i] = IF i <= 1 THEN <<last>>[i] ELSE Tail(pending)[i - 1]
      BY <1>0, <1>3, <1>5, <3>1, ConcatProperties
    <3>3. Len(pending') = Len(pending) /\ pending'[1] = last
      BY <1>3, <3>2, Numbers
    <3>4. pending' # <<>> /\ Head(pending') = last
      BY <1>3, <3>2, <3>3, Numbers
    <3>5. ASSUME NEW i \in 2 .. Len(pending) PROVE pending'[i] = 0
      <4>1. i - 1 \in 1 .. Len(pending) - 1 /\ i \in 1 .. 1 + (Len(pending) - 1) /\ ~ (i <= 1)
        BY Numbers
      <4> QED
        BY <1>3, <3>2, <4>1
    <3> QED
      BY <3>2, <3>3, <3>4, <3>5
  <2>2. TypeOK'
    BY <1>0, <1>2, <2>1, Numbers DEF TypeOK
  <2>3. OneBegun'
    BY <1>0, <2>1 DEF OneBegun
  <2>4. NoneForgotten'
    <3>1. /\ Written' = Written /\ Owed = Cells * Len(pending) - Begun
          /\ Owed' = Cells * Len(pending) - last
      BY <1>0, <2>1 DEF Written, Owed
    <3> DEFINE w == Cells * Written
               p == Cells * Len(pending)
    <3>2. w \in Int /\ p \in Int
      BY <1>n
    <3>3. w = Len(Stream) + Owed /\ Owed = p - Begun /\ Owed' = p - last
      BY <1>0, <3>1 DEF NoneForgotten
    <3> HIDE DEF w, p
    <3>4. w = Len(Stream') + Owed'
      BY <1>n, <1>2, <3>2, <3>3
    <3> QED
      BY <3>1, <3>4 DEF NoneForgotten, w
  <2> QED
    BY <1>0, <1>2, <2>2, <2>3, <2>4
       DEF ProducerInv, StreamInv, IntactUntilBlocked, TickInRange
<1> QED
  BY <1>4, <1>5

\* Every step preserves ProducerInv.
LEMMA NextProducerInv == ProducerInv /\ [Next]_vars => ProducerInv'
<1> SUFFICES ASSUME ProducerInv, [Next]_vars PROVE ProducerInv'
  OBVIOUS
<1>1. CASE Next
  BY <1>1, TickSteps, WriteStep, DrainStep, ReadStep, HangUpStep DEF Next
<1>2. CASE UNCHANGED vars
  BY <1>2 DEF vars, ProducerInv, StreamInv, TypeOK, FramingKept, NoneForgotten, Owed, Written,
              Stream, IntactUntilBlocked, TickInRange, OneBegun
<1> QED
  BY <1>1, <1>2

LEMMA ProducerInvariant == Spec => []ProducerInv
  BY InitProducerInv, NextProducerInv, PTL DEF Spec

\* node_producer.mjs:145: whatever the kernel takes of each write, whenever the event
\* loop sends the rest and whenever either end goes, the reader keeps its place in the
\* stream; and while both live, each cell of each frame written is sent or still queued.
THEOREM StreamStaysFramed == Spec => []StreamInv
<1>1. ProducerInv => StreamInv
  BY DEF ProducerInv
<1> QED
  BY <1>1, ProducerInvariant, PTL

\* Until a write is first queued, each frame reaches the socket as it was written, and
\* every frame does, the last ones before the exit as well.
THEOREM IntactWithRoom == Spec => []IntactUntilBlocked
<1>1. ProducerInv => IntactUntilBlocked
  BY DEF ProducerInv
<1> QED
  BY <1>1, ProducerInvariant, PTL
=============================================================================
