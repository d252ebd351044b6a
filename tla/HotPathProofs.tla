---------------------------- MODULE HotPathProofs ----------------------------
(***************************************************************************)
(* Proofs about HotPath for every number of calls and of session objects,  *)
(* every capacity of the two rings and every length of the run: frames and *)
(* chunks add up, gaps are shed frames, and nothing is left at the exit.   *)
(***************************************************************************)
EXTENDS HotPath, FiniteSetTheorems, SequenceTheorems, WellFoundedInduction, TLAPS

-----------------------------------------------------------------------------
(* Sums of the values of a function over a finite set, written with the    *)
(* fold that HotPath uses: what a sum is when an element is added, removed *)
(* or given another value.  The fold takes the elements in an order chosen *)
(* by CHOOSE; the lemmas show that the order does not matter.              *)

SumOf(f, S) == FoldFunctionOnSet(+, 0, f, S)

\* The element that the fold takes first.
Pick(S) == CHOOSE x \in S : TRUE

\* g gives the sum of f over every subset of S.
IsSum(g, f, S) ==
  g = [T \in SUBSET S |-> IF T = {} THEN 0 ELSE f[Pick(T)] + g[T \ {Pick(T)}]]

Sums(f, S) == CHOOSE g : IsSum(g, f, S)

\* The fold is the recursive function, applied to the whole set.
LEMMA SumOfSums ==
  ASSUME NEW f, NEW S
  PROVE  SumOf(f, S) = Sums(f, S)[S]
  BY DEF SumOf, FoldFunctionOnSet, MapThenFoldSet, Sums, IsSum, Pick

LEMMA PickElement ==
  ASSUME NEW S, S # {}
  PROVE  Pick(S) \in S
  BY DEF Pick

\* A set of subsets of a finite set has a least member.
LEMMA LeastSubset ==
  ASSUME NEW S, IsFiniteSet(S), NEW B, B \subseteq SUBSET S, B # {}
  PROVE  \E T \in B : \A U \in B : U \subseteq T => U = T
<1>1. IsWellFoundedOn(StrictSubsetOrdering(S), FiniteSubsetsOf(S))
  BY FS_StrictSubsetOrderingWellFounded
<1>2. FiniteSubsetsOf(S) = SUBSET S
  BY FS_FiniteSubsetsOfFinite
<1>3. B \subseteq FiniteSubsetsOf(S)
  BY <1>2
<1>4. PICK T \in B : \A U \in B : ~ (<<U, T>> \in StrictSubsetOrdering(S))
  BY <1>1, <1>3, WFMin
<1>5. ASSUME NEW U \in B, U \subseteq T PROVE U = T
  BY <1>4, <1>5 DEF StrictSubsetOrdering
<1> QED
  BY <1>5

\* Two such functions agree wherever both are defined.
LEMMA SumsAgree ==
  ASSUME NEW f, NEW S, NEW V, IsFiniteSet(S), NEW g, NEW h, IsSum(g, f, S), IsSum(h, f, V)
  PROVE  \A U \in SUBSET S : U \subseteq V => g[U] = h[U]
<1> DEFINE B == {U \in SUBSET S : U \subseteq V /\ g[U] # h[U]}
<1>1. ASSUME B # {} PROVE FALSE
  <2>0. B \subseteq SUBSET S
    OBVIOUS
  <2>1. PICK T \in B : \A U \in B : U \subseteq T => U = T
    <3> HIDE DEF B
    <3> QED
      BY <1>1, <2>0, LeastSubset
  <2>2. T \in SUBSET S /\ T \in SUBSET V /\ g[T] # h[T]
    BY <2>1
  <2>3. T # {}
    BY <2>2 DEF IsSum
  <2>4. Pick(T) \in T
    BY <2>3, PickElement
  <2> DEFINE W == T \ {Pick(T)}
  <2>5. W \in SUBSET S /\ W \in SUBSET V /\ g[W] = h[W]
    BY <2>1, <2>2, <2>4
  <2>6. g[T] = f[Pick(T)] + g[W] /\ h[T] = f[Pick(T)] + h[W]
    BY <2>2, <2>3 DEF IsSum
  <2> QED
    BY <2>2, <2>5, <2>6
<1> QED
  BY <1>1

\* Such a function exists.
LEMMA SumsExist ==
  ASSUME NEW f, NEW S, IsFiniteSet(S)
  PROVE  IsSum(Sums(f, S), f, S)
<1> DEFINE B == {T \in SUBSET S : ~ \E g : IsSum(g, f, T)}
<1>1. ASSUME B # {} PROVE FALSE
  <2>0. B \subseteq SUBSET S
    OBVIOUS
  <2>1. PICK T \in B : \A U \in B : U \subseteq T => U = T
    <3> HIDE DEF B
    <3> QED
      BY <1>1, <2>0, LeastSubset
  <2>2. T \in SUBSET S /\ IsFiniteSet(T)
    BY <2>1, FS_Subset
  <2>3. ASSUME NEW U \in SUBSET T, U # T
        PROVE  IsSum(Sums(f, U), f, U)
    <3>1. \E g : IsSum(g, f, U)
      BY <2>1, <2>2, <2>3
    <3> QED
      BY <3>1 DEF Sums
  <2> DEFINE Rest(U) == U \ {Pick(U)}
             value(U) == Sums(f, U)[U]
             g == [U \in SUBSET T |-> IF U = {} THEN 0 ELSE f[Pick(U)] + value(Rest(U))]
  <2>4. ASSUME NEW U \in SUBSET T, U # T
        PROVE  g[U] = value(U)
    <3>1. CASE U = {}
      <4>1. value(U) = 0
        BY <2>3, <2>4, <3>1 DEF IsSum
      <4> QED
        BY <3>1, <4>1
    <3>2. CASE U # {}
      <4>1. Pick(U) \in U
        BY <3>2, PickElement
      <4>2. Rest(U) \in SUBSET T /\ Rest(U) # T /\ Rest(U) \in SUBSET U
        BY <4>1
      <4>3. IsSum(Sums(f, U), f, U) /\ IsSum(Sums(f, Rest(U)), f, Rest(U))
        BY <2>3, <2>4, <4>2
      <4>4. IsFiniteSet(U)
        BY <2>2, FS_Subset
      <4>5. Sums(f, U)[Rest(U)] = value(Rest(U))
        <5> HIDE DEF Rest
        <5> QED
          BY <4>2, <4>3, <4>4, SumsAgree
      <4>6. value(U) = f[Pick(U)] + Sums(f, U)[Rest(U)]
        BY <3>2, <4>3 DEF IsSum
      <4> QED
        BY <3>2, <4>5, <4>6
    <3> QED
      BY <3>1, <3>2
  <2>5. ASSUME NEW U \in SUBSET T, U # {}
        PROVE  g[U] = f[Pick(U)] + g[Rest(U)]
    <3>1. Pick(U) \in U
      BY <2>5, PickElement
    <3>2. Rest(U) \in SUBSET T /\ Rest(U) # T
      BY <3>1
    <3>3. g[Rest(U)] = value(Rest(U))
      BY <2>4, <3>2
    <3>4. g[U] = f[Pick(U)] + value(Rest(U))
      BY <2>5
    <3> QED
      BY <3>3, <3>4
  <2>6. g = [U \in SUBSET T |-> IF U = {} THEN 0 ELSE f[Pick(U)] + g[U \ {Pick(U)}]]
    <3>1. \A U \in SUBSET T :
            g[U] = IF U = {} THEN 0 ELSE f[Pick(U)] + g[U \ {Pick(U)}]
      BY <2>5
    <3> HIDE DEF value
    <3> QED
      BY <3>1
  <2>7. IsSum(g, f, T)
    BY <2>6 DEF IsSum
  <2> QED
    BY <2>1, <2>7
<1>2. \E g : IsSum(g, f, S)
  BY <1>1
<1> QED
  BY <1>2 DEF Sums

\* One step of the fold.
LEMMA SumUnfold ==
  ASSUME NEW f, NEW S, IsFiniteSet(S)
  PROVE  /\ S = {} => SumOf(f, S) = 0
         /\ S # {} => SumOf(f, S) = f[Pick(S)] + SumOf(f, S \ {Pick(S)})
<1>1. IsSum(Sums(f, S), f, S) /\ SumOf(f, S) = Sums(f, S)[S]
  BY SumsExist, SumOfSums
<1>2. CASE S = {}
  BY <1>1, <1>2 DEF IsSum
<1>3. CASE S # {}
  <2> DEFINE W == S \ {Pick(S)}
  <2>1. IsFiniteSet(W) /\ W \in SUBSET S
    BY FS_RemoveElement
  <2>2. IsSum(Sums(f, W), f, W) /\ SumOf(f, W) = Sums(f, W)[W]
    BY <2>1, SumsExist, SumOfSums
  <2>3. Sums(f, S)[S] = f[Pick(S)] + Sums(f, S)[W]
    BY <1>1, <1>3 DEF IsSum
  <2>4. Sums(f, S)[W] = Sums(f, W)[W]
    <3> HIDE DEF W
    <3> QED
      BY <1>1, <2>1, <2>2, SumsAgree
  <2> QED
    BY <1>1, <1>3, <2>2, <2>3, <2>4
<1> QED
  BY <1>2, <1>3

LEMMA SumType ==
  ASSUME NEW f, NEW S, IsFiniteSet(S), \A x \in S : f[x] \in Nat
  PROVE  SumOf(f, S) \in Nat
<1> DEFINE B == {T \in SUBSET S : SumOf(f, T) \notin Nat}
<1>1. ASSUME B # {} PROVE FALSE
  <2>0. B \subseteq SUBSET S
    OBVIOUS
  <2>1. PICK T \in B : \A U \in B : U \subseteq T => U = T
    <3> HIDE DEF B
    <3> QED
      BY <1>1, <2>0, LeastSubset
  <2>2. T \in SUBSET S /\ IsFiniteSet(T) /\ SumOf(f, T) \notin Nat
    BY <2>1, FS_Subset
  <2>3. T # {} /\ SumOf(f, T) = f[Pick(T)] + SumOf(f, T \ {Pick(T)})
    BY <2>2, SumUnfold
  <2>4. Pick(T) \in T
    BY <2>3, PickElement
  <2>5. T \ {Pick(T)} \notin B
    BY <2>1, <2>4
  <2>6. SumOf(f, T \ {Pick(T)}) \in Nat /\ f[Pick(T)] \in Nat
    BY <2>2, <2>4, <2>5
  <2> QED
    BY <2>2, <2>3, <2>6
<1> QED
  BY <1>1

\* Functions with the same values have the same sum.
LEMMA SumSame ==
  ASSUME NEW f, NEW g, NEW S, IsFiniteSet(S), \A x \in S : f[x] = g[x]
  PROVE  SumOf(f, S) = SumOf(g, S)
<1> DEFINE B == {T \in SUBSET S : SumOf(f, T) # SumOf(g, T)}
<1>1. ASSUME B # {} PROVE FALSE
  <2>0. B \subseteq SUBSET S
    OBVIOUS
  <2>1. PICK T \in B : \A U \in B : U \subseteq T => U = T
    <3> HIDE DEF B
    <3> QED
      BY <1>1, <2>0, LeastSubset
  <2>2. T \in SUBSET S /\ IsFiniteSet(T) /\ SumOf(f, T) # SumOf(g, T)
    BY <2>1, FS_Subset
  <2>3. /\ T # {}
        /\ SumOf(f, T) = f[Pick(T)] + SumOf(f, T \ {Pick(T)})
        /\ SumOf(g, T) = g[Pick(T)] + SumOf(g, T \ {Pick(T)})
    <3>1. T = {} => SumOf(f, T) = 0 /\ SumOf(g, T) = 0
      BY <2>2, SumUnfold
    <3> QED
      BY <2>2, <3>1, SumUnfold
  <2>4. Pick(T) \in T
    BY <2>3, PickElement
  <2>5. T \ {Pick(T)} \notin B
    BY <2>1, <2>4
  <2>6. SumOf(f, T \ {Pick(T)}) = SumOf(g, T \ {Pick(T)}) /\ f[Pick(T)] = g[Pick(T)]
    BY <2>2, <2>4, <2>5
  <2> QED
    BY <2>2, <2>3, <2>6
<1> QED
  BY <1>1

\* Any element can be taken first.
LEMMA SumRemove ==
  ASSUME NEW f, NEW S, IsFiniteSet(S), \A x \in S : f[x] \in Nat, NEW x \in S
  PROVE  SumOf(f, S) = f[x] + SumOf(f, S \ {x})
<1> DEFINE Splits(T) == \A y \in T : SumOf(f, T) = f[y] + SumOf(f, T \ {y})
           B == {T \in SUBSET S : ~ Splits(T)}
<1>1. ASSUME B # {} PROVE FALSE
  <2>0. B \subseteq SUBSET S
    OBVIOUS
  <2>1. PICK T \in B : \A U \in B : U \subseteq T => U = T
    <3> HIDE DEF B
    <3> QED
      BY <1>1, <2>0, LeastSubset
  <2>2. T \in SUBSET S /\ IsFiniteSet(T) /\ ~ Splits(T)
    BY <2>1, FS_Subset
  <2> DEFINE p == Pick(T)
  <2>3. PICK y \in T : SumOf(f, T) # f[y] + SumOf(f, T \ {y})
    BY <2>2
  <2>4. p \in T
    BY <2>3, PickElement
  <2>5. SumOf(f, T) = f[p] + SumOf(f, T \ {p})
    BY <2>2, <2>3, SumUnfold
  <2> HIDE DEF p
  <2>6. y # p
    BY <2>3, <2>5
  <2>7. Splits(T \ {p}) /\ Splits(T \ {y})
    <3>1. T \ {p} \in SUBSET S /\ T \ {p} # T /\ T \ {y} \in SUBSET S /\ T \ {y} # T
      BY <2>2, <2>3, <2>4
    <3>2. T \ {p} \notin B /\ T \ {y} \notin B
      BY <2>1, <3>1
    <3> QED
      BY <3>1, <3>2
  <2> DEFINE W == (T \ {p}) \ {y}
  <2>8. SumOf(f, T \ {p}) = f[y] + SumOf(f, W)
    BY <2>3, <2>6, <2>7
  <2>9. SumOf(f, T \ {y}) = f[p] + SumOf(f, W)
    <3>1. (T \ {y}) \ {p} = W
      OBVIOUS
    <3> QED
      BY <2>4, <2>6, <2>7, <3>1
  <2>10. f[y] \in Nat /\ f[p] \in Nat /\ SumOf(f, W) \in Nat
    <3>1. W \in SUBSET S /\ IsFiniteSet(W)
      BY <2>2, FS_Subset
    <3>2. \A z \in W : f[z] \in Nat
      BY <3>1
    <3>3. SumOf(f, W) \in Nat
      BY <3>1, <3>2, SumType
    <3> QED
      BY <2>2, <2>3, <2>4, <3>3
  <2> QED
    BY <2>3, <2>5, <2>8, <2>9, <2>10
<1> QED
  BY <1>1

\* A sum when one more element is given a value, and nothing else changes.
LEMMA SumAdd ==
  ASSUME NEW f, NEW g, NEW S, IsFiniteSet(S), NEW x, x \notin S,
         g[x] \in Nat, \A y \in S : f[y] \in Nat /\ g[y] = f[y]
  PROVE  SumOf(g, S \cup {x}) = SumOf(f, S) + g[x]
<1>1. IsFiniteSet(S \cup {x})
  BY FS_AddElement
<1>2. \A y \in S \cup {x} : g[y] \in Nat
  OBVIOUS
<1>3. SumOf(g, S \cup {x}) = g[x] + SumOf(g, S)
  <2> DEFINE T == S \cup {x}
  <2>1. T \ {x} = S /\ x \in T
    OBVIOUS
  <2> HIDE DEF T
  <2>2. SumOf(g, T) = g[x] + SumOf(g, T \ {x})
    BY <1>1, <1>2, <2>1, SumRemove DEF T
  <2> QED
    BY <2>1, <2>2 DEF T
<1>5. SumOf(g, S) = SumOf(f, S)
  BY SumSame
<1>6. SumOf(f, S) \in Nat
  BY SumType
<1> QED
  BY <1>3, <1>5, <1>6

\* A sum when the value at one element changes.
LEMMA SumUpdate ==
  ASSUME NEW f, NEW g, NEW S, IsFiniteSet(S), NEW x \in S,
         \A y \in S : f[y] \in Nat /\ g[y] \in Nat,
         \A y \in S \ {x} : g[y] = f[y]
  PROVE  /\ SumOf(f, S) \in Nat /\ SumOf(g, S) \in Nat
         /\ SumOf(g, S) + f[x] = SumOf(f, S) + g[x]
<1>1. IsFiniteSet(S \ {x})
  BY FS_RemoveElement
<1>2. SumOf(f, S) = f[x] + SumOf(f, S \ {x}) /\ SumOf(g, S) = g[x] + SumOf(g, S \ {x})
  BY SumRemove
<1>3. SumOf(f, S \ {x}) = SumOf(g, S \ {x})
  BY <1>1, SumSame
<1>4. SumOf(f, S \ {x}) \in Nat
  BY <1>1, SumType
<1> QED
  BY <1>2, <1>3, <1>4

\* The sum of zeros.
LEMMA SumZero ==
  ASSUME NEW f, NEW S, IsFiniteSet(S), \A x \in S : f[x] = 0
  PROVE  SumOf(f, S) = 0
<1> DEFINE B == {T \in SUBSET S : SumOf(f, T) # 0}
<1>1. ASSUME B # {} PROVE FALSE
  <2>0. B \subseteq SUBSET S
    OBVIOUS
  <2>1. PICK T \in B : \A U \in B : U \subseteq T => U = T
    <3> HIDE DEF B
    <3> QED
      BY <1>1, <2>0, LeastSubset
  <2>2. T \in SUBSET S /\ IsFiniteSet(T) /\ SumOf(f, T) # 0
    BY <2>1, FS_Subset
  <2>3. T # {} /\ SumOf(f, T) = f[Pick(T)] + SumOf(f, T \ {Pick(T)})
    BY <2>2, SumUnfold
  <2>4. Pick(T) \in T
    BY <2>3, PickElement
  <2>5. T \ {Pick(T)} \notin B
    BY <2>1, <2>4
  <2>6. SumOf(f, T \ {Pick(T)}) = 0 /\ f[Pick(T)] = 0
    BY <2>2, <2>4, <2>5
  <2> QED
    BY <2>2, <2>3, <2>6
<1> QED
  BY <1>1

-----------------------------------------------------------------------------
(* The inductive invariant.                                                *)

\* Where the threads stand, against what they hold: a frame is in hand only
\* between try_pop and its outcome; a sweep has only sessions in use before it,
\* and the last one all of them; the publisher goes once hot_done is set and
\* the event ring is empty.
Control ==
  /\ hot_pc = "work" <=> hand # <<>>
  /\ \A i \in due : Active(i)
  /\ hot_pc = "flush_all" => \A i \in Objects : Active(i) => i \in due
  /\ hot_pc \in {"setup", "returned", "stopped", "join", "exited"} => \A i \in Objects : ~ Active(i)
  /\ hot_done => hot_pc \in {"join", "exited"}
  /\ pub_pc = "empty?" => hot_done
  /\ pub_pc = "exited" => hot_done /\ events = <<>> /\ buffered = <<>>
  /\ hot_pc = "exited" => pub_pc = "exited"

\* A session in use has a call and has seen a frame of it; no call has two
\* sessions; the chunk of a free object is closed.
SessionsSound ==
  /\ \A i \in Objects : Active(i) => objects[i].id \in Ids /\ objects[i].last_seq \in Nat
  /\ \A i, j \in Objects : Active(i) /\ Active(j) /\ objects[i].id = objects[j].id => i = j
  /\ \A i \in Objects : ~ Active(i) => ~ objects[i].chunker.open

\* The chunks that wait are among those counted.
Out == buffered \o events
NumbersCounted ==
  /\ published.last <= metrics.chunks
  /\ \A n \in 1 .. Len(Out) : Out[n].number <= metrics.chunks

\* The frames that have been offered, as pairs of a call and a number, and
\* those that the consumer has still to process, in order.
OfferedPairs == UNION {{id} \X (0 .. next_seq[id] - 1) : id \in Ids}
Queue == hand \o frames
Queued(pair) == \E n \in 1 .. Len(Queue) : Queue[n].id = pair[1] /\ Queue[n].seq = pair[2]

\* The frames of a call wait in the order they were offered.
QueueOrdered ==
  /\ \A n \in 1 .. Len(Queue) : Queue[n].seq < next_seq[Queue[n].id]
  /\ \A m, n \in 1 .. Len(Queue) :
       m < n /\ Queue[m].id = Queue[n].id => Queue[m].seq < Queue[n].seq

\* pair is older than whatever waits of its call.
Past(pair) == \A n \in 1 .. Len(Queue) : Queue[n].id = pair[1] => pair[2] < Queue[n].seq

\* What was offered and neither waits nor was shed has passed: it is not above
\* the last number that the session of its call has seen.
PassedBy(shed) ==
  \A pair \in OfferedPairs :
    pair \notin shed /\ ~ Queued(pair) =>
      /\ Past(pair)
      /\ \A i \in Objects : Active(i) /\ objects[i].id = pair[1] => pair[2] <= objects[i].last_seq

\* What was counted as missing is below the last number seen.
MissedBefore(missed) ==
  \A pair \in missed :
    /\ Past(pair)
    /\ \A i \in Objects : Active(i) /\ objects[i].id = pair[1] => pair[2] < objects[i].last_seq

\* The shed frames and the missing ones are sets that the counters count.
GapsCounted ==
  \E shed \in SUBSET OfferedPairs : \E missed \in SUBSET shed :
    /\ IsFiniteSet(shed) /\ Cardinality(shed) = ring_full_drops
    /\ Cardinality(missed) = metrics.seq_gaps
    /\ PassedBy(shed) /\ MissedBefore(missed)

PathInv ==
  /\ TypeOK /\ FramesAccounted /\ Control /\ SessionsSound
  /\ ChunksAccounted /\ NumbersCounted /\ FramesShippedOnce
  /\ QueueOrdered /\ GapsCounted

-----------------------------------------------------------------------------
(* The operators that the steps are made of.                               *)

LEMMA Constants ==
  /\ IsFiniteSet(Ids)
  /\ MaxSessions \in Nat /\ MaxSessions >= 1 /\ FrameCapacity \in Nat /\ FrameCapacity >= 1
  /\ EventCapacity \in Nat /\ IdleLimit \in Nat /\ IdleLimit >= 1
  /\ StdoutEvents \in Nat /\ StdoutEvents >= 1
  /\ pre_roll_frames \in Nat /\ MaxFrames \in Nat
  BY HotPathAssumption

ChunkerSet == [open : BOOLEAN, held : Nat, kept : 0 .. pre_roll_frames]

\* A chunker on which a frame was spent holds and ships one frame more at most.
LEMMA FrameStepsSound ==
  ASSUME NEW c \in ChunkerSet, NEW step \in FrameSteps(c)
  PROVE  /\ step.chunker \in ChunkerSet
         /\ \/ step.out = <<>>
            \/ \E n \in Nat : step.out = <<n>>
         /\ step.out = <<>> =>
              step.chunker.held + step.chunker.kept <= c.held + c.kept + 1
         /\ \A n \in Nat : step.out = <<n>> =>
              step.chunker.held + step.chunker.kept + n <= c.held + c.kept + 1
<1> DEFINE n == c.held + c.kept + 1
           kept == IF c.kept < pre_roll_frames THEN c.kept + 1 ELSE c.kept
<1>0. /\ c.held \in Nat /\ c.kept \in Nat /\ c.kept <= pre_roll_frames
      /\ pre_roll_frames \in Nat /\ n \in Nat /\ kept \in 0 .. pre_roll_frames
      /\ 0 \in 0 .. pre_roll_frames
  BY Constants DEF ChunkerSet
<1>1. \/ step = Step(TRUE, n, 0, <<>>)
      \/ step = Step(TRUE, 0, 0, <<n>>)
      \/ step = Step(FALSE, 0, 0, <<n>>)
      \/ step = Step(FALSE, 0, kept, <<>>)
  BY DEF FrameSteps
<1>2. CASE step = Step(TRUE, n, 0, <<>>)
  BY <1>0, <1>2 DEF Step, ChunkerSet
<1>3. CASE step = Step(TRUE, 0, 0, <<n>>)
  BY <1>0, <1>3 DEF Step, ChunkerSet
<1>4. CASE step = Step(FALSE, 0, 0, <<n>>)
  BY <1>0, <1>4 DEF Step, ChunkerSet
<1>5. CASE step = Step(FALSE, 0, kept, <<>>)
  BY <1>0, <1>5 DEF Step, ChunkerSet
<1> QED
  BY <1>1, <1>2, <1>3, <1>4, <1>5

\* A flush closes the chunk, and invents no frame.
LEMMA FlushStepSound ==
  ASSUME NEW c \in ChunkerSet
  PROVE  LET step == FlushStep(c)
         IN  /\ step.chunker \in ChunkerSet /\ ~ step.chunker.open
             /\ \/ step.out = <<>>
                \/ \E n \in Nat : step.out = <<n>>
             /\ step.out = <<>> => step.chunker.held + step.chunker.kept <= c.held + c.kept
             /\ \A n \in Nat : step.out = <<n>> =>
                  step.chunker.held + step.chunker.kept + n <= c.held + c.kept
<1>0. /\ c.held \in Nat /\ c.kept \in 0 .. pre_roll_frames /\ c.kept \in Nat
      /\ 0 \in 0 .. pre_roll_frames
  BY Constants DEF ChunkerSet
<1>1. CASE c.open
  BY <1>0, <1>1 DEF FlushStep, Step, ChunkerSet
<1>2. CASE ~ c.open
  BY <1>0, <1>2 DEF FlushStep, Step, ChunkerSet
<1> QED
  BY <1>1, <1>2

\* emit(): nothing, an event pushed, or an event counted as dropped.
LEMMA EmitSound ==
  ASSUME TypeOK, NEW m \in MetricsSet, NEW out, Emit(m, out),
         out = <<>> \/ \E n \in Nat : out = <<n>>
  PROVE  /\ metrics' \in MetricsSet /\ events' \in Seq(Events) /\ Len(events') <= EventCapacity
         /\ metrics'.frames = m.frames /\ metrics'.seq_gaps = m.seq_gaps
         /\ metrics'.frames_refused = m.frames_refused
         /\ \/ /\ out = <<>> /\ events' = events
               /\ metrics'.chunks = m.chunks /\ metrics'.event_drops = m.event_drops
            \/ /\ events' = events
               /\ metrics'.chunks = m.chunks + 1 /\ metrics'.event_drops = m.event_drops + 1
            \/ \E e \in Events :
                 /\ events' = Append(events, e)
                 /\ e.number = m.chunks + 1 /\ out = <<e.frame_count>>
                 /\ metrics'.chunks = m.chunks + 1 /\ metrics'.event_drops = m.event_drops
<1>0. /\ events \in Seq(Events) /\ Len(events) \in Nat /\ EventCapacity \in Nat
      /\ Len(events) <= EventCapacity
      /\ m.chunks \in Nat /\ m.event_drops \in Nat
  BY Constants DEF TypeOK, MetricsSet
<1> DEFINE k == Len(out)
           drops == IF RoomForEvent THEN m.event_drops ELSE m.event_drops + k
<1>1. metrics' = [m EXCEPT !.chunks = m.chunks + k, !.event_drops = drops]
  BY DEF Emit, EmitCounting, MetricsSet
<1>2. k \in {0, 1} /\ (k = 0 <=> out = <<>>)
  BY DEF Emit
<1>3. /\ metrics'.frames = m.frames /\ metrics'.seq_gaps = m.seq_gaps
      /\ metrics'.frames_refused = m.frames_refused
      /\ metrics'.chunks = m.chunks + k /\ metrics'.event_drops = drops
  BY <1>1 DEF MetricsSet
<1>4. metrics' \in MetricsSet
  <2>1. m.chunks + k \in Nat /\ drops \in Nat
    BY <1>0, <1>2
  <2> HIDE DEF drops, k
  <2> QED
    BY <1>1, <2>1 DEF MetricsSet
<1>5. CASE out = <<>>
  <2>1. events' = events
    <3>1. [n \in 1 .. Len(<<>>) |-> [number |-> m.chunks + n, frame_count |-> <<>>[n]]] = <<>>
      BY SMT
    <3>2. RoomForEvent => events' = events \o <<>>
      BY <1>5, <3>1 DEF Emit, EmitCounting
    <3>3. events \o <<>> = events
      BY <1>0, ConcatEmptySeq
    <3> QED
      BY <3>2, <3>3 DEF Emit, EmitCounting
  <2> QED
    BY <1>0, <1>2, <1>3, <1>4, <1>5, <2>1
<1>6. CASE out # <<>>
  <2>1. PICK n \in Nat : out = <<n>>
    BY <1>6
  <2>2. k = 1
    BY <2>1
  <2>3. CASE ~ RoomForEvent
    <3>1. events' = events
      BY <2>3 DEF Emit, EmitCounting
    <3> QED
      BY <1>0, <1>3, <1>4, <2>2, <2>3, <3>1
  <2>4. CASE RoomForEvent
    <3> DEFINE e == [number |-> m.chunks + 1, frame_count |-> n]
    <3>1. e \in Events
      BY <1>0 DEF Events
    <3>2. [j \in 1 .. Len(out) |-> [number |-> m.chunks + j, frame_count |-> out[j]]] = <<e>>
      BY <2>1
    <3>3. events' = events \o <<e>>
      BY <2>4, <3>2 DEF Emit, EmitCounting
    <3>4. events \o <<e>> = Append(events, e)
      <4> HIDE DEF e
      <4> QED
        BY <1>0, <3>1, AppendIsConcat
    <3>5. Len(Append(events, e)) = Len(events) + 1 /\ Append(events, e) \in Seq(Events)
      <4> HIDE DEF e
      <4> QED
        BY <1>0, <3>1, AppendProperties
    <3>6. Len(events') <= EventCapacity /\ events' \in Seq(Events)
      BY <1>0, <2>4, <3>3, <3>4, <3>5 DEF RoomForEvent
    <3>7. e.number = m.chunks + 1 /\ out = <<e.frame_count>>
      BY <2>1
    <3> QED
      BY <1>3, <1>4, <2>2, <2>4, <3>1, <3>3, <3>4, <3>6, <3>7
  <2> QED
    BY <2>3, <2>4
<1> QED
  BY <1>5, <1>6

-----------------------------------------------------------------------------
(* The frames of a sequence of events.                                     *)

Counts(s) == [n \in DOMAIN s |-> s[n].frame_count]

LEMMA FramesInSum ==
  ASSUME NEW s \in Seq(Events)
  PROVE  /\ FramesIn(s) = SumOf(Counts(s), 1 .. Len(s))
         /\ IsFiniteSet(1 .. Len(s)) /\ Len(s) \in Nat
         /\ \A n \in 1 .. Len(s) : Counts(s)[n] = s[n].frame_count /\ Counts(s)[n] \in Nat
<1>1. Len(s) \in Nat /\ DOMAIN s = 1 .. Len(s)
  BY LenProperties
<1>2. IsFiniteSet(1 .. Len(s))
  BY <1>1, FS_Interval
<1>3. FramesIn(s) = SumOf(Counts(s), 1 .. Len(s))
  BY <1>1 DEF FramesIn, SumOver, SumOf, Counts
<1>4. \A n \in 1 .. Len(s) : s[n] \in Events
  BY ElementOfSeq
<1> QED
  BY <1>1, <1>2, <1>3, <1>4 DEF Counts, Events

LEMMA FramesInType ==
  ASSUME NEW s \in Seq(Events)
  PROVE  FramesIn(s) \in Nat
  BY FramesInSum, SumType

LEMMA FramesInEmpty == FramesIn(<<>>) = 0
<1>1. <<>> \in Seq(Events) /\ 1 .. Len(<<>>) = {}
  BY EmptySeq
<1>2. FramesIn(<<>>) = SumOf(Counts(<<>>), {})
  BY <1>1, FramesInSum
<1> QED
  BY <1>2, SumUnfold, FS_EmptySet

LEMMA FramesInAppend ==
  ASSUME NEW s \in Seq(Events), NEW e \in Events
  PROVE  FramesIn(Append(s, e)) = FramesIn(s) + e.frame_count
<1> DEFINE t == Append(s, e)
           last == Len(s) + 1
<1>1. /\ t \in Seq(Events) /\ Len(t) = last
      /\ \A n \in 1 .. Len(s) : t[n] = s[n]
      /\ t[last] = e
  BY AppendProperties
<1>2. Len(s) \in Nat /\ 1 .. Len(t) = (1 .. Len(s)) \cup {last} /\ last \notin 1 .. Len(s)
      /\ last \in 1 .. Len(t)
  BY <1>1, LenProperties
<1> HIDE DEF t, last
<1>3. /\ IsFiniteSet(1 .. Len(s))
      /\ \A n \in 1 .. Len(s) : Counts(s)[n] \in Nat /\ Counts(s)[n] = s[n].frame_count
  BY FramesInSum
<1>4. \A n \in 1 .. Len(t) : Counts(t)[n] = t[n].frame_count /\ Counts(t)[n] \in Nat
  BY <1>1, FramesInSum
<1>5. Counts(t)[last] \in Nat /\ Counts(t)[last] = e.frame_count
  BY <1>1, <1>2, <1>4
<1>6. \A n \in 1 .. Len(s) : Counts(s)[n] \in Nat /\ Counts(t)[n] = Counts(s)[n]
  BY <1>1, <1>2, <1>3, <1>4
<1>7. SumOf(Counts(t), (1 .. Len(s)) \cup {last}) = SumOf(Counts(s), 1 .. Len(s)) + Counts(t)[last]
  <2> DEFINE S == 1 .. Len(s)
  <2>1. IsFiniteSet(S) /\ last \notin S /\ \A n \in S : Counts(s)[n] \in Nat /\ Counts(t)[n] = Counts(s)[n]
    BY <1>2, <1>3, <1>6
  <2> HIDE DEF S
  <2>2. SumOf(Counts(t), S \cup {last}) = SumOf(Counts(s), S) + Counts(t)[last]
    BY <1>5, <2>1, SumAdd
  <2> QED
    BY <2>2 DEF S
<1>8. FramesIn(t) = FramesIn(s) + e.frame_count
  BY <1>1, <1>2, <1>5, <1>7, FramesInSum
<1> QED
  BY <1>8 DEF t

\* The first event may be taken away.
LEMMA FramesInTail ==
  ASSUME NEW s \in Seq(Events), s # <<>>
  PROVE  FramesIn(s) = Head(s).frame_count + FramesIn(Tail(s))
<1> DEFINE first(t) == Head(t).frame_count
           Splits(t) == FramesIn(t) = first(t) + FramesIn(Tail(t))
           Bad == {n \in Nat : \E t \in Seq(Events) : t # <<>> /\ Len(t) = n /\ ~ Splits(t)}
<1>1. ASSUME Bad # {} PROVE FALSE
  <2>1. PICK n \in Bad : \A m \in Bad : ~ (<<m, n>> \in OpToRel(<, Nat))
    <3>1. Bad \subseteq Nat
      OBVIOUS
    <3> HIDE DEF Bad
    <3> QED
      BY <1>1, <3>1, NatLessThanWellFounded, WFMin
  <2>2. PICK t \in Seq(Events) : t # <<>> /\ Len(t) = n /\ ~ Splits(t)
    BY <2>1
  <2>3. PICK u \in Seq(Events), e \in Events : t = Append(u, e)
    BY <2>2, SequenceEmptyOrAppend
  <2>4. Len(u) \in Nat /\ Len(u) + 1 = n /\ e.frame_count \in Nat
    BY <2>2, <2>3, AppendProperties, LenProperties DEF Events
  <2>5. /\ Head(t) = IF u = <<>> THEN e ELSE Head(u)
        /\ Tail(t) = IF u = <<>> THEN <<>> ELSE Append(Tail(u), e)
    BY <2>3, HeadTailAppend
  <2>6. FramesIn(t) = FramesIn(u) + e.frame_count
    BY <2>3, FramesInAppend
  <2>7. CASE u = <<>>
    <3>1. first(t) = e.frame_count /\ Tail(t) = <<>>
      BY <2>5, <2>7
    <3>2. FramesIn(t) # first(t) + FramesIn(Tail(t))
      BY <2>2
    <3>3. FramesIn(u) = 0 /\ FramesIn(Tail(t)) = 0
      BY <2>7, <3>1, FramesInEmpty
    <3> HIDE DEF first
    <3> QED
      BY <2>4, <2>6, <3>1, <3>2, <3>3
  <2>8. CASE u # <<>>
    <3>1. Splits(u)
      <4>1. <<Len(u), n>> \in OpToRel(<, Nat)
        BY <2>1, <2>4 DEF OpToRel
      <4>2. Len(u) \notin Bad
        BY <2>1, <4>1
      <4> QED
        BY <2>4, <2>8, <4>2
    <3>2. Head(u) \in Events /\ Tail(u) \in Seq(Events)
      BY <2>8, HeadTailProperties
    <3>3. FramesIn(Append(Tail(u), e)) = FramesIn(Tail(u)) + e.frame_count
      BY <3>2, FramesInAppend
    <3>4. FramesIn(Tail(u)) \in Nat /\ Head(u).frame_count \in Nat
      BY <3>2, FramesInType DEF Events
    <3>5. Head(t) = Head(u) /\ Tail(t) = Append(Tail(u), e)
      BY <2>5, <2>8
    <3>6. first(t) = first(u) /\ first(u) \in Nat
      BY <3>4, <3>5
    <3>7. FramesIn(u) = first(u) + FramesIn(Tail(u)) /\ FramesIn(t) # first(t) + FramesIn(Tail(t))
      BY <2>2, <3>1
    <3>8. FramesIn(Tail(t)) = FramesIn(Tail(u)) + e.frame_count
      BY <3>3, <3>5
    <3> HIDE DEF first, Splits
    <3> QED
      BY <2>4, <2>6, <3>4, <3>6, <3>7, <3>8
  <2> QED
    BY <2>7, <2>8
<1>2. Len(s) \notin Bad /\ Len(s) \in Nat
  BY <1>1, LenProperties
<1> QED
  BY <1>2

-----------------------------------------------------------------------------
(* Steps that leave a part of the state alone.                             *)

LEMMA SameGaps ==
  ASSUME QueueOrdered, GapsCounted,
         UNCHANGED <<next_seq, ring_full_drops>>, Queue' = Queue,
         metrics'.seq_gaps = metrics.seq_gaps,
         \A i \in Objects : Active(i)' => /\ Active(i)
                                          /\ objects'[i].id = objects[i].id
                                          /\ objects'[i].last_seq = objects[i].last_seq
  PROVE  QueueOrdered' /\ GapsCounted'
<1>1. QueueOrdered'
  BY DEF QueueOrdered
<1>2. OfferedPairs' = OfferedPairs
  BY DEF OfferedPairs
<1>3. PICK shed \in SUBSET OfferedPairs : \E missed \in SUBSET shed :
        /\ IsFiniteSet(shed) /\ Cardinality(shed) = ring_full_drops
        /\ Cardinality(missed) = metrics.seq_gaps
        /\ PassedBy(shed) /\ MissedBefore(missed)
  BY DEF GapsCounted
<1>4. PICK missed \in SUBSET shed :
        /\ IsFiniteSet(shed) /\ Cardinality(shed) = ring_full_drops
        /\ Cardinality(missed) = metrics.seq_gaps
        /\ PassedBy(shed) /\ MissedBefore(missed)
  BY <1>3
<1>5. \A pair : (Past(pair)' <=> Past(pair)) /\ (Queued(pair)' <=> Queued(pair))
  BY DEF Past, Queued
<1>6. PassedBy(shed)'
  BY <1>2, <1>4, <1>5 DEF PassedBy
<1>7. MissedBefore(missed)'
  BY <1>4, <1>5 DEF MissedBefore
<1> QED
  BY <1>1, <1>2, <1>4, <1>6, <1>7 DEF GapsCounted

LEMMA SameChunks ==
  ASSUME ChunksAccounted, NumbersCounted, UNCHANGED <<buffered, events, published>>,
         metrics'.chunks = metrics.chunks, metrics'.event_drops = metrics.event_drops
  PROVE  ChunksAccounted' /\ NumbersCounted'
  BY DEF ChunksAccounted, NumbersCounted, Out

Holds(i) == objects[i].chunker.held + objects[i].chunker.kept
Held == SumOf([i \in Objects |-> Holds(i)], Objects)

LEMMA HoldsType ==
  ASSUME TypeOK, NEW i \in Objects
  PROVE  /\ objects[i].chunker \in ChunkerSet
         /\ objects[i].chunker.held \in Nat /\ objects[i].chunker.kept \in Nat
         /\ Holds(i) \in Nat
<1>1. objects[i].chunker \in ChunkerSet
  BY DEF TypeOK, ObjectSet, ChunkerSet
<1> QED
  BY <1>1, Constants DEF ChunkerSet, Holds

LEMMA FiniteObjects == IsFiniteSet(Objects)
  BY Constants, FS_Interval DEF Objects

LEMMA HeldType ==
  ASSUME TypeOK
  PROVE  Held \in Nat
<1>1. \A i \in Objects : [j \in Objects |-> Holds(j)][i] \in Nat
  BY HoldsType
<1> HIDE DEF Holds
<1> QED
  BY <1>1, FiniteObjects, SumType DEF Held

Shipped == published.frames + FramesIn(buffered) + FramesIn(events) + Held

LEMMA ShippedOnce ==
  /\ FramesShippedOnce <=> Shipped <= metrics.frames
  /\ FramesShippedOnce' <=> Shipped' <= metrics'.frames
  BY DEF FramesShippedOnce, SumOver, Held, Holds, SumOf, Shipped

LEMMA SameHeld ==
  ASSUME \A i \in Objects : objects'[i].chunker = objects[i].chunker
  PROVE  Held' = Held
<1>1. [i \in Objects |-> Holds(i)]' = [i \in Objects |-> Holds(i)]
  BY DEF Holds
<1> QED
  BY <1>1 DEF Held

LEMMA SameShipped ==
  ASSUME FramesShippedOnce, UNCHANGED <<buffered, events, published>>,
         metrics'.frames = metrics.frames,
         \A i \in Objects : objects'[i].chunker = objects[i].chunker
  PROVE  FramesShippedOnce'
<1>1. Held' = Held
  BY SameHeld
<1>2. Shipped' = Shipped
  BY <1>1 DEF Shipped
<1> QED
  BY <1>2, ShippedOnce

LEMMA OfferedSum ==
  /\ Offered = SumOf(next_seq, Ids)
  /\ Offered' = SumOf(next_seq', Ids)
<1>1. \A f, S : SumOver(f, S) = SumOf(f, S)
  BY DEF SumOver, SumOf
<1>2. Offered = SumOver(next_seq, Ids) /\ Offered' = SumOver(next_seq', Ids)
  BY DEF Offered
<1> QED
  BY <1>1, <1>2

\* The queue is a sequence of frames.
LEMMA QueueType ==
  ASSUME TypeOK
  PROVE  /\ hand \in Seq(Frames) /\ frames \in Seq(Frames)
         /\ Queue \in Seq(Frames) /\ Len(Queue) \in Nat
         /\ Len(Queue) = Len(hand) + Len(frames)
         /\ \A n \in 1 .. Len(Queue) : Queue[n].id \in Ids /\ Queue[n].seq \in Nat
<1>1. hand \in Seq(Frames) /\ frames \in Seq(Frames)
  BY DEF TypeOK
<1>2. Queue \in Seq(Frames) /\ Len(Queue) = Len(hand) + Len(frames)
  BY <1>1, ConcatProperties DEF Queue
<1>3. \A n \in 1 .. Len(Queue) : Queue[n] \in Frames
  BY <1>2, ElementOfSeq
<1> QED
  BY <1>1, <1>2, <1>3, LenProperties DEF Frames

LEMMA PairsOffered ==
  ASSUME TypeOK, NEW pair
  PROVE  pair \in OfferedPairs <=>
           \E id \in Ids, n \in Nat : pair = <<id, n>> /\ n < next_seq[id]
  BY DEF OfferedPairs, TypeOK

LEMMA ConcatAppend ==
  ASSUME NEW S, NEW s \in Seq(S), NEW t \in Seq(S), NEW e \in S
  PROVE  s \o Append(t, e) = Append(s \o t, e)
<1>1. Append(t, e) = t \o <<e>> /\ <<e>> \in Seq(S)
  BY AppendIsConcat
<1>2. s \o t \in Seq(S)
  BY ConcatProperties
<1>3. Append(s \o t, e) = (s \o t) \o <<e>>
  BY <1>2, AppendIsConcat
<1>4. (s \o t) \o <<e>> = s \o (t \o <<e>>)
  BY <1>1, ConcatAssociative
<1> QED
  BY <1>1, <1>3, <1>4

-----------------------------------------------------------------------------
(* The initial state.                                                      *)

LEMMA InitPathInv == Init => PathInv
<1> SUFFICES ASSUME Init PROVE PathInv
  OBVIOUS
<1>1. TypeOK
  <2>1. NewObject \in ObjectSet
    <3>1. NewChunker \in ChunkerSet
      BY Constants DEF NewChunker, ChunkerSet
    <3> QED
      BY <3>1, Constants DEF NewObject, ObjectSet, ChunkerSet
  <2>2. NoMetrics \in MetricsSet
    BY DEF NoMetrics, MetricsSet
  <2>3. objects \in [Objects -> ObjectSet]
    BY <2>1 DEF Init
  <2>4. /\ frames \in Seq(Frames) /\ Len(frames) <= FrameCapacity
        /\ hand \in Seq(Frames) /\ Len(hand) <= 1
        /\ events \in Seq(Events) /\ Len(events) <= EventCapacity
        /\ buffered \in Seq(Events) /\ Len(buffered) <= StdoutEvents
    BY EmptySeq, Constants DEF Init
  <2>5. next_seq \in [Ids -> Nat] /\ published \in [chunks : Nat, frames : Nat, last : Nat]
    BY DEF Init
  <2> QED
    BY <2>2, <2>3, <2>4, <2>5 DEF Init, TypeOK
<1>2. \A i \in Objects :
        ~ Active(i) /\ objects[i].chunker = NewChunker /\ ~ objects[i].chunker.open
  BY DEF Init, Active, NewObject, NewChunker
<1>3. FramesAccounted
  <2>1. Offered = 0
    BY OfferedSum, Constants, SumZero DEF Init
  <2> QED
    BY <2>1 DEF Init, FramesAccounted, NoMetrics
<1>4. Control /\ SessionsSound
  BY <1>2 DEF Init, Control, SessionsSound
<1>5. Out = <<>> /\ Len(Out) = 0 /\ Queue = <<>> /\ Len(Queue) = 0
  BY DEF Init, Out, Queue
<1>6. ChunksAccounted /\ NumbersCounted
  BY <1>5 DEF Init, ChunksAccounted, NumbersCounted, NoMetrics, Out
<1>7. FramesShippedOnce
  <2>1. Held = 0
    <3>1. \A i \in Objects : [j \in Objects |-> Holds(j)][i] = 0
      BY <1>2 DEF Holds, NewChunker
    <3> QED
      BY <3>1, FiniteObjects, SumZero DEF Held
  <2>2. Shipped = 0 /\ metrics.frames = 0
    BY <2>1, FramesInEmpty DEF Init, Shipped, NoMetrics
  <2> QED
    BY <2>2, ShippedOnce
<1>8. QueueOrdered
  BY <1>5 DEF QueueOrdered
<1>9. GapsCounted
  <2>1. OfferedPairs = {}
    <3>1. \A pair : pair \notin OfferedPairs
      BY <1>1, PairsOffered DEF Init
    <3> QED
      BY <3>1
  <2>2. PassedBy({}) /\ MissedBefore({})
    BY <2>1 DEF PassedBy, MissedBefore
  <2>3. IsFiniteSet({}) /\ Cardinality({}) = 0
    BY FS_EmptySet
  <2>4. ring_full_drops = 0 /\ metrics.seq_gaps = 0
    BY DEF Init, NoMetrics
  <2> QED
    BY <2>1, <2>2, <2>3, <2>4 DEF GapsCounted
<1> QED
  BY <1>1, <1>3, <1>4, <1>6, <1>7, <1>8, <1>9 DEF PathInv

-----------------------------------------------------------------------------
(* The feeder.                                                             *)

LEMMA FeedStep ==
  ASSUME PathInv, NEW id \in Ids, Feed(id)
  PROVE  PathInv'
<1>0. PICK next \in Nat : next = next_seq[id]
  BY DEF PathInv, TypeOK
<1> DEFINE frame == [id |-> id, seq |-> next]
<1>1. TypeOK
  BY DEF PathInv
<1>2. /\ next \in Nat /\ ring_full_drops \in Nat
      /\ frame \in Frames /\ frame.id = id /\ frame.seq = next
  BY <1>1 DEF TypeOK, Frames
<1>3. /\ next_seq' = [next_seq EXCEPT ![id] = next + 1]
      /\ UNCHANGED <<g_running, hot, table, pub>>
      /\ \/ /\ RoomForFrame
            /\ frames' = Append(frames, frame) /\ ring_full_drops' = ring_full_drops
         \/ /\ ~ RoomForFrame
            /\ frames' = frames /\ ring_full_drops' = ring_full_drops + 1
  BY <1>0 DEF Feed
<1> HIDE DEF frame
<1>4. /\ Append(frames, frame) \in Seq(Frames)
      /\ Len(Append(frames, frame)) = Len(frames) + 1
      /\ Len(frames) \in Nat
  BY <1>1, <1>2, AppendProperties, LenProperties DEF TypeOK
<1>5. next_seq' \in [Ids -> Nat] /\ next_seq'[id] = next + 1
      /\ \A k \in Ids : k # id => next_seq'[k] = next_seq[k]
  BY <1>0, <1>1, <1>2, <1>3 DEF TypeOK
<1>6. TypeOK'
  <2>1. frames' \in Seq(Frames) /\ Len(frames') <= FrameCapacity /\ ring_full_drops' \in Nat
    <3>1. frames \in Seq(Frames) /\ Len(frames) <= FrameCapacity /\ FrameCapacity \in Nat
      BY <1>1, Constants DEF TypeOK
    <3>2. CASE RoomForFrame
      <4>1. Len(frames) < FrameCapacity /\ frames' = Append(frames, frame)
            /\ ring_full_drops' = ring_full_drops
        BY <1>3, <3>2 DEF RoomForFrame
      <4> QED
        BY <1>2, <1>4, <3>1, <4>1
    <3>3. CASE ~ RoomForFrame
      <4>1. frames' = frames /\ ring_full_drops' = ring_full_drops + 1
        BY <1>3, <3>3
      <4> QED
        BY <1>2, <3>1, <4>1
    <3> QED
      BY <3>2, <3>3
  <2> QED
    BY <1>1, <1>3, <1>5, <2>1 DEF TypeOK, hot, table, pub
<1>7. FramesAccounted'
  <2>1. /\ SumOf(next_seq, Ids) \in Nat /\ SumOf(next_seq', Ids) \in Nat
        /\ SumOf(next_seq', Ids) + next = SumOf(next_seq, Ids) + (next + 1)
    <3>1. \A k \in Ids : next_seq[k] \in Nat /\ next_seq'[k] \in Nat
      BY <1>1, <1>5 DEF TypeOK
    <3>2. \A k \in Ids \ {id} : next_seq'[k] = next_seq[k]
      BY <1>5
    <3>3. IsFiniteSet(Ids)
      BY Constants
    <3> QED
      BY <1>0, <1>5, <3>1, <3>2, <3>3, SumUpdate
  <2>2. Offered' = Offered + 1
    BY <1>2, <2>1, OfferedSum
  <2>3. /\ Offered = ring_full_drops + Len(frames) + Len(hand) + metrics.frames
                       + metrics.frames_refused
        /\ Len(hand) \in Nat /\ metrics.frames \in Nat /\ metrics.frames_refused \in Nat
    BY <1>1, LenProperties DEF PathInv, FramesAccounted, TypeOK, MetricsSet
  <2>4. ring_full_drops' + Len(frames') = ring_full_drops + Len(frames) + 1
    <3>1. CASE RoomForFrame
      BY <1>2, <1>3, <1>4, <3>1
    <3>2. CASE ~ RoomForFrame
      BY <1>2, <1>3, <1>4, <3>2
    <3> QED
      BY <3>1, <3>2
  <2>5. hand' = hand /\ metrics' = metrics /\ ring_full_drops' \in Nat /\ Len(frames') \in Nat
    BY <1>2, <1>3, <1>4 DEF hot, table
  <2> QED
    BY <1>2, <1>4, <2>2, <2>3, <2>4, <2>5, SMTT(30) DEF FramesAccounted
<1>8. Control' /\ SessionsSound'
  BY <1>3 DEF PathInv, Control, SessionsSound, Active, hot, table, pub
<1>9. ChunksAccounted' /\ NumbersCounted' /\ FramesShippedOnce'
  BY <1>3, SameChunks, SameShipped DEF PathInv, table, pub
<1>10. /\ Queue \in Seq(Frames) /\ Len(Queue) \in Nat
       /\ \A n \in 1 .. Len(Queue) :
            Queue[n].id \in Ids /\ Queue[n].seq \in Nat /\ Queue[n].seq < next_seq[Queue[n].id]
       /\ \A m, n \in 1 .. Len(Queue) :
            m < n /\ Queue[m].id = Queue[n].id => Queue[m].seq < Queue[n].seq
  BY <1>1, QueueType DEF PathInv, QueueOrdered
<1>11. PICK shed \in SUBSET OfferedPairs : \E missed \in SUBSET shed :
         /\ IsFiniteSet(shed) /\ Cardinality(shed) = ring_full_drops
         /\ Cardinality(missed) = metrics.seq_gaps
         /\ PassedBy(shed) /\ MissedBefore(missed)
  BY DEF PathInv, GapsCounted
<1>12. PICK missed \in SUBSET shed :
         /\ IsFiniteSet(shed) /\ Cardinality(shed) = ring_full_drops
         /\ Cardinality(missed) = metrics.seq_gaps
         /\ PassedBy(shed) /\ MissedBefore(missed)
  BY <1>11
<1> DEFINE new == <<id, next>>
<1>13. /\ new \notin OfferedPairs
       /\ \A pair : pair \in OfferedPairs' <=> pair \in OfferedPairs \/ pair = new
  <2>1. \A pair : pair \in OfferedPairs' <=>
                    \E k \in Ids, n \in Nat : pair = <<k, n>> /\ n < next_seq'[k]
    BY <1>5 DEF OfferedPairs
  <2>2. ASSUME NEW k \in Ids, NEW n \in Nat
        PROVE  n < next_seq'[k] <=> n < next_seq[k] \/ (k = id /\ n = next)
    <3>1. next_seq[k] \in Nat /\ next_seq'[k] \in Nat
      BY <1>1, <1>5 DEF TypeOK
    <3> QED
      BY <1>0, <1>2, <1>5, <3>1
  <2> QED
    BY <1>0, <1>1, <1>2, <2>1, <2>2, PairsOffered
<1>14. ASSUME NEW pair \in OfferedPairs
       PROVE  pair[1] = id => pair[2] < next
  BY <1>0, <1>1, PairsOffered
<1>15. UNCHANGED <<objects, metrics, hand>>
  BY <1>3 DEF hot, table
<1>16. CASE RoomForFrame
  <2>1. Queue' = Append(Queue, frame)
    <3>1. hand \in Seq(Frames) /\ frames \in Seq(Frames)
      BY <1>1, QueueType
    <3>2. hand \o Append(frames, frame) = Append(hand \o frames, frame)
      BY <1>2, <3>1, ConcatAppend
    <3> QED
      BY <1>3, <1>15, <1>16, <3>2 DEF Queue
  <2>2. /\ Len(Queue') = Len(Queue) + 1
        /\ \A n \in 1 .. Len(Queue) : Queue'[n] = Queue[n]
        /\ Queue'[Len(Queue) + 1].id = id /\ Queue'[Len(Queue) + 1].seq = next
    BY <1>2, <1>10, <2>1, AppendProperties
  <2>3. \A n \in 1 .. Len(Queue') : n \in 1 .. Len(Queue) \/ n = Len(Queue) + 1
    BY <1>10, <2>2
  <2>4. QueueOrdered'
    <3>1. ASSUME NEW n \in 1 .. Len(Queue')
          PROVE  Queue'[n].seq < next_seq'[Queue'[n].id]
      <4>1. CASE n \in 1 .. Len(Queue)
        <5>1. Queue'[n] = Queue[n] /\ Queue[n].id \in Ids /\ Queue[n].seq \in Nat
              /\ Queue[n].seq < next_seq[Queue[n].id]
          BY <1>10, <2>2, <4>1
        <5>2. next_seq[Queue[n].id] \in Nat
          BY <1>1, <5>1 DEF TypeOK
        <5> QED
          BY <1>0, <1>2, <1>5, <5>1, <5>2
      <4>2. CASE n = Len(Queue) + 1
        BY <1>2, <1>5, <2>2, <4>2
      <4> QED
        BY <2>3, <4>1, <4>2
    <3>2. ASSUME NEW m \in 1 .. Len(Queue'), NEW n \in 1 .. Len(Queue'),
                 m < n, Queue'[m].id = Queue'[n].id
          PROVE  Queue'[m].seq < Queue'[n].seq
      <4>1. m \in 1 .. Len(Queue)
        BY <1>10, <2>2, <3>2
      <4>2. CASE n \in 1 .. Len(Queue)
        BY <1>10, <2>2, <3>2, <4>1, <4>2
      <4>3. CASE n = Len(Queue) + 1
        <5>1. Queue'[m] = Queue[m] /\ Queue[m].id = id /\ Queue'[n].seq = next
          BY <2>2, <3>2, <4>1, <4>3
        <5> QED
          BY <1>0, <1>10, <4>1, <5>1
      <4> QED
        BY <2>3, <4>2, <4>3
    <3> QED
      BY <3>1, <3>2 DEF QueueOrdered
  <2>5. Queued(new)'
    <3>1. Len(Queue) + 1 \in 1 .. Len(Queue')
      BY <1>10, <2>2
    <3> QED
      BY <2>2, <3>1 DEF Queued
  <2>6. \A pair : Queued(pair) => Queued(pair)'
    BY <1>10, <2>2 DEF Queued
  <2>7. ASSUME NEW pair \in OfferedPairs, Past(pair)
        PROVE  Past(pair)'
    BY <1>14, <2>2, <2>3, <2>7 DEF Past
  <2>8. PassedBy(shed)'
    BY <1>12, <1>13, <1>15, <2>5, <2>6, <2>7 DEF PassedBy, Active
  <2>9. MissedBefore(missed)'
    BY <1>12, <1>15, <2>7 DEF MissedBefore, Active
  <2>10. GapsCounted'
    <3>1. shed \in SUBSET OfferedPairs'
      BY <1>13
    <3>2. ring_full_drops' = ring_full_drops
      BY <1>3, <1>16
    <3> QED
      BY <1>12, <1>15, <2>8, <2>9, <3>1, <3>2 DEF GapsCounted
  <2> QED
    BY <1>6, <1>7, <1>8, <1>9, <2>4, <2>10 DEF PathInv
<1>17. CASE ~ RoomForFrame
  <2>1. Queue' = Queue
    BY <1>3, <1>15, <1>17 DEF Queue
  <2>2. QueueOrdered'
    <3>1. ASSUME NEW k \in Ids
          PROVE  next_seq[k] <= next_seq'[k] /\ next_seq[k] \in Nat /\ next_seq'[k] \in Nat
      <4>1. next_seq[k] \in Nat /\ next_seq'[k] \in Nat
        BY <1>1, <1>5 DEF TypeOK
      <4> QED
        BY <1>0, <1>2, <1>5, <4>1
    <3>2. \A n \in 1 .. Len(Queue) : Queue[n].seq < next_seq'[Queue[n].id]
      BY <1>10, <3>1
    <3> QED
      BY <1>10, <2>1, <3>2 DEF QueueOrdered
  <2>3. \A pair : (Past(pair)' <=> Past(pair)) /\ (Queued(pair)' <=> Queued(pair))
    BY <2>1 DEF Past, Queued
  <2> DEFINE more == shed \cup {new}
  <2>4. PassedBy(more)'
    BY <1>12, <1>13, <1>15, <2>3 DEF PassedBy, Active
  <2>5. MissedBefore(missed)'
    BY <1>12, <1>15, <2>3 DEF MissedBefore, Active
  <2>6. IsFiniteSet(more) /\ Cardinality(more) = ring_full_drops + 1
    BY <1>12, <1>13, FS_AddElement
  <2>7. more \in SUBSET OfferedPairs' /\ missed \in SUBSET more
    BY <1>13
  <2>8. ring_full_drops' = ring_full_drops + 1 /\ metrics'.seq_gaps = metrics.seq_gaps
    BY <1>3, <1>15, <1>17
  <2>9. GapsCounted'
    <3> HIDE DEF more
    <3> QED
      BY <1>12, <2>4, <2>5, <2>6, <2>7, <2>8 DEF GapsCounted
  <2> QED
    BY <1>6, <1>7, <1>8, <1>9, <2>2, <2>9 DEF PathInv
<1> QED
  BY <1>16, <1>17

-----------------------------------------------------------------------------
(* Time, signals, and the steps of the hot thread that move no frame.      *)

LEMMA MoveOn ==
  ASSUME PathInv, TypeOK', Control', UNCHANGED <<feed, hand, table, pub>>
  PROVE  PathInv'
<1>1. FramesAccounted'
  <2>1. Offered' = Offered
    BY OfferedSum DEF feed
  <2> QED
    BY <2>1 DEF PathInv, FramesAccounted, feed, table
<1>2. SessionsSound'
  BY DEF PathInv, SessionsSound, Active, table
<1>3. ChunksAccounted' /\ NumbersCounted' /\ FramesShippedOnce'
  BY SameChunks, SameShipped DEF PathInv, table, pub
<1>4. QueueOrdered' /\ GapsCounted'
  <2>1. Queue' = Queue
    BY DEF Queue, feed
  <2> QED
    BY <2>1, SameGaps DEF PathInv, feed, table, Active
<1> QED
  BY <1>1, <1>2, <1>3, <1>4 DEF PathInv

LEMMA ControlSteps ==
  ASSUME PathInv, Signal \/ Setup \/ LoopTop \/ LoopEnd \/ SweepEnd \/ StopIngest
         \/ StoreDone \/ Join
  PROVE  PathInv'
<1>1. TypeOK /\ Control
  BY DEF PathInv
<1>2. CASE Signal
  <2>1. TypeOK' /\ Control'
    BY <1>1, <1>2 DEF TypeOK, Control, Active, Signal, feed, hot, table, pub
  <2> QED
    BY <1>2, <2>1, MoveOn DEF Signal, hot
<1>3. CASE Setup
  <2>1. TypeOK' /\ Control'
    BY <1>1, <1>3 DEF TypeOK, Control, Active, Setup, feed, hot, table, pub
  <2> QED
    BY <1>3, <2>1, MoveOn DEF Setup
<1>4. CASE LoopTop
  <2>1. TypeOK'
    BY <1>1, <1>4 DEF TypeOK, LoopTop, LoopTop_ForEver, Idle, feed, table, pub
  <2>2. Control'
    BY <1>1, <1>4 DEF Control, Active, LoopTop, LoopTop_ForEver, Idle, feed, table, pub
  <2> QED
    BY <1>4, <2>1, <2>2, MoveOn DEF LoopTop, LoopTop_ForEver
<1>5. CASE LoopEnd
  <2>1. TypeOK'
    BY <1>1, <1>5 DEF TypeOK, LoopEnd, feed, table, pub
  <2>2. Control'
    BY <1>1, <1>5 DEF Control, Active, LoopEnd, feed, table, pub
  <2> QED
    BY <1>5, <2>1, <2>2, MoveOn DEF LoopEnd
<1>6. CASE SweepEnd
  <2>1. TypeOK' /\ Control'
    BY <1>1, <1>6 DEF TypeOK, Control, Active, SweepEnd, feed, table, pub
  <2> QED
    BY <1>6, <2>1, MoveOn DEF SweepEnd
<1>7. CASE StopIngest
  <2>1. TypeOK' /\ Control'
    BY <1>1, <1>7 DEF TypeOK, Control, Active, StopIngest, feed, table, pub
  <2> QED
    BY <1>7, <2>1, MoveOn DEF StopIngest
<1>8. CASE StoreDone
  <2>1. TypeOK' /\ Control'
    BY <1>1, <1>8 DEF TypeOK, Control, Active, StoreDone, feed, table, pub
  <2> QED
    BY <1>8, <2>1, MoveOn DEF StoreDone
<1>9. CASE Join
  <2>1. TypeOK' /\ Control'
    BY <1>1, <1>9 DEF TypeOK, Control, Active, Join, feed, table, pub
  <2> QED
    BY <1>9, <2>1, MoveOn DEF Join
<1> QED
  BY <1>2, <1>3, <1>4, <1>5, <1>6, <1>7, <1>8, <1>9

LEMMA TickStep ==
  ASSUME PathInv, Tick
  PROVE  PathInv'
<1>1. TypeOK /\ Control
  BY DEF PathInv
<1>2. UNCHANGED <<g_running, feed, hot, metrics, events, pub>>
  BY DEF Tick
<1>3. ASSUME NEW i \in Objects
      PROVE  /\ objects'[i] \in ObjectSet
             /\ objects'[i].active = objects[i].active /\ objects'[i].id = objects[i].id
             /\ objects'[i].last_seq = objects[i].last_seq
             /\ objects'[i].chunker = objects[i].chunker
  <2>1. objects[i] \in ObjectSet
    BY <1>1 DEF TypeOK
  <2>2. CASE Active(i) /\ objects[i].age < IdleLimit
    <3>1. objects'[i] = [objects[i] EXCEPT !.age = objects[i].age + 1]
      BY <2>1, <2>2 DEF Tick, ObjectSet
    <3>2. objects[i].age + 1 \in 0 .. IdleLimit
      BY <2>1, <2>2, Constants DEF ObjectSet
    <3> QED
      BY <2>1, <3>1, <3>2 DEF ObjectSet
  <2>3. CASE ~ (Active(i) /\ objects[i].age < IdleLimit)
    BY <2>1, <2>3 DEF Tick
  <2> QED
    BY <2>2, <2>3
<1>4. TypeOK'
  <2>1. objects' \in [Objects -> ObjectSet]
    <3>1. objects' = [i \in Objects |-> objects'[i]]
      BY DEF Tick
    <3> QED
      BY <1>3, <3>1
  <2> QED
    BY <1>1, <1>2, <2>1 DEF TypeOK, feed, hot, pub
<1>5. \A i \in Objects : Active(i)' <=> Active(i)
  BY <1>3 DEF Active
<1>6. due \subseteq Objects
  BY <1>1 DEF TypeOK
<1>7. Control'
  BY <1>1, <1>2, <1>5, <1>6 DEF Control, feed, hot, pub
<1>8. SessionsSound'
  BY <1>3, <1>5 DEF PathInv, SessionsSound
<1>9. FramesAccounted'
  <2>1. Offered' = Offered
    BY <1>2, OfferedSum DEF feed
  <2> QED
    BY <1>2, <2>1 DEF PathInv, FramesAccounted, feed, hot
<1>10. ChunksAccounted' /\ NumbersCounted' /\ FramesShippedOnce'
  BY <1>2, <1>3, SameChunks, SameShipped DEF PathInv, pub
<1>11. QueueOrdered' /\ GapsCounted'
  <2>1. Queue' = Queue
    BY <1>2 DEF Queue, feed, hot
  <2> QED
    BY <1>2, <1>3, <1>5, <2>1, SameGaps DEF PathInv, feed
<1> QED
  BY <1>4, <1>7, <1>8, <1>9, <1>10, <1>11 DEF PathInv

-----------------------------------------------------------------------------
(* The publisher.                                                          *)

LEMMA OutType ==
  ASSUME TypeOK
  PROVE  /\ Out \in Seq(Events) /\ Len(Out) \in Nat
         /\ Len(Out) = Len(buffered) + Len(events)
         /\ Len(buffered) \in Nat /\ Len(events) \in Nat
         /\ \A n \in 1 .. Len(Out) : Out[n].number \in Nat
<1>1. buffered \in Seq(Events) /\ events \in Seq(Events)
  BY DEF TypeOK
<1>2. Out \in Seq(Events) /\ Len(Out) = Len(buffered) + Len(events)
  BY <1>1, ConcatProperties DEF Out
<1>3. \A n \in 1 .. Len(Out) : Out[n] \in Events
  BY <1>2, ElementOfSeq
<1> QED
  BY <1>1, <1>2, <1>3, LenProperties DEF Events

\* What a publisher step leaves alone.
LEMMA PublisherFrame ==
  ASSUME PathInv, UNCHANGED others
  PROVE  /\ FramesAccounted' /\ SessionsSound' /\ QueueOrdered' /\ GapsCounted'
         /\ Held' = Held /\ UNCHANGED <<metrics, hot_pc, hot_done>>
<1>1. UNCHANGED <<g_running, feed, hot, objects, metrics>>
  BY DEF others
<1>2. FramesAccounted'
  <2>1. Offered' = Offered
    BY <1>1, OfferedSum DEF feed
  <2> QED
    BY <1>1, <2>1 DEF PathInv, FramesAccounted, feed, hot
<1>3. SessionsSound'
  BY <1>1 DEF PathInv, SessionsSound, Active
<1>4. QueueOrdered' /\ GapsCounted'
  <2>1. Queue' = Queue
    BY <1>1 DEF Queue, feed, hot
  <2> QED
    BY <1>1, <2>1, SameGaps DEF PathInv, feed, Active
<1>5. Held' = Held
  BY <1>1, SameHeld
<1> QED
  BY <1>1, <1>2, <1>3, <1>4, <1>5 DEF hot

\* Once the ring has drained, a flush publishes what is left of Out.
LEMMA FlushDrained ==
  ASSUME PathInv, UNCHANGED <<others, events>>, Flush, events = <<>>
  PROVE  /\ ChunksAccounted' /\ NumbersCounted' /\ FramesShippedOnce'
         /\ buffered' = <<>> /\ published' \in [chunks : Nat, frames : Nat, last : Nat]
<1> DEFINE last == IF buffered = <<>> THEN published.last ELSE buffered[Len(buffered)].number
<1>1. TypeOK
  BY DEF PathInv
<1>2. /\ published' = [chunks |-> published.chunks + Len(buffered),
                       frames |-> published.frames + FramesIn(buffered), last |-> last]
      /\ buffered' = <<>>
  BY DEF Flush, Written, Last
<1>3. Out = buffered /\ Out' = <<>> /\ Len(Out') = 0
  <2>1. buffered \in Seq(Events) /\ <<>> \in Seq(Events)
    BY <1>1, EmptySeq DEF TypeOK
  <2>2. buffered \o <<>> = buffered /\ <<>> \o <<>> = <<>>
    BY <2>1, ConcatEmptySeq
  <2> QED
    BY <1>2, <2>2 DEF Out
<1>4. /\ published.chunks \in Nat /\ published.frames \in Nat /\ published.last \in Nat
      /\ Len(buffered) \in Nat /\ FramesIn(buffered) \in Nat
      /\ buffered \in Seq(Events)
      /\ metrics.chunks \in Nat /\ metrics.frames \in Nat /\ metrics.event_drops \in Nat
  BY <1>1, LenProperties, FramesInType DEF TypeOK, MetricsSet
<1>5. last \in Nat /\ last <= metrics.chunks
  <2>1. CASE buffered = <<>>
    BY <1>4, <2>1 DEF PathInv, NumbersCounted
  <2>2. CASE buffered # <<>>
    <3>1. Len(buffered) \in 1 .. Len(Out)
      BY <1>3, <1>4, <2>2, EmptySeq
    <3> QED
      BY <1>1, <1>3, <2>2, <3>1, OutType DEF PathInv, NumbersCounted
  <2> QED
    BY <2>1, <2>2
<1> HIDE DEF last
<1>6. UNCHANGED metrics /\ Held' = Held
  BY PublisherFrame
<1>7. published' \in [chunks : Nat, frames : Nat, last : Nat]
  BY <1>2, <1>4, <1>5
<1>8. NumbersCounted'
  BY <1>2, <1>3, <1>5, <1>6 DEF NumbersCounted
<1>9. ChunksAccounted'
  <2>1. metrics.chunks = published.chunks + Len(buffered) + metrics.event_drops
    BY <1>3 DEF PathInv, ChunksAccounted, Out
  <2>2. metrics'.chunks = published'.chunks + 0 + metrics'.event_drops
    BY <1>2, <1>4, <1>6, <2>1
  <2> QED
    BY <1>3, <2>2 DEF ChunksAccounted, Out
<1>10. FramesShippedOnce'
  <2>1. Shipped' = Shipped
    <3>1. FramesIn(buffered') = 0 /\ FramesIn(events') = FramesIn(events) /\ FramesIn(events) = 0
      BY <1>2, FramesInEmpty
    <3>2. Shipped' = published'.frames + FramesIn(buffered') + FramesIn(events') + Held'
      BY DEF Shipped
    <3>3. published'.frames = published.frames + FramesIn(buffered)
      BY <1>2
    <3>4. Held \in Nat
      BY <1>1, HeldType
    <3> QED
      BY <1>4, <1>6, <3>1, <3>2, <3>3, <3>4 DEF Shipped
  <2> QED
    BY <1>6, <2>1, ShippedOnce DEF PathInv
<1> QED
  BY <1>2, <1>7, <1>8, <1>9, <1>10

LEMMA MoveHead ==
  ASSUME NEW S, NEW s \in Seq(S), NEW t \in Seq(S), t # <<>>
  PROVE  Append(s, Head(t)) \o Tail(t) = s \o t
<1>1. Head(t) \in S /\ Tail(t) \in Seq(S) /\ <<Head(t)>> \in Seq(S)
  BY HeadTailProperties
<1>2. <<Head(t)>> \o Tail(t) = t
  <2> DEFINE u == <<Head(t)>> \o Tail(t)
  <2>1. /\ Len(t) \in Nat /\ Len(Tail(t)) = Len(t) - 1 /\ t[1] = Head(t)
        /\ \A n \in 1 .. Len(Tail(t)) : Tail(t)[n] = t[n + 1]
    BY HeadTailProperties, LenProperties
  <2>2. /\ u \in Seq(S) /\ Len(u) = 1 + Len(Tail(t))
        /\ \A n \in 1 .. 1 + Len(Tail(t)) :
             u[n] = IF n <= 1 THEN <<Head(t)>>[n] ELSE Tail(t)[n - 1]
    BY <1>1, ConcatProperties
  <2> HIDE DEF u
  <2>3. ASSUME NEW n \in 1 .. Len(t)
        PROVE  u[n] = t[n]
    <3>1. CASE n = 1
      BY <2>1, <2>2, <3>1
    <3>2. CASE n # 1
      <4>1. n - 1 \in 1 .. Len(Tail(t)) /\ n \in 1 .. 1 + Len(Tail(t)) /\ ~ (n <= 1)
        BY <2>1, <3>2
      <4>2. u[n] = Tail(t)[n - 1] /\ Tail(t)[n - 1] = t[(n - 1) + 1]
        BY <2>1, <2>2, <4>1
      <4>3. (n - 1) + 1 = n
        BY <2>1
      <4> QED
        BY <4>2, <4>3
    <3> QED
      BY <3>1, <3>2
  <2>4. Len(u) = Len(t)
    BY <2>1, <2>2
  <2>5. u = t
    BY <2>2, <2>3, <2>4, SeqEqual
  <2> QED
    BY <2>5 DEF u
<1>3. Append(s, Head(t)) = s \o <<Head(t)>>
  BY <1>1, AppendIsConcat
<1>4. (s \o <<Head(t)>>) \o Tail(t) = s \o (<<Head(t)>> \o Tail(t))
  BY <1>1, ConcatAssociative
<1> QED
  BY <1>2, <1>3, <1>4

\* A line printed to a buffer with room moves from the event ring to the buffer.
LEMMA LineBuffered ==
  ASSUME PathInv, UNCHANGED <<others, published>>, events # <<>>,
         events' = Tail(events), buffered' = Append(buffered, Head(events))
  PROVE  /\ buffered' \in Seq(Events) /\ Len(buffered') = Len(buffered) + 1
         /\ ChunksAccounted' /\ NumbersCounted' /\ FramesShippedOnce'
<1>1. TypeOK /\ FramesShippedOnce
  BY DEF PathInv
<1>2. UNCHANGED metrics /\ Held' = Held
  BY PublisherFrame
<1>3. events \in Seq(Events) /\ buffered \in Seq(Events)
  BY <1>1 DEF TypeOK
<1>4. Head(events) \in Events /\ Tail(events) \in Seq(Events)
  BY <1>3, HeadTailProperties
<1>5. buffered' \in Seq(Events) /\ Len(buffered') = Len(buffered) + 1
  BY <1>3, <1>4, AppendProperties
<1>6. Out' = Out
  BY <1>3, MoveHead DEF Out
<1>7. ChunksAccounted' /\ NumbersCounted'
  BY <1>2, <1>6 DEF PathInv, ChunksAccounted, NumbersCounted, Out
<1>8. FramesShippedOnce'
  <2>1. /\ FramesIn(buffered') = FramesIn(buffered) + Head(events).frame_count
        /\ FramesIn(events) = Head(events).frame_count + FramesIn(events')
    BY <1>3, <1>4, FramesInAppend, FramesInTail
  <2>2. /\ FramesIn(buffered) \in Nat /\ FramesIn(events') \in Nat
        /\ Head(events).frame_count \in Nat /\ Held \in Nat /\ published.frames \in Nat
    BY <1>1, <1>3, <1>4, FramesInType, HeldType DEF Events, TypeOK
  <2>3. Shipped' = published'.frames + FramesIn(buffered') + FramesIn(events') + Held'
    BY DEF Shipped
  <2>4. Shipped' = Shipped
    BY <1>2, <2>1, <2>2, <2>3 DEF Shipped
  <2> QED
    BY <1>1, <1>2, <2>4, ShippedOnce
<1> QED
  BY <1>5, <1>7, <1>8

\* A line printed to a full buffer: what was there is on standard output, and the
\* chunks that wait are those that were in the event ring.
LEMMA BufferWritten ==
  ASSUME PathInv, UNCHANGED others, events # <<>>, buffered # <<>>,
         events' = Tail(events), published' = Written, buffered' = <<Head(events)>>
  PROVE  /\ buffered' \in Seq(Events) /\ Len(buffered') = 1
         /\ published' \in [chunks : Nat, frames : Nat, last : Nat]
         /\ ChunksAccounted' /\ NumbersCounted' /\ FramesShippedOnce'
<1> DEFINE k == Len(buffered)
           last == buffered[k].number
<1>1. TypeOK /\ FramesShippedOnce
  BY DEF PathInv
<1>2. UNCHANGED metrics /\ Held' = Held
  BY PublisherFrame
<1>3. events \in Seq(Events) /\ buffered \in Seq(Events) /\ <<>> \in Seq(Events)
  BY <1>1, EmptySeq DEF TypeOK
<1>4. Head(events) \in Events /\ Tail(events) \in Seq(Events)
  BY <1>3, HeadTailProperties
<1>5. /\ published' = [chunks |-> published.chunks + k,
                       frames |-> published.frames + FramesIn(buffered), last |-> last]
      /\ buffered' = Append(<<>>, Head(events))
  BY DEF Written, Last
<1>6. buffered' \in Seq(Events) /\ Len(buffered') = 1
  BY <1>3, <1>4
<1>7. Out' = events
  <2>1. Out' = <<>> \o events
    BY <1>3, <1>5, MoveHead DEF Out
  <2> QED
    BY <1>3, <2>1, ConcatEmptySeq
<1>8. /\ k \in Nat /\ Len(events) \in Nat /\ Len(Out) = k + Len(events) /\ k >= 1
      /\ k \in 1 .. Len(Out) /\ Out[k] = buffered[k]
      /\ \A n \in 1 .. Len(events) : k + n \in 1 .. Len(Out) /\ Out[k + n] = events[n]
  <2>1. k \in Nat /\ Len(events) \in Nat /\ k # 0
    BY <1>3, LenProperties, EmptySeq
  <2>2. /\ Len(Out) = k + Len(events)
        /\ \A i \in 1 .. k + Len(events) :
             Out[i] = IF i <= k THEN buffered[i] ELSE events[i - k]
    BY <1>3, ConcatProperties DEF Out
  <2>3. ASSUME NEW n \in 1 .. Len(events)
        PROVE  k + n \in 1 .. k + Len(events) /\ ~ (k + n <= k) /\ (k + n) - k = n
    BY <2>1
  <2>4. k \in 1 .. k + Len(events)
    BY <2>1
  <2> HIDE DEF k
  <2> QED
    BY <2>1, <2>2, <2>3, <2>4
<1>9. /\ \A n \in 1 .. Len(Out) :
           /\ Out[n].number > IF n = 1 THEN published.last ELSE Out[n - 1].number
           /\ Out[n].number <= metrics.chunks
      /\ metrics.chunks = published.chunks + Len(Out) + metrics.event_drops
  BY DEF PathInv, ChunksAccounted, NumbersCounted, Out
<1>10. last \in Nat /\ last <= metrics.chunks
  BY <1>1, <1>8, <1>9, OutType
<1>11. /\ FramesIn(buffered) \in Nat /\ FramesIn(events) \in Nat /\ Held \in Nat
       /\ published.chunks \in Nat /\ published.frames \in Nat
       /\ metrics.chunks \in Nat /\ metrics.event_drops \in Nat
  BY <1>1, <1>3, FramesInType, HeldType DEF TypeOK, MetricsSet
<1> HIDE DEF k, last
<1>12. published' \in [chunks : Nat, frames : Nat, last : Nat]
  BY <1>5, <1>8, <1>10, <1>11
<1>13. ASSUME NEW n \in 1 .. Len(events)
       PROVE  /\ events[n].number > IF n = 1 THEN last ELSE events[n - 1].number
              /\ events[n].number <= metrics.chunks
  <2>1. Out[k + n].number <= metrics.chunks /\ Out[k + n] = events[n]
    BY <1>8, <1>9
  <2>2. k + n # 1 /\ (k + n) - 1 = k + (n - 1)
    BY <1>8
  <2>3. events[n].number > Out[k + (n - 1)].number
    BY <1>8, <1>9, <2>1, <2>2
  <2>4. CASE n = 1
    <3>1. k + (n - 1) = k
      BY <1>8, <2>4
    <3> QED
      BY <1>8, <2>1, <2>3, <2>4, <3>1 DEF last
  <2>5. CASE n # 1
    <3>1. n - 1 \in 1 .. Len(events)
      BY <1>8, <2>5
    <3>2. Out[k + (n - 1)] = events[n - 1]
      BY <1>8, <3>1
    <3> QED
      BY <2>1, <2>3, <2>5, <3>2
  <2> QED
    BY <2>4, <2>5
<1>14. ChunksAccounted'
  <2>1. metrics'.chunks = published'.chunks + Len(events) + metrics'.event_drops
    BY <1>2, <1>5, <1>8, <1>9, <1>11
  <2>2. buffered' \o events' = events /\ published'.last = last
    BY <1>5, <1>7 DEF Out
  <2> QED
    BY <1>13, <2>1, <2>2 DEF ChunksAccounted
<1>15. NumbersCounted'
  BY <1>2, <1>5, <1>7, <1>10, <1>13 DEF NumbersCounted
<1>16. FramesShippedOnce'
  <2>1. FramesIn(buffered') + FramesIn(events') = FramesIn(events)
    <3>1. /\ FramesIn(buffered') = FramesIn(<<>>) + Head(events).frame_count
          /\ FramesIn(events) = Head(events).frame_count + FramesIn(events')
      BY <1>3, <1>4, <1>5, FramesInAppend, FramesInTail
    <3>2. FramesIn(events') \in Nat /\ Head(events).frame_count \in Nat
      BY <1>4, FramesInType DEF Events
    <3> QED
      BY <3>1, <3>2, FramesInEmpty
  <2>2. FramesIn(buffered') \in Nat /\ FramesIn(events') \in Nat
    BY <1>4, <1>6, FramesInType
  <2>3. /\ Shipped' = published'.frames + FramesIn(buffered') + FramesIn(events') + Held'
        /\ Shipped = published.frames + FramesIn(buffered) + FramesIn(events) + Held
    BY DEF Shipped
  <2>4. published'.frames = published.frames + FramesIn(buffered)
    BY <1>5
  <2>5. Shipped' = Shipped
    BY <1>2, <1>11, <2>1, <2>2, <2>3, <2>4
  <2> QED
    BY <1>1, <1>2, <2>5, ShippedOnce
<1> QED
  BY <1>6, <1>12, <1>14, <1>15, <1>16

LEMMA PublishStep ==
  ASSUME PathInv, Publish
  PROVE  PathInv'
<1>1. /\ pub_pc = "pop" /\ pub_pc' = "done?" /\ events # <<>>
      /\ events' = Tail(events) /\ UNCHANGED others
  BY DEF Publish
<1>2. UNCHANGED <<g_running, feed, hot, objects, metrics>>
  BY <1>1 DEF others
<1>3. TypeOK /\ Control
  BY DEF PathInv
<1>4. /\ FramesAccounted' /\ SessionsSound' /\ QueueOrdered' /\ GapsCounted'
      /\ Held' = Held
  BY <1>1, PublisherFrame
<1>5. /\ buffered' \in Seq(Events) /\ Len(buffered') <= StdoutEvents
      /\ published' \in [chunks : Nat, frames : Nat, last : Nat]
      /\ ChunksAccounted' /\ NumbersCounted' /\ FramesShippedOnce'
  <2>1. Len(buffered) \in Nat
    BY <1>3, LenProperties DEF TypeOK
  <2>2. CASE BufferLine(Head(events))
    BY <1>1, <1>3, <2>1, <2>2, LineBuffered, Constants DEF BufferLine, TypeOK
  <2>3. CASE BufferWhenFull(Head(events))
    <3>1. buffered # <<>>
      BY <2>3, Constants, EmptySeq DEF BufferWhenFull
    <3> QED
      BY <1>1, <2>3, <3>1, BufferWritten, Constants DEF BufferWhenFull
  <2> QED
    BY <2>2, <2>3 DEF Publish
<1>6. /\ events' \in Seq(Events) /\ Len(events') <= EventCapacity
  <2>1. events \in Seq(Events) /\ Len(events) \in Nat
    BY <1>3, LenProperties DEF TypeOK
  <2>2. Tail(events) \in Seq(Events) /\ Len(Tail(events)) = Len(events) - 1
    BY <1>1, <2>1, HeadTailProperties
  <2> QED
    BY <1>1, <1>3, <2>1, <2>2, Constants DEF TypeOK
<1>7. TypeOK'
  BY <1>1, <1>2, <1>3, <1>5, <1>6 DEF TypeOK, feed, hot
<1>8. Control'
  BY <1>1, <1>2, <1>3 DEF Control, Active, feed, hot
<1> QED
  BY <1>4, <1>5, <1>7, <1>8 DEF PathInv

LEMMA PublisherSteps ==
  ASSUME PathInv, Publisher
  PROVE  PathInv'
<1>1. TypeOK /\ Control /\ FramesShippedOnce
  BY DEF PathInv
<1>2. UNCHANGED others
  BY DEF Publisher, TestDone, TestEmpty, LeaveIf, Publish, Drained
<1>3. UNCHANGED <<g_running, feed, hot, objects, metrics>>
  BY <1>2 DEF others
<1>4. /\ FramesAccounted' /\ SessionsSound' /\ QueueOrdered' /\ GapsCounted'
      /\ Held' = Held
  BY <1>2, PublisherFrame
<1>5. CASE TestDone
  <2>1. TypeOK' /\ Control'
    BY <1>1, <1>3, <1>5 DEF TypeOK, Control, Active, TestDone, feed, hot
  <2>2. ChunksAccounted' /\ NumbersCounted' /\ FramesShippedOnce'
    BY <1>3, <1>5, SameChunks, SameShipped DEF PathInv, TestDone
  <2> QED
    BY <1>4, <2>1, <2>2 DEF PathInv
<1>6. CASE TestEmpty /\ events # <<>>
  <2>1. TypeOK' /\ Control'
    BY <1>1, <1>3, <1>6 DEF TypeOK, Control, Active, TestEmpty, LeaveIf, feed, hot
  <2>2. ChunksAccounted' /\ NumbersCounted' /\ FramesShippedOnce'
    BY <1>3, <1>6, SameChunks, SameShipped DEF PathInv, TestEmpty, LeaveIf
  <2> QED
    BY <1>4, <2>1, <2>2 DEF PathInv
<1>7. CASE TestEmpty /\ events = <<>>
  <2>1. pub_pc = "empty?" /\ pub_pc' = "exited" /\ Flush /\ UNCHANGED events
    BY <1>7 DEF TestEmpty, LeaveIf
  <2>2. /\ ChunksAccounted' /\ NumbersCounted' /\ FramesShippedOnce'
        /\ buffered' = <<>> /\ published' \in [chunks : Nat, frames : Nat, last : Nat]
    BY <1>2, <1>7, <2>1, FlushDrained
  <2>3. <<>> \in Seq(Events) /\ Len(<<>>) <= StdoutEvents
    BY EmptySeq, Constants
  <2>4. TypeOK' /\ Control'
    BY <1>1, <1>3, <1>7, <2>1, <2>2, <2>3 DEF TypeOK, Control, Active, feed, hot
  <2> QED
    BY <1>4, <2>2, <2>4 DEF PathInv
<1>8. CASE Drained
  <2>1. pub_pc = "pop" /\ pub_pc' = "done?" /\ Flush /\ UNCHANGED events /\ events = <<>>
    BY <1>8 DEF Drained
  <2>2. /\ ChunksAccounted' /\ NumbersCounted' /\ FramesShippedOnce'
        /\ buffered' = <<>> /\ published' \in [chunks : Nat, frames : Nat, last : Nat]
    BY <1>2, <2>1, FlushDrained
  <2>3. <<>> \in Seq(Events) /\ Len(<<>>) <= StdoutEvents
    BY EmptySeq, Constants
  <2>4. TypeOK' /\ Control'
    BY <1>1, <1>3, <2>1, <2>2, <2>3 DEF TypeOK, Control, Active, feed, hot
  <2> QED
    BY <1>4, <2>2, <2>4 DEF PathInv
<1>9. CASE Publish
  BY <1>9, PublishStep
<1> QED
  BY <1>5, <1>6, <1>7, <1>8, <1>9 DEF Publisher

-----------------------------------------------------------------------------
(* The steps of the hot thread that emit, and those that move a frame.     *)

\* emit() keeps the chunks accounted for, and adds no more frames than it is given.
LEMMA EmitParts ==
  ASSUME PathInv, NEW m \in MetricsSet, NEW out, Emit(m, out),
         out = <<>> \/ \E n \in Nat : out = <<n>>,
         m.chunks = metrics.chunks, m.event_drops = metrics.event_drops,
         UNCHANGED <<buffered, published>>
  PROVE  /\ ChunksAccounted' /\ NumbersCounted'
         /\ FramesIn(events) \in Nat /\ FramesIn(events') \in Nat
         /\ out = <<>> => FramesIn(events') = FramesIn(events)
         /\ \A n \in Nat : out = <<n>> => FramesIn(events') <= FramesIn(events) + n
<1>1. TypeOK
  BY DEF PathInv
<1>2. /\ events' \in Seq(Events)
      /\ \/ /\ out = <<>> /\ events' = events
            /\ metrics'.chunks = m.chunks /\ metrics'.event_drops = m.event_drops
         \/ /\ events' = events
            /\ metrics'.chunks = m.chunks + 1 /\ metrics'.event_drops = m.event_drops + 1
         \/ \E e \in Events :
              /\ events' = Append(events, e)
              /\ e.number = m.chunks + 1 /\ out = <<e.frame_count>>
              /\ metrics'.chunks = m.chunks + 1 /\ metrics'.event_drops = m.event_drops
  BY <1>1, EmitSound
<1>3. /\ metrics.chunks \in Nat /\ metrics.event_drops \in Nat
      /\ published.chunks \in Nat /\ published.last \in Nat
      /\ events \in Seq(Events) /\ buffered \in Seq(Events)
  BY <1>1 DEF TypeOK, MetricsSet
<1>4. FramesIn(events) \in Nat /\ FramesIn(events') \in Nat
  BY <1>2, <1>3, FramesInType
<1>5. /\ metrics.chunks = published.chunks + Len(Out) + metrics.event_drops
      /\ \A n \in 1 .. Len(Out) :
           Out[n].number > IF n = 1 THEN published.last ELSE Out[n - 1].number
      /\ published.last <= metrics.chunks
      /\ \A n \in 1 .. Len(Out) : Out[n].number <= metrics.chunks
  BY DEF PathInv, ChunksAccounted, NumbersCounted, Out
<1>6. /\ Out \in Seq(Events) /\ Len(Out) \in Nat
      /\ \A n \in 1 .. Len(Out) : Out[n].number \in Nat
  BY <1>1, OutType
<1>7. CASE out = <<>> /\ events' = events
             /\ metrics'.chunks = m.chunks /\ metrics'.event_drops = m.event_drops
  BY <1>4, <1>7, SameChunks DEF PathInv
<1>8. CASE events' = events
             /\ metrics'.chunks = m.chunks + 1 /\ metrics'.event_drops = m.event_drops + 1
  <2>1. Out' = Out
    BY <1>8 DEF Out
  <2>2. ChunksAccounted'
    <3>1. metrics'.chunks = published'.chunks + Len(Out) + metrics'.event_drops
      <4>1. /\ metrics.chunks = published.chunks + Len(Out) + metrics.event_drops
            /\ published.chunks \in Nat /\ Len(Out) \in Nat /\ metrics.event_drops \in Nat
            /\ metrics'.chunks = metrics.chunks + 1 /\ published' = published
            /\ metrics'.event_drops = metrics.event_drops + 1
        BY <1>3, <1>5, <1>6, <1>8
      <4> QED
        BY <4>1
    <3> QED
      BY <1>5, <2>1, <3>1 DEF ChunksAccounted, Out
  <2>3. NumbersCounted'
    BY <1>3, <1>5, <1>6, <1>8, <2>1, SMTT(30) DEF NumbersCounted
  <2> QED
    BY <1>4, <1>8, <2>2, <2>3
<1>9. ASSUME NEW e \in Events, events' = Append(events, e), e.number = m.chunks + 1,
             out = <<e.frame_count>>,
             metrics'.chunks = m.chunks + 1, metrics'.event_drops = m.event_drops
      PROVE  /\ ChunksAccounted' /\ NumbersCounted' /\ out # <<>>
             /\ \A n \in Nat : out = <<n>> => FramesIn(events') <= FramesIn(events) + n
  <2>1. Out' = Append(Out, e)
    <3>1. buffered \o Append(events, e) = Append(buffered \o events, e)
      BY <1>3, ConcatAppend
    <3> QED
      BY <1>9, <3>1 DEF Out
  <2>2. /\ Len(Out') = Len(Out) + 1
        /\ \A n \in 1 .. Len(Out) : Out'[n] = Out[n]
        /\ Out'[Len(Out) + 1] = e
    BY <1>6, <2>1, AppendProperties
  <2>3. \A n \in 1 .. Len(Out') : n \in 1 .. Len(Out) \/ n = Len(Out) + 1
    BY <1>6, <2>2
  <2>4. ASSUME NEW n \in 1 .. Len(Out')
        PROVE  /\ Out'[n].number > IF n = 1 THEN published'.last ELSE Out'[n - 1].number
               /\ Out'[n].number <= metrics'.chunks
    <3>1. CASE n \in 1 .. Len(Out)
      <4>1. n # 1 => n - 1 \in 1 .. Len(Out)
        BY <1>6, <3>1
      <4>2. Out'[n] = Out[n] /\ (n # 1 => Out'[n - 1] = Out[n - 1])
        BY <2>2, <3>1, <4>1
      <4> QED
        BY <1>3, <1>5, <1>6, <1>9, <3>1, <4>2, SMTT(30)
    <3>2. CASE n = Len(Out) + 1
      <4>1. Out'[n].number = metrics.chunks + 1 /\ metrics'.chunks = metrics.chunks + 1
        BY <1>9, <2>2, <3>2
      <4>2. CASE n = 1
        BY <1>3, <1>5, <4>1, <4>2
      <4>3. CASE n # 1
        <5>1. n - 1 \in 1 .. Len(Out) /\ n - 1 = Len(Out)
          BY <1>6, <3>2, <4>3
        <5>2. Out'[n - 1].number \in Nat /\ Out'[n - 1].number <= metrics.chunks
          BY <1>5, <1>6, <2>2, <5>1
        <5> QED
          BY <1>3, <4>1, <4>3, <5>2
      <4> QED
        BY <4>2, <4>3
    <3> QED
      BY <2>3, <3>1, <3>2
  <2>5. ChunksAccounted'
    <3>1. metrics'.chunks = published'.chunks + Len(Out') + metrics'.event_drops
      <4>1. /\ metrics.chunks = published.chunks + Len(Out) + metrics.event_drops
            /\ published.chunks \in Nat /\ Len(Out) \in Nat /\ metrics.event_drops \in Nat
            /\ metrics'.chunks = metrics.chunks + 1 /\ published' = published
            /\ metrics'.event_drops = metrics.event_drops /\ Len(Out') = Len(Out) + 1
        BY <1>3, <1>5, <1>6, <1>9, <2>2
      <4> QED
        BY <4>1
    <3> QED
      BY <2>4, <3>1 DEF ChunksAccounted, Out
  <2>6. NumbersCounted'
    <3>1. published'.last <= metrics'.chunks
      BY <1>3, <1>5, <1>9
    <3> QED
      BY <2>4, <3>1 DEF NumbersCounted
  <2>7. \A n \in Nat : out = <<n>> => FramesIn(events') <= FramesIn(events) + n
    <3>1. FramesIn(events') = FramesIn(events) + e.frame_count /\ e.frame_count \in Nat
      BY <1>3, <1>9, FramesInAppend DEF Events
    <3>2. \A n \in Nat : out = <<n>> => n = e.frame_count
      BY <1>9
    <3> QED
      BY <1>4, <3>1, <3>2
  <2> QED
    BY <1>9, <2>5, <2>6, <2>7
<1> QED
  BY <1>2, <1>4, <1>7, <1>8, <1>9

\* A step that gives one object another chunker.
LEMMA HeldUpdate ==
  ASSUME TypeOK, TypeOK', NEW i \in Objects,
         \A j \in Objects \ {i} : objects'[j].chunker = objects[j].chunker
  PROVE  /\ Held \in Nat /\ Held' \in Nat /\ Holds(i) \in Nat /\ Holds(i)' \in Nat
         /\ Held' + Holds(i) = Held + Holds(i)'
<1> DEFINE f == [j \in Objects |-> objects[j].chunker.held + objects[j].chunker.kept]
           g == [j \in Objects |-> objects'[j].chunker.held + objects'[j].chunker.kept]
<1>1. ASSUME NEW j \in Objects
      PROVE  /\ objects[j].chunker.held \in Nat /\ objects[j].chunker.kept \in Nat
             /\ objects'[j].chunker.held \in Nat /\ objects'[j].chunker.kept \in Nat
  <2>1. objects[j] \in ObjectSet /\ objects'[j] \in ObjectSet
    BY DEF TypeOK, ObjectSet
  <2> QED
    BY <2>1, Constants DEF ObjectSet
<1>2. \A j \in Objects : f[j] \in Nat /\ g[j] \in Nat
  BY <1>1
<1>3. \A j \in Objects \ {i} : g[j] = f[j]
  OBVIOUS
<1>4. f[i] = Holds(i) /\ g[i] = Holds(i)'
  BY DEF Holds
<1>5. Held = SumOf(f, Objects) /\ Held' = SumOf(g, Objects)
  BY DEF Held, Holds
<1> HIDE DEF f, g
<1>6. /\ SumOf(f, Objects) \in Nat /\ SumOf(g, Objects) \in Nat
      /\ SumOf(g, Objects) + f[i] = SumOf(f, Objects) + g[i]
  BY <1>2, <1>3, FiniteObjects, SumUpdate
<1> QED
  BY <1>2, <1>4, <1>5, <1>6

\* The least element of a set of naturals belongs to it.
LEMMA MinElement ==
  ASSUME NEW S, S \subseteq Nat, S # {}
  PROVE  Min(S) \in S
<1>1. PICK x \in S : \A y \in S : ~ (<<y, x>> \in OpToRel(<, Nat))
  BY NatLessThanWellFounded, WFMin
<1>2. ASSUME NEW y \in S, y < x PROVE FALSE
  <2>1. <<y, x>> \in OpToRel(<, Nat)
    BY <1>2 DEF OpToRel
  <2> QED
    BY <1>1, <2>1
<1>3. \A y \in S : x <= y
  BY <1>2
<1> QED
  BY <1>3 DEF Min

LEMMA ReleaseStep ==
  ASSUME PathInv, Release
  PROVE  PathInv'
<1>1. TypeOK /\ Control
  BY DEF PathInv
<1>2. due \subseteq Nat /\ due # {} /\ due \subseteq Objects
  BY <1>1, Constants DEF Release, TypeOK, Objects
<1>3. PICK i \in Objects : i = Min(due) /\ i \in due
  BY <1>2, MinElement
<1> DEFINE object == objects[i]
           step == FlushStep(object.chunker)
           new == [object EXCEPT !.active = FALSE, !.chunker = step.chunker]
<1>4. object \in ObjectSet /\ object.chunker \in ChunkerSet
  BY <1>1 DEF TypeOK, ObjectSet, ChunkerSet
<1>5. /\ step.chunker \in ChunkerSet /\ ~ step.chunker.open
      /\ step.out = <<>> \/ \E n \in Nat : step.out = <<n>>
      /\ step.out = <<>> =>
           step.chunker.held + step.chunker.kept <= object.chunker.held + object.chunker.kept
      /\ \A n \in Nat : step.out = <<n>> =>
           step.chunker.held + step.chunker.kept + n <= object.chunker.held + object.chunker.kept
  BY <1>4, FlushStepSound
<1>6. /\ hot_pc \in {"expire_idle", "flush_all"}
      /\ Emit(metrics, step.out)
      /\ due' = due \ {i}
      /\ UNCHANGED <<g_running, feed, hot_pc, hand, hot_done, pub>>
  BY <1>3 DEF Release
<1>7. objects' = [objects EXCEPT ![i] = new]
  BY <1>1, <1>3 DEF Release, TypeOK
<1> HIDE DEF step
<1>8. new \in ObjectSet /\ new.active = FALSE /\ new.id = object.id /\ new.chunker = step.chunker
  BY <1>4, <1>5 DEF ObjectSet, ChunkerSet
<1> HIDE DEF new, object
<1>9. /\ objects'[i] = new
      /\ \A j \in Objects : j # i => objects'[j] = objects[j]
      /\ objects' \in [Objects -> ObjectSet]
  BY <1>1, <1>7, <1>8 DEF TypeOK
<1>10. metrics \in MetricsSet
  BY <1>1 DEF TypeOK
<1>11. /\ metrics' \in MetricsSet /\ events' \in Seq(Events) /\ Len(events') <= EventCapacity
       /\ metrics'.frames = metrics.frames /\ metrics'.seq_gaps = metrics.seq_gaps
       /\ metrics'.frames_refused = metrics.frames_refused
  BY <1>1, <1>5, <1>6, <1>10, EmitSound
<1>12. TypeOK'
  BY <1>1, <1>6, <1>9, <1>11 DEF TypeOK, feed, pub
<1>13. \A j \in Objects : Active(j)' <=> Active(j) /\ j # i
  BY <1>8, <1>9 DEF Active
<1>14. Control'
  <2>1. ~ hot_done /\ ~ hot_done' /\ pub_pc' # "exited" /\ pub_pc' # "empty?"
    BY <1>1, <1>6 DEF Control, pub
  <2>2. \A j \in due' : Active(j)'
    BY <1>1, <1>2, <1>6, <1>13 DEF Control
  <2>3. hot_pc' = "flush_all" => \A j \in Objects : Active(j)' => j \in due'
    BY <1>1, <1>6, <1>13 DEF Control
  <2> QED
    BY <1>1, <1>6, <2>1, <2>2, <2>3 DEF Control
<1>15. SessionsSound'
  BY <1>5, <1>8, <1>9, <1>13 DEF PathInv, SessionsSound
<1>16. FramesAccounted'
  <2>1. Offered' = Offered
    BY <1>6, OfferedSum DEF feed
  <2> QED
    BY <1>6, <1>11, <2>1 DEF PathInv, FramesAccounted, feed
<1>17. /\ ChunksAccounted' /\ NumbersCounted'
       /\ FramesIn(events) \in Nat /\ FramesIn(events') \in Nat
       /\ step.out = <<>> => FramesIn(events') = FramesIn(events)
       /\ \A n \in Nat : step.out = <<n>> => FramesIn(events') <= FramesIn(events) + n
  BY <1>5, <1>6, <1>10, EmitParts DEF pub
<1>18. FramesShippedOnce'
  <2>1. /\ Held \in Nat /\ Held' \in Nat /\ Holds(i) \in Nat /\ Holds(i)' \in Nat
        /\ Held' + Holds(i) = Held + Holds(i)'
    BY <1>1, <1>9, <1>12, HeldUpdate
  <2>2. /\ Holds(i) = object.chunker.held + object.chunker.kept
        /\ Holds(i)' = step.chunker.held + step.chunker.kept
    BY <1>8, <1>9 DEF Holds, object
  <2>3. FramesIn(events') + Holds(i)' <= FramesIn(events) + Holds(i)
    <3>1. CASE step.out = <<>>
      BY <1>5, <1>17, <2>1, <2>2, <3>1
    <3>2. ASSUME NEW n \in Nat, step.out = <<n>>
          PROVE  FramesIn(events') + Holds(i)' <= FramesIn(events) + Holds(i)
      <4>1. Holds(i)' + n <= Holds(i) /\ FramesIn(events') <= FramesIn(events) + n
        BY <1>5, <1>17, <2>2, <3>2
      <4> QED
        BY <1>17, <2>1, <4>1
    <3> QED
      BY <1>5, <3>1, <3>2
  <2>4. /\ Shipped = published.frames + FramesIn(buffered) + FramesIn(events) + Held
        /\ Shipped' = published.frames + FramesIn(buffered) + FramesIn(events') + Held'
    BY <1>6 DEF Shipped, pub
  <2>5. published.frames \in Nat /\ FramesIn(buffered) \in Nat /\ metrics.frames \in Nat
    BY <1>1, FramesInType DEF TypeOK, MetricsSet
  <2>6. Shipped <= metrics.frames
    BY ShippedOnce DEF PathInv
  <2>7. Shipped' <= metrics'.frames
    <3>1. metrics'.frames = metrics.frames /\ FramesIn(events) \in Nat /\ FramesIn(events') \in Nat
      BY <1>11, <1>17
    <3> QED
      BY <2>1, <2>3, <2>4, <2>5, <2>6, <3>1
  <2> QED
    BY <2>7, ShippedOnce
<1>19. QueueOrdered' /\ GapsCounted'
  <2>1. Queue' = Queue
    BY <1>6 DEF Queue, feed
  <2>2. \A j \in Objects : Active(j)' => /\ Active(j)
                                         /\ objects'[j].id = objects[j].id
                                         /\ objects'[j].last_seq = objects[j].last_seq
    BY <1>9, <1>13
  <2> QED
    BY <1>6, <1>11, <2>1, <2>2, SameGaps DEF PathInv, feed
<1> QED
  BY <1>12, <1>14, <1>15, <1>16, <1>17, <1>18, <1>19 DEF PathInv

LEMMA PopStep ==
  ASSUME PathInv, Pop
  PROVE  PathInv'
<1>1. TypeOK /\ Control /\ hand = <<>>
  BY DEF PathInv, Control, Pop
<1>2. UNCHANGED <<g_running, next_seq, ring_full_drops, due, hot_done, table, pub>>
  BY DEF Pop
<1>3. hand \in Seq(Frames) /\ frames \in Seq(Frames) /\ Len(frames) \in Nat
  BY <1>1, LenProperties DEF TypeOK
<1>4. CASE frames = <<>>
  <2>1. hot_pc = "pop" /\ hot_pc' = "top" /\ UNCHANGED <<frames, hand>>
    BY <1>4 DEF Pop
  <2>2. TypeOK' /\ Control'
    BY <1>1, <1>2, <2>1 DEF TypeOK, Control, Active, table, pub
  <2> QED
    BY <1>2, <2>1, <2>2, MoveOn DEF feed
<1>5. CASE frames # <<>>
  <2>1. hot_pc = "pop" /\ hot_pc' = "work" /\ hand' = <<Head(frames)>> /\ frames' = Tail(frames)
    BY <1>5 DEF Pop
  <2>2. /\ Head(frames) \in Frames /\ Tail(frames) \in Seq(Frames)
        /\ Len(Tail(frames)) = Len(frames) - 1
    BY <1>3, <1>5, HeadTailProperties
  <2>3. hand' \in Seq(Frames) /\ Len(hand') = 1 /\ hand' # <<>> /\ Len(hand) = 0
    BY <1>1, <2>1, <2>2
  <2>4. TypeOK'
    <3>1. Len(frames') <= FrameCapacity
      BY <1>1, <1>3, <2>1, <2>2, Constants DEF TypeOK
    <3> QED
      BY <1>1, <1>2, <2>1, <2>2, <2>3, <3>1 DEF TypeOK, table, pub
  <2>5. Control'
    BY <1>1, <1>2, <2>1, <2>3 DEF Control, Active, table, pub
  <2>6. FramesAccounted'
    <3>1. Offered' = Offered
      BY <1>2, OfferedSum
    <3>2. Len(frames') + Len(hand') = Len(frames) + Len(hand) /\ Len(frames') \in Nat
      BY <1>3, <2>1, <2>2, <2>3, LenProperties
    <3>3. /\ ring_full_drops \in Nat /\ metrics.frames \in Nat /\ metrics.frames_refused \in Nat
      BY <1>1 DEF TypeOK, MetricsSet
    <3> QED
      BY <1>2, <1>3, <2>3, <3>1, <3>2, <3>3, SMTT(30) DEF PathInv, FramesAccounted, table
  <2>7. SessionsSound'
    BY <1>2 DEF PathInv, SessionsSound, Active, table
  <2>8. ChunksAccounted' /\ NumbersCounted' /\ FramesShippedOnce'
    BY <1>2, SameChunks, SameShipped DEF PathInv, table, pub
  <2>9. Queue' = Queue
    <3>1. Append(hand, Head(frames)) \o Tail(frames) = hand \o frames
      BY <1>3, <1>5, MoveHead
    <3>2. Append(hand, Head(frames)) = hand \o <<Head(frames)>>
      BY <1>3, <2>2, AppendIsConcat
    <3>3. <<Head(frames)>> \in Seq(Frames)
      BY <2>2
    <3>4. hand \o <<Head(frames)>> = <<Head(frames)>>
      BY <1>1, <3>3, ConcatEmptySeq
    <3> QED
      BY <2>1, <3>1, <3>2, <3>4 DEF Queue
  <2>10. QueueOrdered' /\ GapsCounted'
    BY <1>2, <2>9, SameGaps DEF PathInv, table, Active
  <2> QED
    BY <2>4, <2>5, <2>6, <2>7, <2>8, <2>10 DEF PathInv
<1> QED
  BY <1>4, <1>5

\* The frame in hand is done with: the queue starts after it.
LEMMA HandGone ==
  ASSUME PathInv, hot_pc = "work", hand' = <<>>, frames' = frames, next_seq' = next_seq
  PROVE  \E h \in Frames :
           /\ hand = <<h>> /\ Len(hand) = 1 /\ h.id \in Ids /\ h.seq \in Nat
           /\ QueueOrdered'
           /\ \A pair : Past(pair) => Past(pair)' /\ (pair[1] = h.id => pair[2] < h.seq)
           /\ \A pair : pair[1] = h.id /\ pair[2] \in Nat /\ pair[2] <= h.seq => Past(pair)'
           /\ \A pair : Queued(pair) => Queued(pair)' \/ (pair[1] = h.id /\ pair[2] = h.seq)
           /\ \A pair : Queued(pair) /\ pair[1] = h.id => pair[2] >= h.seq
<1>1. TypeOK /\ Control /\ QueueOrdered
  BY DEF PathInv
<1>2. hand # <<>> /\ hand \in Seq(Frames) /\ Len(hand) <= 1 /\ frames \in Seq(Frames)
  BY <1>1 DEF Control, TypeOK
<1>3. Len(hand) = 1 /\ Len(frames) \in Nat
  BY <1>2, EmptySeq, LenProperties
<1>4. PICK h \in Frames : h = hand[1]
  BY <1>2, <1>3, ElementOfSeq
<1>5. hand = <<h>>
  BY <1>2, <1>3, <1>4
<1>6. h.id \in Ids /\ h.seq \in Nat
  BY <1>4 DEF Frames
<1>7. /\ Len(Queue) = 1 + Len(frames) /\ Queue[1] = h
      /\ \A n \in 1 .. Len(frames) : Queue[n + 1] = frames[n]
  <2>1. /\ Len(Queue) = Len(hand) + Len(frames)
        /\ \A n \in 1 .. Len(hand) + Len(frames) :
             Queue[n] = IF n <= Len(hand) THEN hand[n] ELSE frames[n - Len(hand)]
    BY <1>2, ConcatProperties DEF Queue
  <2>2. Queue[1] = h
    BY <1>3, <1>4, <2>1
  <2>3. ASSUME NEW n \in 1 .. Len(frames)
        PROVE  Queue[n + 1] = frames[n]
    <3>1. n + 1 \in 1 .. Len(hand) + Len(frames) /\ ~ (n + 1 <= Len(hand))
      BY <1>3
    <3>2. (n + 1) - Len(hand) = n
      BY <1>3
    <3> QED
      BY <2>1, <3>1, <3>2
  <2> QED
    BY <1>3, <2>1, <2>2, <2>3
<1>8. Queue' = frames
  BY <1>2, ConcatEmptySeq DEF Queue
<1>9. /\ Len(Queue') = Len(frames)
      /\ \A n \in 1 .. Len(Queue') : Queue'[n] = Queue[n + 1] /\ n + 1 \in 1 .. Len(Queue) /\ 1 < n + 1
  BY <1>3, <1>7, <1>8
<1>10. \A n \in 1 .. Len(Queue) : n = 1 \/ (n - 1 \in 1 .. Len(Queue') /\ Queue'[n - 1] = Queue[n])
  <2>1. ASSUME NEW n \in 1 .. Len(Queue), n # 1
        PROVE  n - 1 \in 1 .. Len(Queue') /\ Queue'[n - 1] = Queue[n]
    <3>1. n - 1 \in 1 .. Len(Queue') /\ (n - 1) + 1 = n
      BY <1>3, <1>7, <1>9, <2>1
    <3> QED
      BY <1>9, <3>1
  <2> QED
    BY <2>1
<1>11. 1 \in 1 .. Len(Queue) /\ \A n \in 1 .. Len(Queue) : Queue[n].id \in Ids /\ Queue[n].seq \in Nat
  BY <1>1, <1>3, <1>7, QueueType
<1>12. \A n \in 1 .. Len(Queue) : n # 1 /\ Queue[n].id = h.id => h.seq < Queue[n].seq
  <2>1. ASSUME NEW n \in 1 .. Len(Queue), n # 1, Queue[n].id = h.id
        PROVE  h.seq < Queue[n].seq
    <3>1. 1 < n
      BY <2>1
    <3> QED
      BY <1>1, <1>7, <1>11, <2>1, <3>1 DEF QueueOrdered
  <2> QED
    BY <2>1
<1>13. QueueOrdered'
  <2>1. \A n \in 1 .. Len(Queue') : Queue'[n].seq < next_seq'[Queue'[n].id]
    BY <1>1, <1>9 DEF QueueOrdered
  <2>2. ASSUME NEW m \in 1 .. Len(Queue'), NEW n \in 1 .. Len(Queue'),
               m < n, Queue'[m].id = Queue'[n].id
        PROVE  Queue'[m].seq < Queue'[n].seq
    <3>1. m + 1 < n + 1
      BY <2>2
    <3>2. Queue'[m] = Queue[m + 1] /\ Queue'[n] = Queue[n + 1]
          /\ m + 1 \in 1 .. Len(Queue) /\ n + 1 \in 1 .. Len(Queue)
      BY <1>9
    <3> QED
      BY <1>1, <2>2, <3>1, <3>2 DEF QueueOrdered
  <2> QED
    BY <2>1, <2>2 DEF QueueOrdered
<1>14. ASSUME NEW pair, Past(pair)
       PROVE  Past(pair)' /\ (pair[1] = h.id => pair[2] < h.seq)
  <2>1. pair[1] = h.id => pair[2] < h.seq
    BY <1>7, <1>11, <1>14 DEF Past
  <2>2. Past(pair)'
    BY <1>9, <1>14 DEF Past
  <2> QED
    BY <2>1, <2>2
<1>15. ASSUME NEW pair, pair[1] = h.id, pair[2] \in Nat, pair[2] <= h.seq
       PROVE  Past(pair)'
  <2>1. ASSUME NEW n \in 1 .. Len(Queue'), Queue'[n].id = pair[1]
        PROVE  pair[2] < Queue'[n].seq
    <3>1. Queue'[n] = Queue[n + 1] /\ n + 1 \in 1 .. Len(Queue) /\ n + 1 # 1
      BY <1>9
    <3>2. h.seq < Queue[n + 1].seq /\ Queue[n + 1].seq \in Nat
      BY <1>11, <1>12, <1>15, <2>1, <3>1
    <3> QED
      BY <1>6, <1>15, <3>1, <3>2
  <2> QED
    BY <2>1 DEF Past
<1>16. ASSUME NEW pair, Queued(pair)
       PROVE  Queued(pair)' \/ (pair[1] = h.id /\ pair[2] = h.seq)
  BY <1>7, <1>10, <1>16 DEF Queued
<1>17. ASSUME NEW pair, Queued(pair), pair[1] = h.id
       PROVE  pair[2] >= h.seq
  <2>1. PICK n \in 1 .. Len(Queue) : Queue[n].id = pair[1] /\ Queue[n].seq = pair[2]
    BY <1>17 DEF Queued
  <2> QED
    BY <1>6, <1>7, <1>11, <1>12, <1>17, <2>1
<1> QED
  BY <1>3, <1>5, <1>6, <1>13, <1>14, <1>15, <1>16, <1>17

LEMMA RefuseStep ==
  ASSUME PathInv, Refuse
  PROVE  PathInv'
<1>1. TypeOK /\ Control
  BY DEF PathInv
<1>2. /\ hot_pc = "work" /\ hot_pc' = "top" /\ hand' = <<>>
      /\ SessionOf(hand[1].id) = {} /\ \A i \in Objects : Active(i)
      /\ UNCHANGED <<objects, events>> /\ UNCHANGED <<g_running, feed, due, hot_done, pub>>
      /\ metrics' = [metrics EXCEPT !.frames_refused = metrics.frames_refused + 1,
                                    !.sessions_rejected = metrics.sessions_rejected + 1]
  BY <1>1 DEF Refuse, RefuseCounting, FrameDone, TypeOK, MetricsSet
<1>3. PICK h \in Frames :
        /\ hand = <<h>> /\ Len(hand) = 1 /\ h.id \in Ids /\ h.seq \in Nat
        /\ QueueOrdered'
        /\ \A pair : Past(pair) => Past(pair)' /\ (pair[1] = h.id => pair[2] < h.seq)
        /\ \A pair : pair[1] = h.id /\ pair[2] \in Nat /\ pair[2] <= h.seq => Past(pair)'
        /\ \A pair : Queued(pair) => Queued(pair)' \/ (pair[1] = h.id /\ pair[2] = h.seq)
        /\ \A pair : Queued(pair) /\ pair[1] = h.id => pair[2] >= h.seq
  BY <1>2, HandGone DEF feed
<1>4. metrics \in MetricsSet
  BY <1>1 DEF TypeOK
<1>5. /\ metrics' \in MetricsSet /\ metrics'.frames_refused = metrics.frames_refused + 1
      /\ metrics'.chunks = metrics.chunks /\ metrics'.event_drops = metrics.event_drops
      /\ metrics'.frames = metrics.frames /\ metrics'.seq_gaps = metrics.seq_gaps
  <2>1. metrics' = [metrics EXCEPT !.frames_refused = metrics.frames_refused + 1,
                                   !.sessions_rejected = metrics.sessions_rejected + 1]
    BY <1>2
  <2>2. metrics.frames_refused + 1 \in Nat /\ metrics.sessions_rejected + 1 \in Nat
    BY <1>4 DEF MetricsSet
  <2>3. metrics' \in MetricsSet
    BY <1>4, <2>1, <2>2 DEF MetricsSet
  <2> QED
    BY <1>4, <2>1, <2>3 DEF MetricsSet
<1>6. <<>> \in Seq(Frames) /\ Len(<<>>) = 0
  BY EmptySeq
<1>7. TypeOK'
  BY <1>1, <1>2, <1>5, <1>6 DEF TypeOK, feed, pub
<1>8. Control'
  BY <1>1, <1>2 DEF Control, Active, pub
<1>9. SessionsSound'
  BY <1>2 DEF PathInv, SessionsSound, Active
<1>10. FramesAccounted'
  <2>1. Offered' = Offered
    BY <1>2, OfferedSum DEF feed
  <2>2. /\ Offered = ring_full_drops + Len(frames) + Len(hand) + metrics.frames
                       + metrics.frames_refused
        /\ ring_full_drops \in Nat /\ Len(frames) \in Nat
        /\ metrics.frames \in Nat /\ metrics.frames_refused \in Nat
    BY <1>1, LenProperties DEF PathInv, FramesAccounted, TypeOK, MetricsSet
  <2>3. /\ ring_full_drops' = ring_full_drops /\ frames' = frames /\ Len(hand') = 0
        /\ metrics'.frames = metrics.frames
        /\ metrics'.frames_refused = metrics.frames_refused + 1
    BY <1>2, <1>5, <1>6 DEF feed
  <2>4. Offered = ring_full_drops' + Len(frames') + Len(hand') + metrics'.frames
                    + metrics'.frames_refused
    BY <1>3, <2>2, <2>3, SMTT(30)
  <2> QED
    BY <2>1, <2>4 DEF FramesAccounted
<1>11. ChunksAccounted' /\ NumbersCounted' /\ FramesShippedOnce'
  BY <1>2, <1>5, SameChunks, SameShipped DEF PathInv, pub
<1>12. GapsCounted'
  <2>1. PICK shed \in SUBSET OfferedPairs : \E missed \in SUBSET shed :
          /\ IsFiniteSet(shed) /\ Cardinality(shed) = ring_full_drops
          /\ Cardinality(missed) = metrics.seq_gaps
          /\ PassedBy(shed) /\ MissedBefore(missed)
    BY DEF PathInv, GapsCounted
  <2>2. PICK missed \in SUBSET shed :
          /\ IsFiniteSet(shed) /\ Cardinality(shed) = ring_full_drops
          /\ Cardinality(missed) = metrics.seq_gaps
          /\ PassedBy(shed) /\ MissedBefore(missed)
    BY <2>1
  <2>3. OfferedPairs' = OfferedPairs /\ ring_full_drops' = ring_full_drops
    BY <1>2 DEF OfferedPairs, feed
  <2>4. \A j \in Objects : ~ (Active(j) /\ objects[j].id = h.id)
    BY <1>2, <1>3 DEF SessionOf
  <2>5. PassedBy(shed)'
    <3>1. ASSUME NEW pair \in OfferedPairs, pair \notin shed, ~ Queued(pair)'
          PROVE  /\ Past(pair)'
                 /\ \A j \in Objects : Active(j) /\ objects[j].id = pair[1]
                                         => pair[2] <= objects[j].last_seq
      <4>1. CASE Queued(pair)
        BY <1>3, <2>4, <3>1, <4>1
      <4>2. CASE ~ Queued(pair)
        BY <1>3, <2>2, <3>1, <4>2 DEF PassedBy
      <4> QED
        BY <4>1, <4>2
    <3> QED
      BY <1>2, <2>3, <3>1 DEF PassedBy, Active
  <2>6. MissedBefore(missed)'
    BY <1>2, <1>3, <2>2 DEF MissedBefore, Active
  <2> QED
    BY <1>5, <2>2, <2>3, <2>5, <2>6 DEF GapsCounted
<1> QED
  BY <1>3, <1>7, <1>8, <1>9, <1>10, <1>11, <1>12 DEF PathInv

\* Work is Process on a session object that is in use for the call, or on a
\* free one when the call has none.
LEMMA WorkCases ==
  ASSUME PathInv, Work, NEW h, hand = <<h>>
  PROVE  \E i \in Objects :
           /\ Process(i)
           /\ \/ Active(i) /\ objects[i].id = h.id
              \/ ~ Active(i) /\ \A j \in Objects : ~ (Active(j) /\ objects[j].id = h.id)
<1>1. hand[1] = h
  OBVIOUS
<1>2. CASE SessionOf(h.id) # {}
  <2>1. PICK i \in SessionOf(h.id) : Process(i)
    BY <1>1, <1>2 DEF Work
  <2> QED
    BY <2>1 DEF SessionOf
<1>3. CASE SessionOf(h.id) = {}
  <2>1. PICK i \in {j \in Objects : ~ Active(j)} : Process(i)
    BY <1>1, <1>3 DEF Work
  <2> QED
    BY <1>3, <2>1 DEF SessionOf
<1> QED
  BY <1>2, <1>3

LEMMA WorkStep ==
  ASSUME PathInv, Work
  PROVE  PathInv'
<1>1. TypeOK /\ Control
  BY DEF PathInv
<1>2. /\ hot_pc = "work" /\ hot_pc' = "top" /\ hand' = <<>>
      /\ UNCHANGED <<g_running, feed, due, hot_done, pub>>
  BY DEF Work, FrameDone
<1>3. PICK h \in Frames :
        /\ hand = <<h>> /\ Len(hand) = 1 /\ h.id \in Ids /\ h.seq \in Nat
        /\ QueueOrdered'
        /\ \A pair : Past(pair) => Past(pair)' /\ (pair[1] = h.id => pair[2] < h.seq)
        /\ \A pair : pair[1] = h.id /\ pair[2] \in Nat /\ pair[2] <= h.seq => Past(pair)'
        /\ \A pair : Queued(pair) => Queued(pair)' \/ (pair[1] = h.id /\ pair[2] = h.seq)
        /\ \A pair : Queued(pair) /\ pair[1] = h.id => pair[2] >= h.seq
  BY <1>2, HandGone DEF feed
<1>4. PICK i \in Objects :
        /\ Process(i)
        /\ \/ Active(i) /\ objects[i].id = h.id
           \/ ~ Active(i) /\ \A j \in Objects : ~ (Active(j) /\ objects[j].id = h.id)
  BY <1>3, WorkCases
<1>5. hand[1] = h
  BY <1>3
<1> DEFINE c == objects[i].chunker
           gap == SeqGap(i, h.seq)
           m == [metrics EXCEPT !.seq_gaps = metrics.seq_gaps + gap,
                                !.frames = metrics.frames + 1]
<1>6. objects[i] \in ObjectSet /\ c \in ChunkerSet
  BY <1>1 DEF TypeOK, ObjectSet, ChunkerSet
<1>7. metrics \in MetricsSet
  BY <1>1 DEF TypeOK
<1>8. PICK step \in FrameSteps(c) :
        /\ objects' = [objects EXCEPT ![i] = [id |-> h.id, active |-> TRUE, age |-> 0,
                                              last_seq |-> h.seq, chunker |-> step.chunker]]
        /\ Emit(m, step.out)
  <2>1. \E step \in FrameSteps(c) :
          /\ objects' = [objects EXCEPT ![i] = [id |-> hand[1].id, active |-> TRUE, age |-> 0,
                                                last_seq |-> hand[1].seq,
                                                chunker |-> step.chunker]]
          /\ Emit([metrics EXCEPT !.seq_gaps = metrics.seq_gaps + SeqGap(i, hand[1].seq),
                                  !.frames = metrics.frames + 1], step.out)
    BY <1>4 DEF Process
  <2> QED
    BY <1>5, <2>1
<1>9. /\ step.chunker \in ChunkerSet
      /\ step.out = <<>> \/ \E n \in Nat : step.out = <<n>>
      /\ step.out = <<>> => step.chunker.held + step.chunker.kept <= c.held + c.kept + 1
      /\ \A n \in Nat : step.out = <<n>> =>
           step.chunker.held + step.chunker.kept + n <= c.held + c.kept + 1
  BY <1>6, FrameStepsSound
<1> DEFINE new == [id |-> h.id, active |-> TRUE, age |-> 0, last_seq |-> h.seq,
                   chunker |-> step.chunker]
<1>10. /\ new \in ObjectSet /\ new.active = TRUE /\ new.id = h.id /\ new.last_seq = h.seq
       /\ new.chunker = step.chunker
  BY <1>3, <1>9, Constants DEF ObjectSet, ChunkerSet
<1>11. objects' = [objects EXCEPT ![i] = new]
  BY <1>8
<1> HIDE DEF new
<1>12. /\ objects'[i] = new
       /\ \A j \in Objects : j # i => objects'[j] = objects[j]
       /\ objects' \in [Objects -> ObjectSet]
  BY <1>1, <1>10, <1>11 DEF TypeOK
<1>13. \A j \in Objects : Active(j)' <=> Active(j) \/ j = i
  BY <1>10, <1>12 DEF Active
<1>14. gap \in Nat /\ (Active(i) => objects[i].last_seq \in Nat)
       /\ gap = IF Active(i) /\ h.seq > objects[i].last_seq + 1
                  THEN h.seq - objects[i].last_seq - 1 ELSE 0
  <2>1. Active(i) => objects[i].last_seq \in Nat
    BY DEF PathInv, SessionsSound
  <2>2. objects[i].last_seq \in Nat => objects[i].last_seq # None
    BY DEF None
  <2>3. gap = IF Active(i) /\ h.seq > objects[i].last_seq + 1
                THEN h.seq - objects[i].last_seq - 1 ELSE 0
    BY <2>1, <2>2 DEF SeqGap, Later
  <2> QED
    BY <1>3, <2>1, <2>3
<1> HIDE DEF gap
<1>15. /\ m \in MetricsSet /\ m.chunks = metrics.chunks /\ m.event_drops = metrics.event_drops
       /\ m.frames = metrics.frames + 1 /\ m.seq_gaps = metrics.seq_gaps + gap
       /\ m.frames_refused = metrics.frames_refused
  <2>1. metrics.seq_gaps + gap \in Nat /\ metrics.frames + 1 \in Nat
    BY <1>7, <1>14 DEF MetricsSet
  <2>2. m \in MetricsSet
    BY <1>7, <2>1 DEF MetricsSet
  <2> QED
    BY <1>7, <2>2 DEF MetricsSet
<1> HIDE DEF m
<1>16. /\ metrics' \in MetricsSet /\ events' \in Seq(Events) /\ Len(events') <= EventCapacity
       /\ metrics'.frames = metrics.frames + 1 /\ metrics'.seq_gaps = metrics.seq_gaps + gap
       /\ metrics'.frames_refused = metrics.frames_refused
  BY <1>1, <1>8, <1>9, <1>15, EmitSound
<1>17. <<>> \in Seq(Frames) /\ Len(<<>>) = 0
  BY EmptySeq
<1>18. TypeOK'
  BY <1>1, <1>2, <1>12, <1>16, <1>17 DEF TypeOK, feed, pub
<1>19. Control'
  <2>1. ~ hot_done /\ pub_pc # "exited" /\ pub_pc # "empty?"
    BY <1>1, <1>2 DEF Control
  <2>2. \A j \in due' : Active(j)'
    BY <1>1, <1>2, <1>13 DEF Control, TypeOK
  <2> QED
    BY <1>2, <2>1, <2>2 DEF Control, pub
<1>20. SessionsSound'
  <2>1. \A j \in Objects : Active(j)' => objects'[j].id \in Ids /\ objects'[j].last_seq \in Nat
    BY <1>3, <1>10, <1>12, <1>13 DEF PathInv, SessionsSound
  <2>2. \A j \in Objects : j # i => ~ (Active(j) /\ objects[j].id = h.id)
    BY <1>4 DEF PathInv, SessionsSound
  <2>3. \A j, k \in Objects : Active(j)' /\ Active(k)' /\ objects'[j].id = objects'[k].id => j = k
    BY <1>10, <1>12, <1>13, <2>2 DEF PathInv, SessionsSound
  <2>4. \A j \in Objects : ~ Active(j)' => ~ objects'[j].chunker.open
    BY <1>12, <1>13 DEF PathInv, SessionsSound
  <2> QED
    BY <2>1, <2>3, <2>4 DEF SessionsSound
<1>21. FramesAccounted'
  <2>1. Offered' = Offered
    BY <1>2, OfferedSum DEF feed
  <2>2. /\ Offered = ring_full_drops + Len(frames) + Len(hand) + metrics.frames
                       + metrics.frames_refused
        /\ ring_full_drops \in Nat /\ Len(frames) \in Nat
        /\ metrics.frames \in Nat /\ metrics.frames_refused \in Nat
    BY <1>1, LenProperties DEF PathInv, FramesAccounted, TypeOK, MetricsSet
  <2>3. /\ ring_full_drops' = ring_full_drops /\ frames' = frames /\ Len(hand') = 0
        /\ metrics'.frames = metrics.frames + 1
        /\ metrics'.frames_refused = metrics.frames_refused
    BY <1>2, <1>16, <1>17 DEF feed
  <2>4. Offered = ring_full_drops' + Len(frames') + Len(hand') + metrics'.frames
                    + metrics'.frames_refused
    BY <1>3, <2>2, <2>3
  <2> QED
    BY <2>1, <2>4 DEF FramesAccounted
<1>22. /\ ChunksAccounted' /\ NumbersCounted'
       /\ FramesIn(events) \in Nat /\ FramesIn(events') \in Nat
       /\ step.out = <<>> => FramesIn(events') = FramesIn(events)
       /\ \A n \in Nat : step.out = <<n>> => FramesIn(events') <= FramesIn(events) + n
  BY <1>2, <1>8, <1>9, <1>15, EmitParts DEF pub
<1>23. FramesShippedOnce'
  <2>1. /\ Held \in Nat /\ Held' \in Nat /\ Holds(i) \in Nat /\ Holds(i)' \in Nat
        /\ Held' + Holds(i) = Held + Holds(i)'
    BY <1>1, <1>12, <1>18, HeldUpdate
  <2>2. Holds(i) = c.held + c.kept /\ Holds(i)' = step.chunker.held + step.chunker.kept
    BY <1>10, <1>12 DEF Holds
  <2>3. FramesIn(events') + Holds(i)' <= FramesIn(events) + Holds(i) + 1
    <3>1. CASE step.out = <<>>
      <4>1. Holds(i)' <= Holds(i) + 1 /\ FramesIn(events') = FramesIn(events)
        BY <1>9, <1>22, <2>2, <3>1
      <4> QED
        BY <1>22, <2>1, <4>1
    <3>2. ASSUME NEW n \in Nat, step.out = <<n>>
          PROVE  FramesIn(events') + Holds(i)' <= FramesIn(events) + Holds(i) + 1
      <4>1. Holds(i)' + n <= Holds(i) + 1 /\ FramesIn(events') <= FramesIn(events) + n
        BY <1>9, <1>22, <2>2, <3>2
      <4> QED
        BY <1>22, <2>1, <4>1
    <3> QED
      BY <1>9, <3>1, <3>2
  <2>4. /\ Shipped = published.frames + FramesIn(buffered) + FramesIn(events) + Held
        /\ Shipped' = published.frames + FramesIn(buffered) + FramesIn(events') + Held'
    BY <1>2 DEF Shipped, pub
  <2>5. /\ published.frames \in Nat /\ FramesIn(buffered) \in Nat /\ metrics.frames \in Nat
        /\ FramesIn(events) \in Nat /\ FramesIn(events') \in Nat
    BY <1>1, <1>22, FramesInType DEF TypeOK, MetricsSet
  <2>6. Shipped <= metrics.frames /\ metrics'.frames = metrics.frames + 1
    BY <1>16, ShippedOnce DEF PathInv
  <2>7. Shipped' <= metrics'.frames
    BY <2>1, <2>3, <2>4, <2>5, <2>6
  <2> QED
    BY <2>7, ShippedOnce
<1>24. GapsCounted'
  <2>1. PICK shed \in SUBSET OfferedPairs : \E missed \in SUBSET shed :
          /\ IsFiniteSet(shed) /\ Cardinality(shed) = ring_full_drops
          /\ Cardinality(missed) = metrics.seq_gaps
          /\ PassedBy(shed) /\ MissedBefore(missed)
    BY DEF PathInv, GapsCounted
  <2>2. PICK missed \in SUBSET shed :
          /\ IsFiniteSet(shed) /\ Cardinality(shed) = ring_full_drops
          /\ Cardinality(missed) = metrics.seq_gaps
          /\ PassedBy(shed) /\ MissedBefore(missed)
    BY <2>1
  <2>3. OfferedPairs' = OfferedPairs /\ ring_full_drops' = ring_full_drops
    BY <1>2 DEF OfferedPairs, feed
  <2>4. \A j \in Objects : j # i => ~ (Active(j) /\ objects[j].id = h.id)
    BY <1>4 DEF PathInv, SessionsSound
  <2>5. ASSUME NEW j \in Objects, Active(j)'
        PROVE  \/ j = i /\ objects'[j].id = h.id /\ objects'[j].last_seq = h.seq
               \/ /\ j # i /\ Active(j) /\ objects[j].id # h.id
                  /\ objects'[j].id = objects[j].id /\ objects'[j].last_seq = objects[j].last_seq
    BY <1>10, <1>12, <1>13, <2>4, <2>5
  <2>6. PassedBy(shed)'
    <3>1. ASSUME NEW pair \in OfferedPairs, pair \notin shed, ~ Queued(pair)',
                 ~ Queued(pair)
          PROVE  /\ Past(pair)'
                 /\ \A j \in Objects : Active(j)' /\ objects'[j].id = pair[1]
                                         => pair[2] <= objects'[j].last_seq
      <4>1. /\ Past(pair)
            /\ \A j \in Objects : Active(j) /\ objects[j].id = pair[1]
                                    => pair[2] <= objects[j].last_seq
        BY <2>2, <3>1 DEF PassedBy
      <4>2. Past(pair)' /\ (pair[1] = h.id => pair[2] < h.seq)
        BY <1>3, <4>1
      <4>3. pair[2] \in Nat
        BY <1>1, PairsOffered
      <4>4. ASSUME NEW j \in Objects, Active(j)', objects'[j].id = pair[1]
            PROVE  pair[2] <= objects'[j].last_seq
        BY <1>3, <2>5, <4>1, <4>2, <4>3, <4>4
      <4> QED
        BY <4>2, <4>4
    <3>2. ASSUME NEW pair \in OfferedPairs, pair[1] = h.id, pair[2] = h.seq
          PROVE  /\ Past(pair)'
                 /\ \A j \in Objects : Active(j)' /\ objects'[j].id = pair[1]
                                         => pair[2] <= objects'[j].last_seq
      <4>1. Past(pair)'
        BY <1>3, <3>2
      <4>2. \A j \in Objects : Active(j)' /\ objects'[j].id = pair[1]
                                 => pair[2] <= objects'[j].last_seq
        BY <1>3, <2>5, <3>2
      <4> QED
        BY <4>1, <4>2
    <3>3. \A pair : Queued(pair) => Queued(pair)' \/ (pair[1] = h.id /\ pair[2] = h.seq)
      BY <1>3
    <3> QED
      BY <2>3, <3>1, <3>2, <3>3 DEF PassedBy
  <2>7. MissedBefore(missed)'
    <3>1. ASSUME NEW pair \in missed
          PROVE  /\ Past(pair)'
                 /\ \A j \in Objects : Active(j)' /\ objects'[j].id = pair[1]
                                         => pair[2] < objects'[j].last_seq
      <4>1. /\ Past(pair)
            /\ \A j \in Objects : Active(j) /\ objects[j].id = pair[1]
                                    => pair[2] < objects[j].last_seq
        BY <2>2 DEF MissedBefore
      <4>2. Past(pair)' /\ (pair[1] = h.id => pair[2] < h.seq)
        BY <1>3, <4>1
      <4> QED
        BY <2>5, <4>1, <4>2
    <3> QED
      BY <3>1 DEF MissedBefore
  <2>8. metrics.seq_gaps \in Nat /\ metrics'.seq_gaps = metrics.seq_gaps + gap
    BY <1>7, <1>16 DEF MetricsSet
  <2>9. CASE gap = 0
    <3>1. metrics'.seq_gaps = metrics.seq_gaps
      BY <2>8, <2>9
    <3> QED
      BY <2>2, <2>3, <2>6, <2>7, <3>1 DEF GapsCounted
  <2>10. CASE gap # 0
    <3>1. PICK l \in Nat : l = objects[i].last_seq
      BY <1>14, <2>10
    <3>2. Active(i) /\ objects[i].id = h.id /\ h.seq > l + 1 /\ gap = h.seq - l - 1
      BY <1>4, <1>14, <2>10, <3>1
    <3> DEFINE G == {h.id} \X (l + 1 .. h.seq - 1)
               more == missed \cup G
    <3>3. IsFiniteSet(G) /\ Cardinality(G) = gap
      <4>1. /\ IsFiniteSet(l + 1 .. h.seq - 1)
            /\ Cardinality(l + 1 .. h.seq - 1) = (h.seq - 1) - (l + 1) + 1
        <5> DEFINE a == l + 1
                   b == h.seq - 1
        <5>1. a \in Int /\ b \in Int /\ ~ (a > b)
          BY <1>3, <3>2
        <5> HIDE DEF a, b
        <5>2. IsFiniteSet(a .. b) /\ Cardinality(a .. b) = b - a + 1
          BY <5>1, FS_Interval
        <5> QED
          BY <5>2 DEF a, b
      <4>2. IsFiniteSet({h.id}) /\ Cardinality({h.id}) = 1
        BY FS_Singleton
      <4>3. IsFiniteSet(G) /\ Cardinality(G) = 1 * Cardinality(l + 1 .. h.seq - 1)
        BY <4>1, <4>2, FS_Product
      <4> QED
        BY <1>3, <3>2, <4>1, <4>3
    <3>4. ASSUME NEW pair \in G
          PROVE  /\ pair[1] = h.id /\ pair[2] \in Nat /\ pair[2] > l /\ pair[2] < h.seq
                 /\ pair = <<pair[1], pair[2]>>
      BY <1>3
    <3>5. h.seq < next_seq[h.id] /\ next_seq[h.id] \in Nat
      <4>1. Len(frames) \in Nat /\ Len(Queue) = 1 + Len(frames)
        BY <1>1, <1>3, QueueType, LenProperties
      <4>2. 1 \in 1 .. Len(Queue) /\ Queue[1] = h
        <5>1. 1 \in 1 .. Len(hand) + Len(frames) /\ 1 <= Len(hand)
          BY <1>3, <4>1
        <5>2. Queue[1] = hand[1]
          BY <1>1, <5>1, QueueType, ConcatProperties DEF Queue
        <5> QED
          BY <1>5, <4>1, <5>2
      <4>3. Queue[1].seq < next_seq[Queue[1].id]
        BY <4>2 DEF PathInv, QueueOrdered
      <4> QED
        BY <1>1, <1>3, <4>2, <4>3 DEF TypeOK
    <3>6. ASSUME NEW pair \in G
          PROVE  pair \in shed
      <4>1. pair \in OfferedPairs
        BY <1>1, <1>3, <3>4, <3>5, PairsOffered
      <4>2. ~ Queued(pair)
        BY <1>3, <3>4
      <4>3. ~ (pair[2] <= objects[i].last_seq)
        BY <3>1, <3>4
      <4>4. pair \notin shed => pair[2] <= objects[i].last_seq
        BY <2>2, <3>2, <3>4, <4>1, <4>2 DEF PassedBy
      <4> QED
        BY <4>3, <4>4
    <3>7. missed \cap G = {}
      <4>1. ASSUME NEW pair \in G, pair \in missed PROVE FALSE
        BY <2>2, <3>1, <3>2, <3>4, <4>1 DEF MissedBefore
      <4> QED
        BY <4>1
    <3>8. MissedBefore(G)'
      <4>1. ASSUME NEW pair \in G
            PROVE  /\ Past(pair)'
                   /\ \A j \in Objects : Active(j)' /\ objects'[j].id = pair[1]
                                           => pair[2] < objects'[j].last_seq
        <5>1. Past(pair)'
          BY <1>3, <3>4
        <5> QED
          BY <2>5, <3>4, <5>1
      <4> QED
        BY <4>1 DEF MissedBefore
    <3>9. IsFiniteSet(missed) /\ Cardinality(missed) = metrics.seq_gaps
      BY <2>2, FS_Subset
    <3> HIDE DEF G
    <3>10. Cardinality(more) = metrics'.seq_gaps
      <4>1. Cardinality(more) = Cardinality(missed) + Cardinality(G) - Cardinality(missed \cap G)
        BY <3>3, <3>9, FS_Union
      <4>2. Cardinality(missed \cap G) = 0
        BY <3>7, FS_EmptySet
      <4> QED
        BY <1>14, <2>8, <3>3, <3>9, <4>1, <4>2
    <3>11. more \in SUBSET shed
      BY <3>6
    <3>12. MissedBefore(more)'
      BY <2>7, <3>8 DEF MissedBefore
    <3> HIDE DEF more
    <3> QED
      BY <2>2, <2>3, <2>6, <3>10, <3>11, <3>12 DEF GapsCounted
  <2> QED
    BY <2>9, <2>10
<1> QED
  BY <1>3, <1>18, <1>19, <1>20, <1>21, <1>22, <1>23, <1>24 DEF PathInv

-----------------------------------------------------------------------------
(* The theorems.                                                           *)

LEMMA NextPathInv ==
  ASSUME PathInv, [Next]_vars
  PROVE  PathInv'
<1>1. CASE Tick
  BY <1>1, TickStep
<1>2. CASE Signal
  BY <1>2, ControlSteps
<1>3. CASE HotThread
  <2>1. CASE Release
    BY <2>1, ReleaseStep
  <2>2. CASE Pop
    BY <2>2, PopStep
  <2>3. CASE Work
    BY <2>3, WorkStep
  <2>4. CASE Refuse
    BY <2>4, RefuseStep
  <2>5. CASE Setup \/ LoopTop \/ LoopEnd \/ SweepEnd \/ StopIngest \/ StoreDone \/ Join
    BY <2>5, ControlSteps
  <2> QED
    BY <1>3, <2>1, <2>2, <2>3, <2>4, <2>5 DEF HotThread, InLoop
<1>4. CASE Publisher
  BY <1>4, PublisherSteps
<1>5. ASSUME NEW id \in Ids, Feed(id)
      PROVE  PathInv'
  BY <1>5, FeedStep
<1>6. CASE UNCHANGED vars
  <2>1. UNCHANGED <<g_running, feed, hot, table, pub>>
    BY <1>6 DEF vars
  <2>2. TypeOK' /\ Control'
    BY <2>1 DEF PathInv, TypeOK, Control, Active, feed, hot, table, pub
  <2> QED
    BY <2>1, <2>2, MoveOn DEF hot
<1> QED
  BY <1>1, <1>2, <1>3, <1>4, <1>5, <1>6 DEF Next

LEMMA PathInvariant == Spec => []PathInv
<1>1. Init => PathInv
  BY InitPathInv
<1>2. PathInv /\ [Next]_vars => PathInv'
  BY NextPathInv
<1> QED
  BY <1>1, <1>2, PTL DEF Spec

\* Every frame that is offered is counted once by the two processes together,
\* whatever is shed, refused, swept or lost (vhp_consumer.cpp:327-374).
THEOREM FramesAddUp == Spec => []HotPathInv
<1>1. PathInv => HotPathInv
  BY DEF PathInv, HotPathInv
<1> QED
  BY <1>1, PathInvariant, PTL

\* Every chunk counted by emit() is on standard output, buffered, waiting or
\* counted as dropped, and chunks come out in the order they were closed
\* (vhp_consumer.cpp:256-271 and 229-254).
THEOREM ChunksAddUp == Spec => []ChunksAccounted
<1>1. PathInv => ChunksAccounted
  BY DEF PathInv
<1> QED
  BY <1>1, PathInvariant, PTL

\* No frame is shipped twice, nor shipped and kept by the pre-roll of the object
\* that the next call takes over.
THEOREM ShippedAtMostOnce == Spec => []FramesShippedOnce
<1>1. PathInv => FramesShippedOnce
  BY DEF PathInv
<1> QED
  BY <1>1, PathInvariant, PTL

\* metrics.hpp:35: seq_gaps never exceeds the frames that the ring shed; a call
\* that is expired, refused or replaced shows no gap.
THEOREM GapsAreShedFrames == Spec => []GapsAreDrops
<1>1. PathInv => GapsAreDrops
  <2> SUFFICES ASSUME PathInv PROVE GapsAreDrops
    OBVIOUS
  <2>1. PICK shed \in SUBSET OfferedPairs : \E missed \in SUBSET shed :
          /\ IsFiniteSet(shed) /\ Cardinality(shed) = ring_full_drops
          /\ Cardinality(missed) = metrics.seq_gaps
    BY DEF PathInv, GapsCounted
  <2> QED
    BY <2>1, FS_Subset DEF GapsAreDrops
<1> QED
  BY <1>1, PathInvariant, PTL

\* main: when the process exits, the event ring and standard output's buffer are
\* empty, every chunk is closed, and what was not printed was counted as dropped.
THEOREM ExitLeavesNothing == Spec => []NothingLeftBehind
<1>1. PathInv => NothingLeftBehind
  <2> SUFFICES ASSUME PathInv, hot_pc = "exited"
               PROVE  /\ events = <<>> /\ buffered = <<>>
                      /\ \A i \in Objects : ~ objects[i].chunker.open
                      /\ metrics.chunks = published.chunks + metrics.event_drops
    BY DEF NothingLeftBehind
  <2>1. events = <<>> /\ buffered = <<>> /\ \A i \in Objects : ~ Active(i)
    BY DEF PathInv, Control
  <2>2. \A i \in Objects : ~ objects[i].chunker.open
    BY <2>1 DEF PathInv, SessionsSound
  <2>3. Len(buffered \o events) = 0
    BY <2>1
  <2>4. metrics.chunks = published.chunks + 0 + metrics.event_drops
    BY <2>3 DEF PathInv, ChunksAccounted
  <2>5. published.chunks \in Nat
    BY DEF PathInv, TypeOK
  <2> QED
    BY <2>1, <2>2, <2>4, <2>5
<1> QED
  BY <1>1, PathInvariant, PTL
=============================================================================
