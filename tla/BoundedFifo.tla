---------------------------- MODULE BoundedFifo ----------------------------
(***************************************************************************)
(* What a single-producer/single-consumer ring promises: a first-in,       *)
(* first-out queue of at most Capacity items.  A put is possible whenever  *)
(* there is room and nothing that was put is lost, altered, duplicated or  *)
(* reordered.  A refused put changes nothing, so it is a stuttering step.  *)
(***************************************************************************)
EXTENDS Naturals, Sequences

CONSTANTS Capacity, Values

VARIABLES
  queue,   \* items accepted and not yet handed over
  taken    \* everything handed to the consumer so far, oldest first

fifoVars == <<queue, taken>>

Init == queue = <<>> /\ taken = <<>>

Put(v) == /\ Len(queue) < Capacity
          /\ queue' = Append(queue, v)
          /\ UNCHANGED taken

Take == /\ queue # <<>>
        /\ taken' = Append(taken, Head(queue))
        /\ queue' = Tail(queue)

Next == Take \/ \E v \in Values : Put(v)

Spec == Init /\ [][Next]_fifoVars

\* Every item that was accepted is eventually handed over.
FairSpec == Spec /\ WF_fifoVars(Take)
=============================================================================
