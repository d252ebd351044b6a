--------------------------- MODULE MCSessionTable ---------------------------
(***************************************************************************)
(* Instances of SessionTable for TLC.                                      *)
(***************************************************************************)
EXTENDS SessionTable

AllHashes == [Ids -> Slots]

\* Nothing depends on which slot is the first or which id is which, so one
\* hash of each class is enough: id 0 starts at slot 0 and the others in order.
HashesUpToSymmetry ==
  {h \in AllHashes : h[0] = 0 /\ \A i, j \in Ids \ {0} : i < j => h[i] <= h[j]}
=============================================================================
