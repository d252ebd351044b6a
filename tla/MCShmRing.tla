----------------------------- MODULE MCShmRing -----------------------------
(***************************************************************************)
(* An instance of ShmRing for TLC: three creators, one after the other or  *)
(* at once, which are interchangeable.                                     *)
(***************************************************************************)
EXTENDS ShmRing, TLC

Interchangeable == Permutations(Creators)
=============================================================================
