------------------------------- MODULE Shift -------------------------------
(***************************************************************************)
(* The shifts of histogram.hpp and of the codec.                           *)
(***************************************************************************)
EXTENDS Integers

\* 1 << n.
Bit(n) ==
  LET bit[k \in 0 .. n] == IF k = 0 THEN 1 ELSE 2 * bit[k - 1]
  IN  bit[n]
=============================================================================
