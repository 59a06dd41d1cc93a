--------------------------- MODULE MCScalarMulGen ---------------------------
(***************************************************************************)
(* Two clients that take turns, rows of 64 entries as in the code, and a   *)
(* group of 65521 points: as close below 2^16 as the curve's order is to   *)
(* 2^256 in proportion, so that the table needs three rows and the top     *)
(* window can wrap around the order; 65521 is prime.  Scalars of 16 bits:  *)
(* the smallest, those around the order and beyond it, and a stride        *)
(* between that meets every value of every window.                         *)
(***************************************************************************)
EXTENDS ScalarMulGen, TLC
SomeScalars ==
  {x \in 0..65535 : x < 256 \/ x > N - 256 \/ x % 61 = 0}
Callers == Permutations(Threads)
=============================================================================
