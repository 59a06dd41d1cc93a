------------------------------ MODULE MCCurve -------------------------------
(***************************************************************************)
(* The curve over F_13, of prime order 7: every pair of Jacobian triples   *)
(* that exact calls can lead to.  One operand is squared wrongly, another  *)
(* converted wrongly, and the inverses are wrong that are computed by way  *)
(* of the wrong square, so that exact calls and others both occur.         *)
(***************************************************************************)
EXTENDS Curve

BadSqr == 6
BadFrom == 11

SomeSqr == [x \in F |-> IF x = BadSqr THEN x ELSE x ** x]

SomeFrom == [x \in F |-> IF x = BadFrom THEN 1 ELSE x]

\* z^(q - 2) by squarings and multiplications: 11 = 1011 in binary
SomeInverse == [z \in 1..q - 1 |-> SomeSqr[SomeSqr[SomeSqr[z]] ** z] ** z]
=============================================================================
