----------------------------- MODULE PointByLog -----------------------------
(***************************************************************************)
(* Points of the group by their discrete logarithm to the base G: m stands *)
(* for m times G, 0 for the point at infinity.  What the assembly's point  *)
(* routines do with each case of their operands is checked against the     *)
(* curve equation in Curve; here is the result in terms of logarithms.     *)
(***************************************************************************)
EXTENDS Integers

CONSTANT N       \* the order of G, an odd prime

ASSUME OrderAssumption == N \in Nat /\ N > 2 /\ N % 2 = 1

Points == 0..N - 1

Infinity == 0
G == 1

PointDbl(a) == (2 * a) % N

\* Complete: equal operands are doubled.
PointAdd(a, b) == (a + b) % N

\* Equal operands are not doubled: their difference is 0, and so is Z3.
PointAddAffine(a, b) == IF a = b THEN Infinity ELSE (a + b) % N

PointNeg(a) == (N - a) % N

\* Seven doublings.
Dbl7(a) == PointDbl(PointDbl(PointDbl(PointDbl(PointDbl(PointDbl(PointDbl(a)))))))

\* Powers of two, as a recursive function.
TwoTo[n \in Nat] == IF n = 0 THEN 1 ELSE 2 * TwoTo[n - 1]

\* The multiple of G that row w of the precomputed table holds at place k,
\* counted from 1: k times 2^(7w).
TableEntry(w, k) == (k * TwoTo[7 * w]) % N
=============================================================================
