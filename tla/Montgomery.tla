----------------------------- MODULE Montgomery -----------------------------
(***************************************************************************)
(* Montgomery arithmetic modulo B^4 - C, whose form lets a reduction step  *)
(* subtract the product of m by C, one limb each and at most two together, *)
(* instead of a multiple of all four limbs.                                *)
(*                                                                         *)
(* __secp256k1_mul_montq and mul_montx (behind secp256k1_mul_mont and      *)
(* secp256k1_to_mont, by cpu_info) multiply row by row and reduce after    *)
(* each row; their accumulator of six limbs, which the code names in turn  *)
(* so that the lowest falls away, is one number here.  __secp256k1_sqr_-   *)
(* montq, sqr_montx and secp256k1_from_mont reduce four registers in four  *)
(* steps and then add the upper half of the square.  Their borrow chain is *)
(* written register by register, because in from_mont and sqr_montq it     *)
(* names the wrong one: from the second step on, the borrow out of the     *)
(* third limb goes to a register other than the fourth limb's.             *)
(***************************************************************************)
EXTENDS Integers

CONSTANTS
  B,         \* 2^64: a limb is a number below B
  C, K       \* 2^32 + 977, and its inverse modulo B

R == B * B * B * B
P == R - C

\* With C = 1 two misplaced borrows could cancel.
ASSUME LimbAssumption ==
  /\ B \in Nat /\ C \in Nat /\ K \in Nat
  /\ 1 < C /\ C < B /\ K < B /\ (K * C) % B = 1

VARIABLES
  routine,
  a, b,      \* operands; b of a multiplication only
  acc,       \* a multiplication's accumulator, a square's upper half, the result
  reg,       \* the four registers that sqr_mont and from_mont reduce
  i,         \* limb of b, or reduction step, that is next
  borrowed,  \* steps in which a borrow left the third limb for a wrong register
  pc

vars == <<routine, a, b, acc, reg, i, borrowed, pc>>

Muls == {"mul_montq", "mul_montx"}
Routines == Muls \cup {"sqr_montq", "sqr_montx", "from_mont"}

Pow == <<1, B, B * B, B * B * B>>

Limb(x, n) == (x \div Pow[n + 1]) % B

Limbs(x) == [n \in 0..3 |-> Limb(x, n)]

Value(r) == r[0] + B * (r[1] + B * (r[2] + B * r[3]))

AccSize == R * B * B

\* What the routine is to return, times R.
Operand == IF routine \in Muls THEN a * b ELSE IF routine = "from_mont" THEN a ELSE a * a

\* One operand of a multiplication may be any number of four limbs: to_mont's
\* caller passes the first one as it is, the second is .LRR, which is reduced.
Admitted == IF routine \in Muls THEN a < P \/ b < P ELSE a < P

----------------------------------------------------------------------------
Init ==
  /\ routine \in Routines
  /\ a \in 0..R - 1
  /\ b \in IF routine \in Muls THEN 0..R - 1 ELSE {0}
  /\ Admitted
  /\ acc = IF routine \in {"sqr_montq", "sqr_montx"} THEN (a * a) \div R ELSE 0
  /\ reg = Limbs(IF routine \in Muls THEN 0 ELSE Operand % R)
  /\ i = 0 /\ borrowed = 0
  /\ pc = IF routine \in Muls THEN "row" ELSE "reduce"

(***************************************************************************)
(* Multiplication.                                                         *)
(***************************************************************************)
\* acc + a * b[i], over six limbs.
MultiplyRow ==
  /\ pc = "row" /\ i < 4
  /\ acc' = (acc + a * Limb(b, i)) % AccSize
  /\ pc' = "reduce"
  /\ UNCHANGED <<routine, a, b, reg, i, borrowed>>

\* The factor of the modulus that clears the lowest limb
M == (Limb(acc, 0) * K) % B

\* Slip: m is not added at the fifth limb.
ReduceRow_NoTop ==
  /\ pc = "reduce" /\ routine = "mul_montq"
  /\ acc' = ((acc - M * C) % AccSize) \div B
  /\ i' = i + 1 /\ pc' = "row"
  /\ UNCHANGED <<routine, a, b, reg, borrowed>>

\* m is added at the fifth limb, m * C is subtracted at the lowest, which
\* becomes 0 and falls away; the borrow runs through all six limbs.
ReduceRow ==
  /\ pc = "reduce" /\ routine = "mul_montq"
  /\ acc' = ((acc + M * R - M * C) % AccSize) \div B
  /\ i' = i + 1 /\ pc' = "row"
  /\ UNCHANGED <<routine, a, b, reg, borrowed>>

\* Slip: the upper half of m * C is added.
ReduceRowX_Added ==
  /\ pc = "reduce" /\ routine = "mul_montx"
  /\ acc' = ((acc \div B) + M * (R \div B) + ((M * C) \div B)) % (AccSize \div B)
  /\ i' = i + 1 /\ pc' = "row"
  /\ UNCHANGED <<routine, a, b, reg, borrowed>>

\* The low half of m * C equals the lowest limb and is not subtracted at all.
ReduceRowX ==
  /\ pc = "reduce" /\ routine = "mul_montx"
  /\ acc' = ((acc \div B) + M * (R \div B) - ((M * C) \div B)) % (AccSize \div B)
  /\ i' = i + 1 /\ pc' = "row"
  /\ UNCHANGED <<routine, a, b, reg, borrowed>>

\* The modulus is subtracted once, with the fifth limb, and the four low
\* limbs of either number are stored.
SubtractOnce(x) == IF x < P THEN x % R ELSE (x - P) % R

SubtractP ==
  /\ pc = "row" /\ i = 4
  /\ acc' = SubtractOnce(acc)
  /\ pc' = "done"
  /\ UNCHANGED <<routine, a, b, reg, i, borrowed>>

(***************************************************************************)
(* Squaring and conversion.  A step puts m into the register of the lowest *)
(* limb, which thereby becomes the highest, and takes the upper half of    *)
(* m * C from the other three and it, in the order of the limbs.           *)
(***************************************************************************)
\* The registers a step of the Q routines touches, from the lowest limb up:
\* that of m, the next two, and the one the borrow out of these goes to.
ChainQ == << <<0, 1, 2, 3>>, <<1, 2, 3, 2>>, <<2, 3, 0, 3>>, <<3, 0, 1, 0>> >>

\* Those of sqr_montx.
ChainX == << <<0, 1, 2, 3>>, <<1, 2, 3, 0>>, <<2, 3, 0, 1>>, <<3, 0, 1, 2>> >>

Chain(name, n) == IF name = "sqr_montx" THEN ChainX[n] ELSE ChainQ[n]

\* m for the register of the lowest limb.
Factor(r, c) == (r[c[1]] * K) % B

\* The second and third limb less the upper half of m * C; negative if there
\* is a borrow.  (The lower half only clears the lowest limb.)
Middle(r, c) == r[c[2]] + B * r[c[3]] - ((Factor(r, c) * C) \div B)

\* Slip: the borrow out of the third limb is dropped.
Reduced_NoBorrow(r, c) ==
  LET mid == Middle(r, c)
  IN  [r EXCEPT ![c[2]] = mid % B, ![c[3]] = (mid \div B) % B, ![c[1]] = Factor(r, c)]

Reduced(r, c) ==
  LET mid == Middle(r, c)
      r1  == [r EXCEPT ![c[2]] = mid % B, ![c[3]] = (mid \div B) % B, ![c[1]] = Factor(r, c)]
      top == r1[c[4]] + B * r1[c[1]] - (IF mid < 0 THEN 1 ELSE 0)
  IN  [r1 EXCEPT ![c[4]] = top % B, ![c[1]] = (top \div B) % B]

ReduceStep ==
  /\ pc = "reduce" /\ routine \notin Muls /\ i < 4
  /\ LET c == Chain(routine, i + 1)
     IN  /\ reg' = Reduced(reg, c)
         /\ borrowed' = borrowed + (IF c # ChainX[i + 1] /\ Middle(reg, c) < 0 THEN 1 ELSE 0)
  /\ i' = i + 1
  /\ UNCHANGED <<routine, a, b, acc, pc>>

\* Slip: the sum is returned as it is.
AddUpperHalf_NoSubtraction ==
  /\ pc = "reduce" /\ routine \notin Muls /\ i = 4
  /\ acc' = (acc + Value(reg)) % R
  /\ pc' = "done"
  /\ UNCHANGED <<routine, a, b, reg, i, borrowed>>

\* The upper half is added (from_mont has none), and the modulus subtracted
\* once.
AddUpperHalf ==
  /\ pc = "reduce" /\ routine \notin Muls /\ i = 4
  /\ acc' = SubtractOnce(acc + Value(reg))
  /\ pc' = "done"
  /\ UNCHANGED <<routine, a, b, reg, i, borrowed>>

Returned == pc = "done" /\ UNCHANGED vars

Next ==
  \/ MultiplyRow \/ ReduceRow \/ ReduceRowX \/ SubtractP
  \/ ReduceStep \/ AddUpperHalf
  \/ Returned

Spec == Init /\ [][Next]_vars

----------------------------------------------------------------------------
TypeOK ==
  /\ routine \in Routines /\ a \in 0..R - 1 /\ b \in 0..R - 1
  /\ acc \in 0..AccSize - 1 /\ reg \in [0..3 -> 0..B - 1]
  /\ i \in 0..4 /\ borrowed \in 0..3
  /\ pc \in {"row", "reduce", "done"}

\* Every limb stays a limb, the accumulator never needs its sixth one between
\* the rows, where it is below the first operand plus the modulus, and after
\* the last row one subtraction is enough, whichever of the operands is not
\* reduced (secp256k1-x86_64.pl:582-584, 841-878, 1282-1301).
Bounded == TypeOK /\ (pc = "row" => acc < a + P /\ (i = 4 => acc < P + P))

\* After i limbs of b, the accumulator times B^i is a times these limbs,
\* modulo P: no carry or borrow was lost (secp256k1-x86_64.pl:654-856).
PartialProduct ==
  pc = "row" /\ i < 4 => (acc * Pow[i + 1] - a * (b % Pow[i + 1])) % P = 0

\* Whatever the routine and however its borrows go, the result is reduced.
ResultReduced == pc = "done" => acc < P

\* mul_mont and to_mont, on either instruction set, and sqr_montx are right
\* for every operand.  sqr_montq and from_mont are right for exactly those
\* operands in whose reduction no borrow leaves the third limb for the wrong
\* register (secp256k1-x86_64.pl:573-881, 1023-1078, 1362-1408, 1470-1524).
RightExactlyUnlessBorrowed ==
  pc = "done" => (borrowed = 0 <=> (acc * R - Operand) % P = 0)

\* secp256k1.h:93: "res = a*a*2^-256 mod P".
SqrRight ==
  pc = "done" /\ routine \in {"sqr_montq", "sqr_montx"} => (acc * R - a * a) % P = 0
=============================================================================
