------------------------------ MODULE FieldOps ------------------------------
(***************************************************************************)
(* The routines for one modular operation without Montgomery               *)
(* multiplication: the secp256k1_* ones, whose modulus is the field's      *)
(* P = R - C, with the subroutines of the point routines, and the fp256_*  *)
(* ones, which take any modulus.  The machine keeps two residues and       *)
(* replaces the first by the result of a call, so that every result is an  *)
(* operand of later calls.                                                 *)
(*                                                                         *)
(* The carry of a chain of add/adc or sub/sbb over the four limbs is kept  *)
(* in a fifth register; a number here is the four limbs' value, below R,   *)
(* and a sum or difference the five registers'.                            *)
(***************************************************************************)
EXTENDS Integers

CONSTANTS
  R,        \* 2^256
  C,        \* R - C is the field's modulus: 2^32 + 977
  B,        \* 2^64, the bound of a word operand
  Moduli,   \* moduli passed to the fp256_* routines
  Fault,    \* the outcome of a call that ends in an access violation
  WordAt    \* the limb in memory at an address, Fault where nothing is mapped

P == R - C

ASSUME FieldAssumption ==
  /\ R \in Nat /\ C \in Nat /\ B \in Nat
  /\ 1 < B /\ 0 < C /\ (B + 1) * C <= R /\ B + C <= R /\ 2 * C < R
  /\ R % 2 = 0 /\ C % 2 = 1

\* A modulus has more than one limb.
ASSUME ModuliAssumption == \A p \in Moduli : p \in Nat /\ B <= p /\ p < R /\ p % 2 = 1

ASSUME MemoryAssumption ==
  Fault \notin Int /\ WordAt \in [0..B - 1 -> (0..B - 1) \cup {Fault}]

VARIABLES
  p,        \* the modulus of the calls: P, or the fp256_* callers' choice
  a, b,     \* the operands
  op, r     \* the last call and its result

vars == <<p, a, b, op, r>>

----------------------------------------------------------------------------
\* Slip: the carry beyond the fourth limb is not part of the comparison.
SubtractOnce_NoCarry(x, m) == IF x % R < m THEN x % R ELSE (x - m) % R

\* sub/sbb of the modulus with the carry as fifth limb, cmovc back.
SubtractOnce(x, m) == IF x < m THEN x % R ELSE (x - m) % R

\* Slip: the modulus is added whether or not there was a borrow.
AddOnBorrow_Always(x, m) == (x + m) % R

\* Slip: the sum is kept with its carry.
AddOnBorrow_Carry(x, m) == IF x < 0 THEN x + m + R ELSE x

\* The modulus is added, and taken only if the difference had a borrow.
AddOnBorrow(x, m) == IF x < 0 THEN (x + m) % R ELSE x

\* The modulus is added to an odd number; the carry is shifted in at the top.
Halve(x, m) == IF x % 2 = 0 THEN x \div 2 ELSE (x + m) \div 2

\* The field's routines.
Add(x, y) == SubtractOnce(x + y, P)
Sub(x, y) == AddOnBorrow(x - y, P)
MulBy2(x) == SubtractOnce(2 * x, P)
MulBy3(x) == SubtractOnce(MulBy2(x) + x, P)
DivBy2(x) == Halve(x, P)
Neg(x)    == AddOnBorrow(-x, P)

\* secp256k1_reduce: C is added to find out whether x + C carries, but the
\* carry never reaches the register that is tested.
Reduce(x) ==
  LET t4 == 0
  IN  IF t4 = 0 THEN x ELSE (x + C) % R

\* secp256k1_mul_word: the product's fifth limb times C is added back once;
\* the jump for more (jl) is never taken, the carry being 0 or 1.
MulWord(x, w) == SubtractOnce(((x * w) % R) + ((x * w) \div R) * C, P)

\* The routines with the modulus as argument.
FpAdd(x, y, m) == SubtractOnce(x + y, m)
FpSub(x, y, m) == AddOnBorrow(x - y, m)
FpDouble(x, m) == SubtractOnce(2 * x, m)
FpTriple(x, m) == SubtractOnce(FpDouble(x, m) + x, m)
FpDivBy2(x, m) == Halve(x, m)

\* fp256_neg: one subtraction from the modulus, nothing else.
FpNeg(x, m) == (m - x) % R

\* The word is passed by value, but the code takes the register for the
\* address of a limb, as it would for fp256_add's second operand.
FpAddWord(x, w, m) == IF WordAt[w] = Fault THEN Fault ELSE SubtractOnce(x + WordAt[w], m)

FpSubWord(x, w, m) == IF WordAt[w] = Fault THEN Fault ELSE AddOnBorrow(x - WordAt[w], m)

\* The subroutines of the point routines: the first operand in a0..a3 (that of
\* sub in t0..t3), the second in memory (that of sub in a0..a3), with a
\* chain of add or sub as above ...
AddToQ(x, y)   == SubtractOnce(x + y, P)
SubFromQ(x, y) == AddOnBorrow(x - y, P)
SubQ(x, y)     == AddOnBorrow(y - x, P)
MulBy2Q(x)     == SubtractOnce(2 * x, P)

\* ... and, where ADX is used, of adc or sbb from the first limb on: the carry
\* they take in is the one that the xor of t4 with itself has cleared.
Cleared        == 0
AddToX(x, y)   == SubtractOnce(x + y + Cleared, P)
SubFromX(x, y) == AddOnBorrow(x - y - Cleared, P)
SubX(x, y)     == AddOnBorrow(y - x - Cleared, P)
MulBy2X(x)     == SubtractOnce(2 * x + Cleared, P)

----------------------------------------------------------------------------
Init ==
  /\ p \in Moduli \cup {P}
  /\ a \in 0..p - 1 /\ b \in 0..p - 1
  /\ op = "none" /\ r = 0

Call(name, result) ==
  /\ op = "none"
  /\ op' = name /\ r' = result
  /\ UNCHANGED <<p, a, b>>

CallAdd     == p = P /\ Call("add", Add(a, b))
CallSub     == p = P /\ Call("sub", Sub(a, b))
CallMulBy2  == p = P /\ Call("mul_by_2", MulBy2(a))
CallMulBy3  == p = P /\ Call("mul_by_3", MulBy3(a))
CallDivBy2  == p = P /\ Call("div_by_2", DivBy2(a))
CallNeg     == p = P /\ Call("neg", Neg(a))
CallReduce  == p = P /\ Call("reduce", Reduce(a))
CallMulWord == p = P /\ b < B /\ Call("mul_word", MulWord(a, b))

CallAddToQ   == p = P /\ Call("add_toq", AddToQ(a, b))
CallSubFromQ == p = P /\ Call("sub_fromq", SubFromQ(a, b))
CallSubQ     == p = P /\ Call("subq", SubQ(a, b))
CallMulBy2Q  == p = P /\ Call("mul_by_2q", MulBy2Q(a))
CallAddToX   == p = P /\ Call("add_tox", AddToX(a, b))
CallSubFromX == p = P /\ Call("sub_fromx", SubFromX(a, b))
CallSubX     == p = P /\ Call("subx", SubX(a, b))
CallMulBy2X  == p = P /\ Call("mul_by_2x", MulBy2X(a))

\* secp256k1_rand and the scalar multiplications reduce 256 bits as they come.
CallReduceRaw ==
  /\ op = "none" /\ p = P
  /\ \E x \in P..R - 1 : a' = x /\ r' = Reduce(x)
  /\ op' = "reduce"
  /\ UNCHANGED <<p, b>>

CallFpAdd     == Call("fp_add", FpAdd(a, b, p))
CallFpSub     == Call("fp_sub", FpSub(a, b, p))
CallFpDouble  == Call("fp_double", FpDouble(a, p))
CallFpTriple  == Call("fp_triple", FpTriple(a, p))
CallFpDivBy2  == Call("fp_div_by_2", FpDivBy2(a, p))
CallFpNeg     == Call("fp_neg", FpNeg(a, p))
CallFpAddWord == b < B /\ Call("fp_add_word", FpAddWord(a, b, p))
CallFpSubWord == b < B /\ Call("fp_sub_word", FpSubWord(a, b, p))

\* A reduced result becomes an operand of the next call.
Chain ==
  /\ op # "none" /\ r # Fault /\ r < p
  /\ a' = r /\ op' = "none" /\ r' = 0
  /\ UNCHANGED <<p, b>>

\* An access violation, or a result that is no operand.
Stopped == op # "none" /\ (r # Fault => r >= p) /\ UNCHANGED vars

FieldCall == CallAdd \/ CallSub \/ CallMulBy2 \/ CallMulBy3 \/ CallDivBy2
          \/ CallNeg \/ CallReduce \/ CallReduceRaw \/ CallMulWord

FpCall == CallFpAdd \/ CallFpSub \/ CallFpDouble \/ CallFpTriple \/ CallFpDivBy2
       \/ CallFpNeg \/ CallFpAddWord \/ CallFpSubWord

PointCall == CallAddToQ \/ CallSubFromQ \/ CallSubQ \/ CallMulBy2Q
          \/ CallAddToX \/ CallSubFromX \/ CallSubX \/ CallMulBy2X

Next == FieldCall \/ FpCall \/ PointCall \/ Chain \/ Stopped

Spec == Init /\ [][Next]_vars

----------------------------------------------------------------------------
Ops == {"none", "add", "sub", "mul_by_2", "mul_by_3", "div_by_2", "neg", "reduce", "mul_word",
        "fp_add", "fp_sub", "fp_double", "fp_triple", "fp_div_by_2", "fp_neg",
        "fp_add_word", "fp_sub_word",
        "add_toq", "sub_fromq", "subq", "mul_by_2q", "add_tox", "sub_fromx", "subx", "mul_by_2x"}

TypeOK ==
  /\ p \in Moduli \cup {P} /\ a \in 0..R - 1 /\ b \in 0..R - 1
  /\ op \in Ops /\ r \in (0..R - 1) \cup {Fault}

\* secp256k1.h:48-50: the routines "preserve the property of inputs being
\* fully reduced", whatever their operands and however they are chained, for
\* every modulus.  There are exactly two ways to a number that is not: the
\* negative of 0 by fp256_neg, which is the modulus, and secp256k1_reduce
\* itself, which returns what it was given.
ResultReduced ==
  op # "none" /\ r # Fault =>
    (r >= p <=> \/ op = "fp_neg" /\ a = 0
                \/ op = "reduce" /\ a >= p)

\* The result is the one the headers name, modulo the modulus, for every
\* routine but the two that take a word (secp256k1.h:56-85, fp256.h:39-52).
ResultRight ==
  /\ op \in {"add", "fp_add", "add_toq", "add_tox"} => r % p = (a + b) % p
  /\ op \in {"sub", "fp_sub", "sub_fromq", "sub_fromx"} => (r + b) % p = a
  /\ op \in {"subq", "subx"} => (r + a) % p = b
  /\ op \in {"mul_by_2", "fp_double", "mul_by_2q", "mul_by_2x"} => r % p = (2 * a) % p
  /\ op \in {"mul_by_3", "fp_triple"} => r % p = (3 * a) % p
  /\ op \in {"div_by_2", "fp_div_by_2"} => (2 * r) % p = a
  /\ op \in {"neg", "fp_neg"} => (r + a) % p = 0
  /\ op = "reduce" => r % p = a % p
  /\ op = "mul_word" => r % p = (a * b) % p
=============================================================================
