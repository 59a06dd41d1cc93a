----------------------------- MODULE ModInverse -----------------------------
(***************************************************************************)
(* secp256k1_mod_inverse: a straight line of Montgomery squarings and      *)
(* multiplications over the objects r, in and six temporaries; r and in    *)
(* are one object if the caller says so.  By Fermat's theorem the result   *)
(* is the inverse if it is the input to the power P - 2.                   *)
(*                                                                         *)
(* A value is represented by its exponent: the input's is 1, and a product *)
(* adds exponents.  An exponent is given by its residues modulo the        *)
(* members of Moduli, which determine it because their product exceeds it  *)
(* (the Chinese remainder theorem).                                        *)
(***************************************************************************)
EXTENDS Integers, Sequences

CONSTANT Moduli    \* pairwise coprime, the product above 2^256

ASSUME ModuliAssumption == \A m \in Moduli : m \in Nat /\ m > 1

VARIABLES
  aliased,   \* r and in are the same object
  mem,       \* object -> exponent of the input that it holds, or Garbage
  pc         \* instruction that is next, counted from 1

vars == <<aliased, mem, pc>>

Objects == {"r", "in", "a1", "a2", "a3", "a4", "a5", "a6"}

Garbage == [m \in Moduli |-> -1]

\* secp256k1_mul_mont, in exponents
Times(x, y) == IF Garbage \in {x, y} THEN Garbage ELSE [m \in Moduli |-> (x[m] + y[m]) % m]

----------------------------------------------------------------------------
Mul(d, x, y) == << [dst |-> d, x |-> x, y |-> y] >>

Copy(d, x) == Mul(d, x, "none")

Sqr(d, x) == Mul(d, x, x)

\* Slip: a loop of squarings ends one too early.
Sqrs_OneFewer(d, n) == [k \in 1..n - 1 |-> [dst |-> d, x |-> d, y |-> d]]

\* n squarings in place, most of them loops
Sqrs(d, n) == [k \in 1..n |-> [dst |-> d, x |-> d, y |-> d]]

\* a2, a3, a4 and a5 become 2^2 - 1, 2^4 - 1, 2^8 - 1 and 2^16 - 1.
Double ==
     Copy("a6", "in")
  \o Sqr("a1", "in") \o Mul("a2", "a1", "in")
  \o Sqr("a3", "a2") \o Sqrs("a3", 1) \o Mul("a3", "a3", "a2")
  \o Sqr("a4", "a3") \o Mul("r", "a4", "a3")
  \o Sqrs("a4", 3) \o Mul("a4", "a4", "a3")
  \o Sqr("a5", "a4") \o Sqrs("a5", 7) \o Mul("a5", "a5", "a4")

\* Slip: the input is read itself, though r has been written.
Ten_FromInput == Sqrs("a4", 1) \o Mul("a4", "a4", "in") \o Sqrs("a4", 1)

\* a4 becomes 2^10 - 2 with the copy of the input.
Ten == Sqrs("a4", 1) \o Mul("a4", "a4", "a6") \o Sqrs("a4", 1)

\* a6 becomes 2^22 - 1 and then 2^32 - 2^10; the lowest word is complete.
LowWord ==
     Sqr("a6", "a5") \o Sqrs("a6", 3) \o Mul("a6", "a6", "a3")
  \o Sqrs("a6", 2) \o Mul("a6", "a6", "a2")
  \o Sqrs("a6", 10) \o Mul("r", "r", "a6")
  \o Mul("a6", "a6", "a4") \o Mul("a5", "a6", "a1")

\* The next word has the 0 bit; the six above it are all ones.
HighWords ==
  LET Next32 == Sqrs("a6", 32) \o Mul("r", "r", "a6")
  IN  Next32 \o Mul("a6", "a6", "a5")
      \o Next32 \o Next32 \o Next32 \o Next32 \o Next32 \o Next32

Program == Double \o Ten \o LowWord \o HighWords

----------------------------------------------------------------------------
\* The object that an operand names.
Object(name) == IF aliased /\ name = "in" THEN "r" ELSE name

Value(name) == mem[Object(name)]

One == [m \in Moduli |-> 1]

Init ==
  /\ aliased \in BOOLEAN
  /\ mem = [o \in Objects |-> IF o = Object("in") THEN One ELSE Garbage]
  /\ pc = 1

Execute ==
  /\ pc <= Len(Program)
  /\ LET c == Program[pc]
     IN  mem' = [mem EXCEPT ![c.dst] =
                   IF c.y = "none" THEN Value(c.x) ELSE Times(Value(c.x), Value(c.y))]
  /\ pc' = pc + 1
  /\ UNCHANGED aliased

Returned == pc > Len(Program) /\ UNCHANGED vars

Next == Execute \/ Returned

Spec == Init /\ [][Next]_vars

----------------------------------------------------------------------------
\* No instruction reads a temporary that was not written, and each one that
\* names the input finds the input: r is first written after the last of
\* them, so that a number may be inverted in place (secp256k1.c:273-292).
OperandsIntact ==
  pc <= Len(Program) =>
    LET c == Program[pc]
    IN  /\ Garbage \notin {Value(name) : name \in {c.x, c.y} \ {"none"}}
        /\ "in" \in {c.x, c.y} => Value("in") = One

\* 2 to the power 2^k, modulo m
Tower[k \in 0..8, m \in Moduli] ==
  IF k = 0 THEN 2 % m ELSE LET h == Tower[k - 1, m] IN (h * h) % m

\* The result is the input to the power P - 2 = 2^256 - 2^32 - 979
\* (secp256k1.c:259-262), with the cost that README.md:15 states: 257
\* squarings and 19 multiplications.
ComputesInverse ==
  pc > Len(Program) =>
    /\ mem["r"] = [m \in Moduli |-> (Tower[8, m] - Tower[5, m] - 979) % m]
    /\ Len(SelectSeq(Program, LAMBDA c : c.x = c.y)) = 257
    /\ Len(SelectSeq(Program, LAMBDA c : c.x # c.y /\ c.y # "none")) = 19
=============================================================================
