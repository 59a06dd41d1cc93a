---------------------------- MODULE NumbersProof ----------------------------
(***************************************************************************)
(* Proofs about numbers of four limbs.                                     *)
(*                                                                         *)
(* FieldOps: for every width, field modulus and set of moduli that satisfy *)
(* the assumptions, every routine returns a reduced result, and the right  *)
(* one.                                                                    *)
(*                                                                         *)
(* Codec: for digits and limbs of any size and arrays of any length,       *)
(* numbers are read, written and compared as numbers, and a character that *)
(* is no digit spoils no more than its own byte.                           *)
(***************************************************************************)
EXTENDS FieldOps, Codec, TLAPS, WellFoundedInduction

----------------------------------------------------------------------------
(***************************************************************************)
(* Remainders.                                                             *)
(***************************************************************************)
\* A number below the divisor is its own remainder.
LEMMA ModSmall ==
  ASSUME NEW x \in Nat, NEW m \in Nat, x < m
  PROVE  x % m = x
OBVIOUS

\* What \div and % are.
LEMMA DivMod ==
  ASSUME NEW x \in Int, NEW m \in Nat, m > 0
  PROVE  /\ x \div m \in Int
         /\ x % m \in 0..m - 1
         /\ x = (m * (x \div m)) + (x % m)
OBVIOUS

\* A multiple of m that is less than m away from 0 is 0.
LEMMA SmallMultiple ==
  ASSUME NEW q \in Int, NEW m \in Nat, m > 0, NEW d \in Int, d = m * q, d < m, -m < d
  PROVE  q = 0
OBVIOUS

\* Remainders are unique.
LEMMA UniqueRemainder ==
  ASSUME NEW q \in Int, NEW k \in Int, NEW m \in Nat, m > 0,
         NEW u \in 0..m - 1, NEW v \in 0..m - 1, (m * q) + u = (m * k) + v
  PROVE  u = v
<1>1. m * (q - k) = v - u
  OBVIOUS
<1>2. q - k = 0
  BY <1>1, SmallMultiple
<1>3. QED
  BY <1>1, <1>2

\* Adding a multiple of m does not change the remainder.
LEMMA ModMultiple ==
  ASSUME NEW x \in Int, NEW k \in Int, NEW m \in Nat, m > 0
  PROVE  (x + (m * k)) % m = x % m
<1> DEFINE y == x + (m * k)
<1>1. y \in Int
  OBVIOUS
<1>2. /\ x \div m \in Int /\ x % m \in 0..m - 1
      /\ x = (m * (x \div m)) + (x % m)
  BY DivMod
<1>3. /\ y \div m \in Int /\ y % m \in 0..m - 1
      /\ y = (m * (y \div m)) + (y % m)
  BY <1>1, DivMod
<1>4. m * ((x \div m) + k) = (m * (x \div m)) + (m * k)
  BY <1>2
<1>5. (m * (y \div m)) + (y % m) = (m * ((x \div m) + k)) + (x % m)
  BY <1>2, <1>3, <1>4
<1>6. y % m = x % m
  <2> HIDE DEF y
  <2>1. (x \div m) + k \in Int
    BY <1>2
  <2>2. QED
    BY <1>2, <1>3, <1>5, <2>1, UniqueRemainder
<1>7. QED
  BY <1>6

\* The instances that the routines need.
LEMMA ModPlus ==
  ASSUME NEW x \in Int, NEW m \in Nat, m > 0
  PROVE  (x + m) % m = x % m /\ (x - m) % m = x % m
<1> DEFINE Q(k) == (x + (m * k)) % m = x % m
<1>1. \A k \in Int : Q(k)
  BY ModMultiple
<1>2. Q(1) /\ Q(-1)
  <2> HIDE DEF Q
  <2>1. QED
    BY <1>1
<1>3. x + (m * 1) = x + m /\ x + (m * (-1)) = x - m
  OBVIOUS
<1>4. QED
  BY <1>2, <1>3
----------------------------------------------------------------------------
(***************************************************************************)
(* The routines.                                                           *)
(***************************************************************************)
\* What every modulus is like, the field's included.
LEMMA Modulus ==
  ASSUME NEW m \in Moduli \cup {P}
  PROVE  m \in Nat /\ 1 < m /\ m < R /\ m % 2 = 1
<1>1. CASE m \in Moduli
  BY <1>1, FieldAssumption, ModuliAssumption
<1>2. CASE m = P
  <2>1. P \in Nat /\ 1 < P /\ P < R
    BY FieldAssumption DEF P
  <2>2. P % 2 = 1
    BY FieldAssumption DEF P
  <2>3. QED
    BY <1>2, <2>1, <2>2
<1>3. QED
  BY <1>1, <1>2

\* One subtraction reduces everything below twice the modulus.
LEMMA SubtractOnceRight ==
  ASSUME NEW m \in Nat, 1 < m, m < R, NEW x \in Nat, x < 2 * m
  PROVE  SubtractOnce(x, m) \in 0..m - 1 /\ SubtractOnce(x, m) % m = x % m
<1>0. R \in Nat
  BY FieldAssumption
<1>1. CASE x < m
  <2>1. x % R = x
    BY <1>0, <1>1, ModSmall
  <2>2. QED
    BY <1>1, <2>1 DEF SubtractOnce
<1>2. CASE ~(x < m)
  <2>1. x - m \in Nat /\ x - m < m /\ x - m < R
    BY <1>0, <1>2
  <2>2. (x - m) % R = x - m
    BY <1>0, <2>1, ModSmall
  <2>3. (x - m) % m = x % m
    BY ModPlus
  <2>4. QED
    BY <1>2, <2>1, <2>2, <2>3 DEF SubtractOnce
<1>3. QED
  BY <1>1, <1>2

\* So does one addition from the modulus' negative on.
LEMMA AddOnBorrowRight ==
  ASSUME NEW m \in Nat, 1 < m, m < R, NEW x \in Int, -m <= x, x < m
  PROVE  AddOnBorrow(x, m) \in 0..m - 1 /\ \E k \in {0, 1} : AddOnBorrow(x, m) = x + (m * k)
<1>0. R \in Nat
  BY FieldAssumption
<1>1. CASE x < 0
  <2>1. x + m \in Nat /\ x + m < m
    BY <1>1
  <2>2. (x + m) % R = x + m
    BY <1>0, <2>1, ModSmall
  <2>3. x + (m * 1) = x + m
    OBVIOUS
  <2>4. QED
    BY <1>1, <2>1, <2>2, <2>3 DEF AddOnBorrow
<1>2. CASE ~(x < 0)
  <2>1. x + (m * 0) = x
    OBVIOUS
  <2>2. QED
    BY <1>2, <2>1 DEF AddOnBorrow
<1>3. QED
  BY <1>1, <1>2

\* A reduced number plus a multiple of the modulus leaves the number.
LEMMA Reduced ==
  ASSUME NEW m \in Nat, 1 < m, NEW x \in 0..m - 1, NEW k \in Int
  PROVE  (x + (m * k)) % m = x
<1>1. x \in Int /\ m > 0
  OBVIOUS
<1>2. (x + (m * k)) % m = x % m
  BY <1>1, ModMultiple
<1>3. x % m = x
  BY ModSmall
<1>4. QED
  BY <1>2, <1>3

\* Subtraction and negation.
LEMMA SubRight ==
  ASSUME NEW m \in Nat, 1 < m, m < R, NEW x \in 0..m - 1, NEW y \in 0..m - 1
  PROVE  /\ AddOnBorrow(x - y, m) \in 0..m - 1
         /\ (AddOnBorrow(x - y, m) + y) % m = x
<1> DEFINE z == AddOnBorrow(x - y, m)
<1>1. x - y \in Int /\ -m <= x - y /\ x - y < m
  OBVIOUS
<1>2. z \in 0..m - 1 /\ \E k \in {0, 1} : z = (x - y) + (m * k)
  BY <1>1, AddOnBorrowRight
<1>3. PICK k \in {0, 1} : z = (x - y) + (m * k)
  BY <1>2
<1>4. z + y = x + (m * k)
  <2> HIDE DEF z
  <2>1. m * k \in Int
    BY <1>3
  <2>2. QED
    BY <1>3, <2>1
<1>5. (x + (m * k)) % m = x
  BY <1>3, Reduced
<1>6. QED
  BY <1>2, <1>4, <1>5

\* Halving a number, or its sum with the odd modulus.
LEMMA HalveRight ==
  ASSUME NEW m \in Nat, 1 < m, m % 2 = 1, NEW x \in 0..m - 1
  PROVE  Halve(x, m) \in 0..m - 1 /\ (2 * Halve(x, m)) % m = x
<1>1. CASE x % 2 = 0
  <2>1. x \div 2 \in 0..m - 1 /\ 2 * (x \div 2) = x
    BY <1>1
  <2>2. x % m = x
    BY ModSmall
  <2>3. QED
    BY <1>1, <2>1, <2>2 DEF Halve
<1>2. CASE x % 2 # 0
  <2>1. (x + m) \div 2 \in 0..m - 1 /\ 2 * ((x + m) \div 2) = x + m
    BY <1>2
  <2>2. (x + m) % m = x
    <3>1. (x + m) % m = x % m
      BY ModPlus
    <3>2. x % m = x
      BY ModSmall
    <3>3. QED
      BY <3>1, <3>2
  <2>3. QED
    BY <1>2, <2>1, <2>2 DEF Halve
<1>3. QED
  BY <1>1, <1>2

\* Doubling and adding once more.
LEMMA TripleRight ==
  ASSUME NEW m \in Nat, 1 < m, m < R, NEW x \in 0..m - 1
  PROVE  LET z == SubtractOnce(SubtractOnce(2 * x, m) + x, m)
         IN  z \in 0..m - 1 /\ z % m = (3 * x) % m
<1> DEFINE d == SubtractOnce(2 * x, m)
           z == SubtractOnce(d + x, m)
<1>0. R \in Nat
  BY FieldAssumption
<1>1. d \in 0..m - 1 /\ (d = 2 * x \/ d = (2 * x) - m)
  <2>1. CASE 2 * x < m
    <3>1. (2 * x) % R = 2 * x
      BY <1>0, <2>1, ModSmall
    <3>2. QED
      BY <2>1, <3>1 DEF SubtractOnce
  <2>2. CASE ~(2 * x < m)
    <3>1. (2 * x) - m \in Nat /\ (2 * x) - m < m /\ (2 * x) - m < R
      BY <1>0, <2>2
    <3>2. ((2 * x) - m) % R = (2 * x) - m
      BY <1>0, <3>1, ModSmall
    <3>3. QED
      BY <2>2, <3>1, <3>2 DEF SubtractOnce
  <2>3. QED
    BY <2>1, <2>2
<1>2. z \in 0..m - 1 /\ z % m = (d + x) % m
  <2> HIDE DEF d
  <2>1. d + x \in Nat /\ d + x < 2 * m
    BY <1>1
  <2>2. QED
    BY <2>1, SubtractOnceRight
<1>3. (d + x) % m = (3 * x) % m
  <2> HIDE DEF d
  <2>1. 3 * x \in Int /\ (d + x = 3 * x \/ d + x = (3 * x) - m)
    BY <1>1
  <2>2. ((3 * x) - m) % m = (3 * x) % m
    BY <2>1, ModPlus
  <2>3. QED
    BY <2>1, <2>2
<1>4. QED
  BY <1>2, <1>3

\* The product by a word: its limbs above the fourth are worth C each.
LEMMA MulWordRight ==
  ASSUME NEW x \in 0..P - 1, NEW w \in 0..B - 1
  PROVE  MulWord(x, w) \in 0..P - 1 /\ MulWord(x, w) % P = (x * w) % P
<1> DEFINE y == x * w
           q == y \div R
           u == y % R
           z == u + (q * C)
<1>0. /\ R \in Nat /\ C \in Nat /\ B \in Nat /\ 0 < R
      /\ P \in Nat /\ 1 < P /\ P < R /\ R = P + C /\ x \in Nat /\ w \in Nat /\ x < R
  BY FieldAssumption DEF P
<1>1. y \in Nat /\ y < R * B
  <2>1. x * w <= R * w
    BY <1>0
  <2>2. R * w < R * B
    BY <1>0
  <2>3. x * w \in Nat /\ R * w \in Nat /\ R * B \in Nat
    BY <1>0
  <2>4. QED
    BY <2>1, <2>2, <2>3
<1>2. q \in Int /\ u \in 0..R - 1 /\ y = (R * q) + u
  <2> HIDE DEF y
  <2>1. QED
    BY <1>0, <1>1, DivMod
<1>3. q \in 0..B - 1
  <2> HIDE DEF y, q, u
  <2>1. R * q < R * B /\ R * q > -R
    BY <1>0, <1>1, <1>2
  <2>2. q < B
    BY <1>0, <1>2, <2>1
  <2>3. q > -1
    BY <1>0, <1>2, <2>1
  <2>4. QED
    BY <1>0, <1>2, <2>2, <2>3
<1>4. z \in Nat /\ z < 2 * P
  <2> HIDE DEF y, q, u
  <2>1. q * C <= (B - 1) * C /\ q * C \in Nat /\ (B - 1) * C \in Nat
    BY <1>0, <1>3
  <2>2. (B - 1) * C <= R - (2 * C)
    BY <1>0, FieldAssumption
  <2>3. QED
    BY <1>0, <1>2, <2>1, <2>2
<1>5. y = z + (P * q)
  <2> HIDE DEF y, q, u
  <2>1. R * q = (P * q) + (q * C)
    BY <1>0, <1>3
  <2>2. R * q \in Int /\ P * q \in Int /\ q * C \in Int
    BY <1>0, <1>3
  <2>3. QED
    BY <1>2, <2>1, <2>2
<1>6. z % P = y % P
  <2> HIDE DEF y, q, z
  <2>1. z \in Int /\ q \in Int /\ P \in Nat /\ P > 0
    BY <1>0, <1>2, <1>4
  <2>2. (z + (P * q)) % P = z % P
    BY <2>1, ModMultiple
  <2>3. QED
    BY <1>5, <2>2
<1>7. SubtractOnce(z, P) \in 0..P - 1 /\ SubtractOnce(z, P) % P = z % P
  <2> HIDE DEF z
  <2>1. QED
    BY <1>0, <1>4, SubtractOnceRight
<1>8. MulWord(x, w) = SubtractOnce(z, P)
  BY DEF MulWord
<1>9. QED
  <2> HIDE DEF z
  <2>1. QED
    BY <1>6, <1>7, <1>8

----------------------------------------------------------------------------
(***************************************************************************)
(* The machine.                                                            *)
(***************************************************************************)
\* The operands are reduced for the modulus, which the types alone do not
\* say: each routine but secp256k1_reduce is right only for such operands.
IInv ==
  /\ p \in Moduli \cup {P} /\ a \in 0..R - 1 /\ b \in 0..p - 1
  /\ a >= p => op = "reduce"
  /\ op \in Ops /\ r \in (0..R - 1) \cup {Fault}
  /\ ResultReduced
  /\ ResultRight

\* A call keeps the invariant if its result is reduced and right.
LEMMA CallKeeps ==
  ASSUME IInv, NEW name \in Ops \ {"none"}, NEW result,
         Call(name, result),
         \/ result = Fault /\ name \in {"fp_add_word", "fp_sub_word"}
         \/ result \in 0..p - 1 /\ (name = "fp_neg" => a # 0)
         \/ result = p /\ name = "fp_neg" /\ a = 0,
         name \in {"add", "fp_add", "add_toq", "add_tox"} => result % p = (a + b) % p,
         name \in {"sub", "fp_sub", "sub_fromq", "sub_fromx"} => (result + b) % p = a,
         name \in {"subq", "subx"} => (result + a) % p = b,
         name \in {"mul_by_2", "fp_double", "mul_by_2q", "mul_by_2x"} => result % p = (2 * a) % p,
         name \in {"mul_by_3", "fp_triple"} => result % p = (3 * a) % p,
         name \in {"div_by_2", "fp_div_by_2"} => (2 * result) % p = a,
         name \in {"neg", "fp_neg"} => (result + a) % p = 0,
         name = "reduce" => result % p = a,
         name = "mul_word" => result % p = (a * b) % p
  PROVE  IInv'
<1>1. p' = p /\ a' = a /\ b' = b /\ op' = name /\ r' = result /\ op = "none"
  BY DEF Call
<1>2. p \in Nat /\ 1 < p /\ p < R /\ R \in Nat
  BY Modulus, FieldAssumption DEF IInv
<1>9. a \in 0..p - 1 /\ ~(a >= p)
  BY <1>1, <1>2 DEF IInv
<1>3. r' \in (0..R - 1) \cup {Fault}
  <2>1. \/ result = Fault
        \/ result \in 0..p - 1
        \/ result = p
    OBVIOUS
  <2>2. 0..p - 1 \subseteq 0..R - 1 /\ p \in 0..R - 1
    BY <1>2
  <2>3. result \in (0..R - 1) \cup {Fault}
    BY <2>1, <2>2, Zenon
  <2>4. QED
    BY <1>1, <2>3, Zenon
<1>4. ResultReduced'
  <2>1. CASE result = Fault
    BY <1>1, <2>1 DEF ResultReduced
  <2>2. CASE result \in 0..p - 1 /\ (name = "fp_neg" => a # 0)
    BY <1>1, <1>2, <1>9, <2>2 DEF ResultReduced
  <2>3. CASE result = p /\ name = "fp_neg" /\ a = 0
    BY <1>1, <1>2, <2>3 DEF ResultReduced
  <2>4. QED
    BY <2>1, <2>2, <2>3
<1>5. ResultRight'
  <2>1. a % p = a
    BY <1>2, <1>9, ModSmall
  <2>2. QED
    BY <1>1, <2>1 DEF ResultRight
<1>6. op' \in Ops
  BY <1>1
<1>7. p' \in Moduli \cup {P} /\ a' \in 0..R - 1 /\ b' \in 0..p' - 1 /\ ~(a' >= p')
  BY <1>1, <1>9 DEF IInv
<1>8. QED
  BY <1>3, <1>4, <1>5, <1>6, <1>7 DEF IInv

\* The calls of reduced operands keep the invariant, a routine at a time.
LEMMA RoutinesKeep ==
  ASSUME IInv, op = "none", FieldCall \/ FpCall \/ PointCall, ~CallReduceRaw
  PROVE  IInv'
<1>1. /\ p \in Nat /\ 1 < p /\ p < R /\ p % 2 = 1
      /\ a \in 0..p - 1 /\ b \in 0..p - 1
  BY Modulus, FieldAssumption DEF IInv
<1>0. B <= p /\ B \in Nat
  BY FieldAssumption, ModuliAssumption DEF IInv, P
<1>2. a % p = a /\ a \in Nat /\ b \in Nat
  BY <1>1, ModSmall
<1>3. ASSUME NEW m \in Nat, m = p
      PROVE  SubtractOnce(a + b, m) \in 0..p - 1 /\ SubtractOnce(a + b, m) % p = (a + b) % p
  <2>1. a + b \in Nat /\ a + b < 2 * p
    BY <1>1
  <2>2. QED
    BY <1>1, <1>3, <2>1, SubtractOnceRight
<1>4. SubtractOnce(2 * a, p) \in 0..p - 1 /\ SubtractOnce(2 * a, p) % p = (2 * a) % p
  <2>1. 2 * a \in Nat /\ 2 * a < 2 * p
    BY <1>1
  <2>2. QED
    BY <1>1, <2>1, SubtractOnceRight
<1>5. /\ AddOnBorrow(a - b, p) \in 0..p - 1
      /\ (AddOnBorrow(a - b, p) + b) % p = a
  BY <1>1, SubRight
<1>5a. /\ AddOnBorrow(b - a, p) \in 0..p - 1
       /\ (AddOnBorrow(b - a, p) + a) % p = b
  BY <1>1, SubRight
<1>6. CASE CallAdd
  <2>1. Add(a, b) \in 0..p - 1 /\ Add(a, b) % p = (a + b) % p
    BY <1>1, <1>3, <1>6 DEF CallAdd, Add
  <2>2. Call("add", Add(a, b))
    BY <1>6 DEF CallAdd
  <2>3. QED
    BY <2>1, <2>2, CallKeeps DEF Ops
<1>7. CASE CallSub
  <2>1. Sub(a, b) \in 0..p - 1 /\ (Sub(a, b) + b) % p = a
    BY <1>5, <1>7 DEF CallSub, Sub
  <2>2. Call("sub", Sub(a, b))
    BY <1>7 DEF CallSub
  <2>3. QED
    BY <2>1, <2>2, CallKeeps DEF Ops
<1>8. CASE CallMulBy2
  <2>1. MulBy2(a) \in 0..p - 1 /\ MulBy2(a) % p = (2 * a) % p
    BY <1>4, <1>8 DEF CallMulBy2, MulBy2
  <2>2. Call("mul_by_2", MulBy2(a))
    BY <1>8 DEF CallMulBy2
  <2>3. QED
    BY <2>1, <2>2, CallKeeps DEF Ops
<1>9. CASE CallMulBy3
  <2>1. MulBy3(a) \in 0..p - 1 /\ MulBy3(a) % p = (3 * a) % p
    BY <1>1, <1>9, TripleRight DEF CallMulBy3, MulBy3, MulBy2
  <2>2. Call("mul_by_3", MulBy3(a))
    BY <1>9 DEF CallMulBy3
  <2>3. QED
    BY <2>1, <2>2, CallKeeps DEF Ops
<1>10. CASE CallDivBy2
  <2>1. DivBy2(a) \in 0..p - 1 /\ (2 * DivBy2(a)) % p = a
    BY <1>1, <1>10, HalveRight DEF CallDivBy2, DivBy2
  <2>2. Call("div_by_2", DivBy2(a))
    BY <1>10 DEF CallDivBy2
  <2>3. QED
    BY <2>1, <2>2, CallKeeps DEF Ops
<1>11. CASE CallNeg
  <2>1. Neg(a) \in 0..p - 1 /\ (Neg(a) + a) % p = 0
    <3>1. 0 \in 0..p - 1 /\ 0 - a = -a
      BY <1>1
    <3>2. AddOnBorrow(0 - a, p) \in 0..p - 1 /\ (AddOnBorrow(0 - a, p) + a) % p = 0
      BY <1>1, <3>1, SubRight
    <3>3. QED
      BY <1>11, <3>1, <3>2 DEF CallNeg, Neg
  <2>2. Call("neg", Neg(a))
    BY <1>11 DEF CallNeg
  <2>3. QED
    BY <2>1, <2>2, CallKeeps DEF Ops
<1>12. CASE CallReduce
  <2>1. Reduce(a) = a
    BY DEF Reduce
  <2>2. Call("reduce", a)
    BY <1>12, <2>1 DEF CallReduce
  <2>3. QED
    BY <1>1, <1>2, <2>2, CallKeeps DEF Ops
<1>13. CASE CallMulWord
  <2>1. MulWord(a, b) \in 0..p - 1 /\ MulWord(a, b) % p = (a * b) % p
    <3>1. p = P /\ b \in 0..B - 1
      BY <1>1, <1>13, FieldAssumption DEF CallMulWord
    <3>2. QED
      BY <1>1, <3>1, MulWordRight
  <2>2. Call("mul_word", MulWord(a, b))
    BY <1>13 DEF CallMulWord
  <2>3. QED
    BY <2>1, <2>2, CallKeeps DEF Ops
<1>14. CASE CallFpAdd
  <2>1. FpAdd(a, b, p) \in 0..p - 1 /\ FpAdd(a, b, p) % p = (a + b) % p
    BY <1>1, <1>3 DEF FpAdd
  <2>2. Call("fp_add", FpAdd(a, b, p))
    BY <1>14 DEF CallFpAdd
  <2>3. QED
    BY <2>1, <2>2, CallKeeps DEF Ops
<1>15. CASE CallFpSub
  <2>1. FpSub(a, b, p) \in 0..p - 1 /\ (FpSub(a, b, p) + b) % p = a
    BY <1>5 DEF FpSub
  <2>2. Call("fp_sub", FpSub(a, b, p))
    BY <1>15 DEF CallFpSub
  <2>3. QED
    BY <2>1, <2>2, CallKeeps DEF Ops
<1>16. CASE CallFpDouble
  <2>1. FpDouble(a, p) \in 0..p - 1 /\ FpDouble(a, p) % p = (2 * a) % p
    BY <1>4 DEF FpDouble
  <2>2. Call("fp_double", FpDouble(a, p))
    BY <1>16 DEF CallFpDouble
  <2>3. QED
    BY <2>1, <2>2, CallKeeps DEF Ops
<1>17. CASE CallFpTriple
  <2>1. FpTriple(a, p) \in 0..p - 1 /\ FpTriple(a, p) % p = (3 * a) % p
    BY <1>1, TripleRight DEF FpTriple, FpDouble
  <2>2. Call("fp_triple", FpTriple(a, p))
    BY <1>17 DEF CallFpTriple
  <2>3. QED
    BY <2>1, <2>2, CallKeeps DEF Ops
<1>18. CASE CallFpDivBy2
  <2>1. FpDivBy2(a, p) \in 0..p - 1 /\ (2 * FpDivBy2(a, p)) % p = a
    BY <1>1, HalveRight DEF FpDivBy2
  <2>2. Call("fp_div_by_2", FpDivBy2(a, p))
    BY <1>18 DEF CallFpDivBy2
  <2>3. QED
    BY <2>1, <2>2, CallKeeps DEF Ops
<1>19. CASE CallFpNeg
  <2>1. FpNeg(a, p) = p - a
    <3>1. p - a \in Nat /\ p - a < R /\ R \in Nat
      BY <1>1, FieldAssumption
    <3>2. QED
      BY <3>1, ModSmall DEF FpNeg
  <2>2. (FpNeg(a, p) \in 0..p - 1 /\ a # 0) \/ (FpNeg(a, p) = p /\ a = 0)
    BY <1>1, <2>1
  <2>3. (FpNeg(a, p) + a) % p = 0
    <3>1. FpNeg(a, p) + a = 0 + p
      BY <1>1, <2>1
    <3>2. (0 + p) % p = 0 % p /\ 0 % p = 0
      BY <1>1, ModPlus, ModSmall
    <3>3. QED
      BY <3>1, <3>2
  <2>4. Call("fp_neg", FpNeg(a, p))
    BY <1>19 DEF CallFpNeg
  <2>5. QED
    BY <2>2, <2>3, <2>4, CallKeeps DEF Ops
<1>20. CASE CallFpAddWord
  <2>1. Call("fp_add_word", FpAddWord(a, b, p)) /\ b \in 0..B - 1
    BY <1>1, <1>20, FieldAssumption DEF CallFpAddWord
  <2>2. CASE WordAt[b] = Fault
    <3>1. FpAddWord(a, b, p) = Fault
      BY <2>2 DEF FpAddWord
    <3>2. QED
      BY <2>1, <3>1, CallKeeps DEF Ops
  <2>3. CASE WordAt[b] # Fault
    <3>1. WordAt[b] \in 0..B - 1
      BY <2>1, <2>3, MemoryAssumption
    <3>2. WordAt[b] \in 0..p - 1
      BY <1>0, <1>1, <3>1, FieldAssumption
    <3>3. FpAddWord(a, b, p) \in 0..p - 1
      <4>1. a + WordAt[b] \in Nat /\ a + WordAt[b] < 2 * p
        BY <1>1, <3>2
      <4>2. SubtractOnce(a + WordAt[b], p) \in 0..p - 1
        BY <1>1, <4>1, SubtractOnceRight
      <4>3. QED
        BY <2>3, <4>2 DEF FpAddWord
    <3>4. QED
      BY <2>1, <3>3, CallKeeps DEF Ops
  <2>4. QED
    BY <2>2, <2>3
<1>21. CASE CallFpSubWord
  <2>1. Call("fp_sub_word", FpSubWord(a, b, p)) /\ b \in 0..B - 1
    BY <1>1, <1>21, FieldAssumption DEF CallFpSubWord
  <2>2. CASE WordAt[b] = Fault
    <3>1. FpSubWord(a, b, p) = Fault
      BY <2>2 DEF FpSubWord
    <3>2. QED
      BY <2>1, <3>1, CallKeeps DEF Ops
  <2>3. CASE WordAt[b] # Fault
    <3>1. WordAt[b] \in 0..B - 1
      BY <2>1, <2>3, MemoryAssumption
    <3>2. WordAt[b] \in 0..p - 1
      BY <1>0, <1>1, <3>1, FieldAssumption
    <3>3. FpSubWord(a, b, p) \in 0..p - 1
      <4>1. AddOnBorrow(a - WordAt[b], p) \in 0..p - 1
        BY <1>1, <3>2, SubRight
      <4>2. QED
        BY <2>3, <4>1 DEF FpSubWord
    <3>4. QED
      BY <2>1, <3>3, CallKeeps DEF Ops
  <2>4. QED
    BY <2>2, <2>3
<1>22. CASE CallAddToQ
  <2>1. p = P /\ Call("add_toq", AddToQ(a, b))
    BY <1>22 DEF CallAddToQ
  <2>2. AddToQ(a, b) \in 0..p - 1 /\ AddToQ(a, b) % p = (a + b) % p
    BY <1>1, <1>3, <2>1 DEF AddToQ
  <2>3. QED
    BY <2>1, <2>2, CallKeeps DEF Ops
<1>23. CASE CallSubFromQ
  <2>1. p = P /\ Call("sub_fromq", SubFromQ(a, b))
    BY <1>23 DEF CallSubFromQ
  <2>2. SubFromQ(a, b) \in 0..p - 1 /\ (SubFromQ(a, b) + b) % p = a
    BY <1>5, <2>1 DEF SubFromQ
  <2>3. QED
    BY <2>1, <2>2, CallKeeps DEF Ops
<1>24. CASE CallSubQ
  <2>1. p = P /\ Call("subq", SubQ(a, b))
    BY <1>24 DEF CallSubQ
  <2>2. SubQ(a, b) \in 0..p - 1 /\ (SubQ(a, b) + a) % p = b
    BY <1>5a, <2>1 DEF SubQ
  <2>3. QED
    BY <2>1, <2>2, CallKeeps DEF Ops
<1>25. CASE CallMulBy2Q
  <2>1. p = P /\ Call("mul_by_2q", MulBy2Q(a))
    BY <1>25 DEF CallMulBy2Q
  <2>2. MulBy2Q(a) \in 0..p - 1 /\ MulBy2Q(a) % p = (2 * a) % p
    BY <1>4, <2>1 DEF MulBy2Q
  <2>3. QED
    BY <2>1, <2>2, CallKeeps DEF Ops
<1>26. CASE CallAddToX
  <2>1. p = P /\ Call("add_tox", AddToX(a, b))
    BY <1>26 DEF CallAddToX
  <2>2. AddToX(a, b) \in 0..p - 1 /\ AddToX(a, b) % p = (a + b) % p
    <3>1. a + b + 0 = a + b
      BY <1>2
    <3>2. QED
      BY <1>1, <1>3, <2>1, <3>1 DEF AddToX, Cleared
  <2>3. QED
    BY <2>1, <2>2, CallKeeps DEF Ops
<1>27. CASE CallSubFromX
  <2>1. p = P /\ Call("sub_fromx", SubFromX(a, b))
    BY <1>27 DEF CallSubFromX
  <2>2. SubFromX(a, b) \in 0..p - 1 /\ (SubFromX(a, b) + b) % p = a
    <3>1. a - b - 0 = a - b
      BY <1>2
    <3>2. QED
      BY <1>5, <2>1, <3>1 DEF SubFromX, Cleared
  <2>3. QED
    BY <2>1, <2>2, CallKeeps DEF Ops
<1>28. CASE CallSubX
  <2>1. p = P /\ Call("subx", SubX(a, b))
    BY <1>28 DEF CallSubX
  <2>2. SubX(a, b) \in 0..p - 1 /\ (SubX(a, b) + a) % p = b
    <3>1. b - a - 0 = b - a
      BY <1>2
    <3>2. QED
      BY <1>5a, <2>1, <3>1 DEF SubX, Cleared
  <2>3. QED
    BY <2>1, <2>2, CallKeeps DEF Ops
<1>29. CASE CallMulBy2X
  <2>1. p = P /\ Call("mul_by_2x", MulBy2X(a))
    BY <1>29 DEF CallMulBy2X
  <2>2. MulBy2X(a) \in 0..p - 1 /\ MulBy2X(a) % p = (2 * a) % p
    <3>1. 2 * a + 0 = 2 * a
      BY <1>2
    <3>2. QED
      BY <1>4, <2>1, <3>1 DEF MulBy2X, Cleared
  <2>3. QED
    BY <2>1, <2>2, CallKeeps DEF Ops
<1>30. QED
  BY <1>6, <1>7, <1>8, <1>9, <1>10, <1>11, <1>12, <1>13, <1>14, <1>15, <1>16, <1>17,
     <1>18, <1>19, <1>20, <1>21, <1>22, <1>23, <1>24, <1>25, <1>26,
     <1>27, <1>28, <1>29 DEF FieldCall, FpCall, PointCall

\* Next keeps the invariant.
LEMMA NextKeeps == IInv /\ [Next]_vars => IInv'
<1> SUFFICES ASSUME IInv, [Next]_vars PROVE IInv'
  OBVIOUS
<1>0. p \in Nat /\ 1 < p /\ p < R /\ R \in Nat
  BY Modulus, FieldAssumption DEF IInv
<1>1. CASE CallReduceRaw
  <2>1. PICK x \in P..R - 1 : a' = x /\ r' = Reduce(x)
    BY <1>1 DEF CallReduceRaw
  <2>2. p = P /\ p' = p /\ b' = b /\ op' = "reduce" /\ a' = x /\ r' = x
    BY <1>1, <2>1 DEF CallReduceRaw, Reduce
  <2>3. x \in 0..R - 1 /\ x >= p
    BY <1>0, <2>2
  <2>4. ResultReduced'
    BY <2>2, <2>3 DEF ResultReduced
  <2>5. ResultRight'
    BY <2>2 DEF ResultRight
  <2>6. op' \in Ops
    BY <2>2 DEF Ops
  <2>7. r' \in (0..R - 1) \cup {Fault}
    BY <2>2, <2>3, Zenon
  <2>8. QED
    BY <2>2, <2>3, <2>4, <2>5, <2>6, <2>7 DEF IInv
<1>2. CASE (FieldCall \/ FpCall \/ PointCall) /\ ~CallReduceRaw
  <2>1. op = "none"
    BY <1>2 DEF FieldCall, FpCall, PointCall, CallAddToQ, CallSubFromQ, CallSubQ, CallMulBy2Q,
       CallAddToX, CallSubFromX, CallSubX, CallMulBy2X, Call, CallAdd, CallSub, CallMulBy2, CallMulBy3, CallDivBy2,
       CallNeg, CallReduce, CallMulWord, CallFpAdd, CallFpSub, CallFpDouble, CallFpTriple,
       CallFpDivBy2, CallFpNeg, CallFpAddWord, CallFpSubWord
  <2>2. QED
    BY <1>2, <2>1, RoutinesKeep
<1>3. CASE Chain
  <2>1. p' = p /\ b' = b /\ op' = "none" /\ r' = 0 /\ r # Fault /\ r < p /\ a' = r
    BY <1>3 DEF Chain
  <2>2. a' \in 0..R - 1 /\ ~(a' >= p')
    <3>1. r \in 0..R - 1
      BY <2>1 DEF IInv
    <3>2. QED
      BY <1>0, <2>1, <3>1
  <2>3. ResultReduced' /\ ResultRight'
    BY <2>1 DEF ResultReduced, ResultRight
  <2>4. r' \in 0..R - 1 /\ op' \in Ops
    BY <2>1, FieldAssumption DEF Ops
  <2>5. QED
    BY <2>1, <2>2, <2>3, <2>4 DEF IInv
<1>4. CASE Stopped \/ UNCHANGED vars
  <2>1. UNCHANGED vars
    BY <1>4 DEF Stopped
  <2>2. QED
    BY <2>1 DEF vars, IInv, ResultReduced, ResultRight
<1>5. QED
  BY <1>1, <1>2, <1>3, <1>4 DEF Next

\* Before the first call.
LEMMA InitKeeps == Init => IInv
<1> SUFFICES ASSUME Init PROVE IInv
  OBVIOUS
<1>1. p \in Moduli \cup {P} /\ a \in 0..p - 1 /\ b \in 0..p - 1 /\ op = "none" /\ r = 0
  BY DEF Init
<1>2. 0 \in 0..R - 1 /\ op \in Ops
  BY <1>1, FieldAssumption DEF Ops
<1>5. p \in Nat /\ p < R /\ R \in Nat
  BY <1>1, Modulus, FieldAssumption
<1>6. a \in 0..R - 1 /\ ~(a >= p)
  BY <1>1, <1>5
<1>3. ResultReduced /\ ResultRight
  BY <1>1 DEF ResultReduced, ResultRight
<1>4. QED
  BY <1>1, <1>2, <1>3, <1>6 DEF IInv

\* The invariant says what the runs check.
LEMMA IInvSuffices == IInv => TypeOK /\ ResultReduced /\ ResultRight
<1> SUFFICES ASSUME IInv PROVE TypeOK /\ ResultReduced /\ ResultRight
  OBVIOUS
<1>1. p \in Nat /\ p < R /\ R \in Nat
  BY Modulus, FieldAssumption DEF IInv
<1>2. a \in 0..R - 1 /\ b \in 0..R - 1
  BY <1>1 DEF IInv
<1>3. QED
  BY <1>2 DEF IInv, TypeOK

\* Whatever calls are chained, the operands stay reduced and every result is
\* reduced and right.
THEOREM Invariance == Spec => []IInv
BY InitKeeps, NextKeeps, PTL DEF Spec

\* Residues and results fit four limbs (secp256k1-x86_64.pl, fp256-x86_64.pl).
THEOREM TypeCorrect == Spec => []TypeOK
BY Invariance, IInvSuffices, PTL

\* The routines preserve "the property of inputs being fully reduced"
\* (secp256k1.h:48-50), for every width, field modulus and fp256 modulus.
THEOREM ResultReducedHolds == Spec => []ResultReduced
BY Invariance, IInvSuffices, PTL

\* The routines compute what the headers say of them, modulo the modulus.
THEOREM ResultRightHolds == Spec => []ResultRight
BY Invariance, IInvSuffices, PTL

----------------------------------------------------------------------------
(***************************************************************************)
(* Numbers and their digits.                                               *)
(***************************************************************************)
\* A set of naturals that is not empty has a least element.
LEMMA LeastElement ==
  ASSUME NEW S, S \subseteq Nat, S # {}
  PROVE  \E n \in S : \A m \in S : n <= m
<1> DEFINE Less == {ss \in Nat \X Nat : ss[1] < ss[2]}
<1>1. IsWellFoundedOn(Less, Nat)
  BY NatLessThanWellFounded DEF OpToRel
<1>2. PICK n \in S : \A m \in S : ~ (<<m, n>> \in Less)
  BY <1>1, WFMin
<1>3. ASSUME NEW m \in S PROVE n <= m
  <2>1. m \in Nat /\ n \in Nat
    BY <1>3
  <2>2. ~ (<<m, n>> \in Less)
    BY <1>2, <1>3
  <2>3. ASSUME m < n PROVE <<m, n>> \in Less
    BY <2>1, <2>3
  <2>4. QED
    BY <2>1, <2>2, <2>3
<1>4. QED
  BY <1>3

\* A set of naturals with 0 and the successor of each member is Nat: the
\* induction of the proofs below.
LEMMA Induction ==
  ASSUME NEW S, 0 \in S, \A n \in Nat : n \in S => n + 1 \in S
  PROVE  Nat \subseteq S
<1> SUFFICES ASSUME ~ (Nat \subseteq S) PROVE FALSE
  OBVIOUS
<1> DEFINE Missing == Nat \ S
<1>1. Missing # {} /\ Missing \subseteq Nat
  OBVIOUS
<1>2. PICK n \in Missing : \A m \in Missing : n <= m
  BY <1>1, LeastElement
<1>3. n \in Nat /\ n # 0 /\ n - 1 \in Nat /\ (n - 1) + 1 = n
  BY <1>1
<1>4. n - 1 \in S
  BY <1>2, <1>3
<1>5. QED
  BY <1>2, <1>3, <1>4

\* The numbers that the first n digits stand for, one after the other.
Horner(f, s, c, n) == f[0] = 0 /\ \A k \in 1..n : f[k] = f[k - 1] * c + s[k]

\* There are such numbers for any digits.
LEMMA HornerExists ==
  ASSUME NEW s \in Seq(Nat), NEW c \in Nat, NEW n \in Nat
  PROVE  n <= Len(s) => \E f \in [0..n -> Nat] : Horner(f, s, c, n)
<1> DEFINE S == {m \in Nat : m <= Len(s) => \E f \in [0..m -> Nat] : Horner(f, s, c, m)}
<1>1. 0 \in S
  <2> DEFINE f == [x \in 0..0 |-> 0]
  <2>1. f \in [0..0 -> Nat] /\ Horner(f, s, c, 0)
    BY DEF Horner
  <2>2. QED
    BY <2>1
<1>2. ASSUME NEW m \in Nat, m \in S PROVE m + 1 \in S
  <2> SUFFICES ASSUME m + 1 <= Len(s)
               PROVE  \E f \in [0..m + 1 -> Nat] : Horner(f, s, c, m + 1)
    BY SMTT(30)
  <2>1. PICK f \in [0..m -> Nat] : Horner(f, s, c, m)
    BY <1>2
  <2> DEFINE g == [x \in 0..m + 1 |-> IF x = m + 1 THEN f[m] * c + s[m + 1] ELSE f[x]]
  <2>2. g \in [0..m + 1 -> Nat]
    <3>1. s[m + 1] \in Nat /\ f[m] \in Nat
      BY <2>1
    <3>2. f[m] * c \in Nat
      BY <3>1
    <3>3. QED
      BY <3>1, <3>2, SMTT(30)
  <2>3. ASSUME NEW x \in 1..m + 1 PROVE g[x] = g[x - 1] * c + s[x]
    <3>1. CASE x = m + 1
      BY <3>1
    <3>2. CASE x # m + 1
      <4>1. x \in 1..m /\ x - 1 \in 0..m /\ x - 1 # m + 1
        BY <3>2
      <4>2. g[x] = f[x] /\ g[x - 1] = f[x - 1]
        BY <4>1
      <4>3. QED
        BY <2>1, <4>1, <4>2 DEF Horner
    <3>3. QED
      BY <3>1, <3>2
  <2>4. Horner(g, s, c, m + 1)
    <3>1. g[0] = 0
      BY <2>1 DEF Horner
    <3> HIDE DEF g
    <3>2. QED
      BY <2>3, <3>1 DEF Horner
  <2> HIDE DEF g
  <2>5. QED
    BY <2>2, <2>4
<1> HIDE DEF S
<1>3. Nat \subseteq S
  BY <1>1, <1>2, Induction
<1>4. QED
  BY <1>3 DEF S

\* Equal digits stand for equal numbers.
LEMMA HornerAgree ==
  ASSUME NEW f, NEW g, NEW s, NEW t, NEW c, NEW n \in Nat,
         Horner(f, s, c, n), Horner(g, t, c, n), \A k \in 1..n : s[k] = t[k]
  PROVE  f[n] = g[n]
<1> DEFINE S == {x \in Nat : x <= n => f[x] = g[x]}
<1>1. 0 \in S
  BY DEF Horner
<1>2. ASSUME NEW x \in Nat, x \in S PROVE x + 1 \in S
  <2> SUFFICES ASSUME x + 1 <= n PROVE f[x + 1] = g[x + 1]
    OBVIOUS
  <2>1. x + 1 \in 1..n /\ (x + 1) - 1 = x
    OBVIOUS
  <2>2. f[x + 1] = f[x] * c + s[x + 1] /\ g[x + 1] = g[x] * c + t[x + 1]
    BY <2>1 DEF Horner
  <2>3. QED
    BY <1>2, <2>1, <2>2
<1> HIDE DEF S
<1>3. Nat \subseteq S
  BY <1>1, <1>2, Induction
<1>4. QED
  BY <1>3 DEF S

\* The recursive definition of Number has a solution, and what it computes is
\* the last of them.
LEMMA NumberIs ==
  ASSUME NEW s \in Seq(Nat), NEW c \in Nat
  PROVE  \E f : Horner(f, s, c, Len(s)) /\ Number(s, c) = f[Len(s)]
<1> DEFINE n == Len(s)
           Body(f) == [k \in 0..n |-> IF k = 0 THEN 0 ELSE f[k - 1] * c + s[k]]
           g == CHOOSE f : f = Body(f)
<1>1. n \in Nat /\ n <= Len(s)
  OBVIOUS
<1> HIDE DEF n
<1>2. PICK f \in [0..n -> Nat] : Horner(f, s, c, n)
  BY <1>1, HornerExists
<1> USE DEF n
<1>3. f = Body(f)
  <2>1. \A k \in 0..n : f[k] = Body(f)[k]
    BY <1>2 DEF Horner
  <2>2. QED
    BY <2>1
<1>4. g = Body(g)
  BY <1>3
<1>5. Number(s, c) = g[n]
  BY DEF Number
<1> HIDE DEF g
<1>6. Horner(g, s, c, n)
  <2>1. \A k \in 0..n : g[k] = IF k = 0 THEN 0 ELSE g[k - 1] * c + s[k]
    BY <1>4
  <2> HIDE DEF n
  <2>2. QED
    BY <1>1, <2>1 DEF Horner
<1>7. QED
  BY <1>5, <1>6

\* The first k digits.
Leading(s, k) == SubSeq(s, 1, k)

LEMMA LeadingIs ==
  ASSUME NEW s \in Seq(Nat), NEW k \in Nat, k <= Len(s)
  PROVE  /\ Leading(s, k) \in Seq(Nat) /\ Len(Leading(s, k)) = k
         /\ \A j \in 1..k : Leading(s, k)[j] = s[j]
BY DEF Leading

\* No digits stand for 0.
LEMMA NumberEmpty ==
  ASSUME NEW s \in Seq(Nat), NEW c \in Nat, Len(s) = 0
  PROVE  Number(s, c) = 0
<1>1. PICK f : Horner(f, s, c, 0) /\ Number(s, c) = f[0]
  BY NumberIs
<1>2. QED
  BY <1>1 DEF Horner

\* The last digit has the weight 1.
LEMMA NumberLast ==
  ASSUME NEW s \in Seq(Nat), NEW c \in Nat, Len(s) > 0
  PROVE  /\ Leading(s, Len(s) - 1) \in Seq(Nat) /\ Len(Leading(s, Len(s) - 1)) = Len(s) - 1
         /\ s[Len(s)] \in Nat
         /\ Number(s, c) = Number(Leading(s, Len(s) - 1), c) * c + s[Len(s)]
<1> DEFINE n == Len(s)
           t == Leading(s, n - 1)
<1>1. n \in Nat /\ n - 1 \in Nat /\ n \in 1..n /\ s[n] \in Nat
  OBVIOUS
<1>2. t \in Seq(Nat) /\ Len(t) = n - 1 /\ \A k \in 1..n - 1 : t[k] = s[k]
  <2>1. n - 1 <= Len(s)
    BY <1>1
  <2>2. QED
    BY <1>1, <2>1, LeadingIs
<1> HIDE DEF t
<1>3. PICK f : Horner(f, s, c, n) /\ Number(s, c) = f[n]
  BY NumberIs
<1>4. PICK g : Horner(g, t, c, n - 1) /\ Number(t, c) = g[n - 1]
  BY <1>2, NumberIs
<1> HIDE DEF n
<1>5. f[n] = f[n - 1] * c + s[n]
  BY <1>1, <1>3 DEF Horner
<1>6. Horner(f, s, c, n - 1)
  BY <1>1, <1>3 DEF Horner
<1>7. f[n - 1] = g[n - 1]
  BY <1>1, <1>2, <1>4, <1>6, HornerAgree
<1>8. QED
  BY <1>1, <1>2, <1>3, <1>4, <1>5, <1>7 DEF t, n

\* Numbers are naturals.
LEMMA NumberNat ==
  ASSUME NEW s \in Seq(Nat), NEW c \in Nat
  PROVE  Number(s, c) \in Nat
<1> DEFINE S == {n \in Nat : \A t \in Seq(Nat) : Len(t) = n => Number(t, c) \in Nat}
<1>1. 0 \in S
  BY NumberEmpty
<1>2. ASSUME NEW n \in Nat, n \in S PROVE n + 1 \in S
  <2> SUFFICES ASSUME NEW t \in Seq(Nat), Len(t) = n + 1 PROVE Number(t, c) \in Nat
    OBVIOUS
  <2> DEFINE u == Leading(t, Len(t) - 1)
             x == Number(u, c)
             y == Number(t, c)
  <2>1. u \in Seq(Nat) /\ Len(u) = n /\ t[n + 1] \in Nat /\ y = x * c + t[n + 1]
    BY <1>2, NumberLast
  <2>2. x \in Nat
    BY <1>2, <2>1
  <2> HIDE DEF x, y
  <2>3. y \in Nat
    BY <2>1, <2>2
  <2>4. QED
    BY <2>3 DEF y
<1> HIDE DEF S
<1>3. Nat \subseteq S
  BY <1>1, <1>2, Induction
<1>4. Len(s) \in S
  BY <1>3
<1>5. QED
  BY <1>4 DEF S

\* Digits may be replaced by equal ones.
LEMMA NumberCong ==
  ASSUME NEW s \in Seq(Nat), NEW t \in Seq(Nat), NEW c \in Nat, Len(s) = Len(t),
         \A k \in 1..Len(s) : s[k] = t[k]
  PROVE  Number(s, c) = Number(t, c)
<1> DEFINE n == Len(s)
<1>1. PICK f : Horner(f, s, c, n) /\ Number(s, c) = f[n]
  BY NumberIs
<1>2. PICK g : Horner(g, t, c, n) /\ Number(t, c) = g[n]
  BY NumberIs
<1>3. n \in Nat /\ \A k \in 1..n : s[k] = t[k]
  OBVIOUS
<1> HIDE DEF n
<1>4. f[n] = g[n]
  BY <1>1, <1>2, <1>3, HornerAgree
<1>5. QED
  BY <1>1, <1>2, <1>4

\* Zeros are digits.
LEMMA ZerosAre ==
  ASSUME NEW n \in Nat
  PROVE  /\ Zeros(n) \in Seq(Nat) /\ Len(Zeros(n)) = n /\ \A k \in 1..n : Zeros(n)[k] = 0
BY DEF Zeros

\* The digits of a power.
LEMMA OneAnd ==
  ASSUME NEW n \in Nat
  PROVE  /\ <<1>> \o Zeros(n) \in Seq(Nat) /\ Len(<<1>> \o Zeros(n)) = n + 1
         /\ \A k \in 1..n + 1 : (<<1>> \o Zeros(n))[k] = IF k = 1 THEN 1 ELSE 0
BY DEF Zeros

\* Powers are those numbers.
LEMMA PowerZero ==
  ASSUME NEW c \in Nat
  PROVE  Power(c, 0) = 1
<1> DEFINE s == <<1>> \o Zeros(0)
<1>1. s \in Seq(Nat) /\ Len(s) = 1 /\ s[1] = 1
  BY OneAnd
<1> HIDE DEF s
<1>2. PICK f : Horner(f, s, c, 1) /\ Number(s, c) = f[1]
  BY <1>1, NumberIs
<1>3. f[0] = 0 /\ f[1] = f[0] * c + s[1]
  BY <1>2 DEF Horner
<1>4. f[1] = 1
  BY <1>1, <1>3
<1>5. QED
  BY <1>2, <1>4 DEF s, Power

LEMMA PowerNat ==
  ASSUME NEW c \in Nat, NEW n \in Nat
  PROVE  Power(c, n) \in Nat
BY OneAnd, NumberNat DEF Power

LEMMA PowerNext ==
  ASSUME NEW c \in Nat, NEW n \in Nat
  PROVE  Power(c, n + 1) = Power(c, n) * c
<1> DEFINE m == n + 1
           s == <<1>> \o Zeros(m)
           t == Leading(s, m)
           u == <<1>> \o Zeros(n)
<1>1. m \in Nat /\ m > 0 /\ n + 1 = m
  OBVIOUS
<1>2. u \in Seq(Nat) /\ Len(u) = m /\ \A k \in 1..m : u[k] = IF k = 1 THEN 1 ELSE 0
  BY OneAnd
<1> HIDE DEF m
<1>3. s \in Seq(Nat) /\ Len(s) = m + 1 /\ \A k \in 1..m + 1 : s[k] = IF k = 1 THEN 1 ELSE 0
  BY <1>1, OneAnd
<1> HIDE DEF s, u
<1>4. t \in Seq(Nat) /\ Len(t) = m /\ \A k \in 1..m : t[k] = s[k]
  BY <1>1, <1>3, LeadingIs
<1>5. Number(s, c) = Number(t, c) * c + s[m + 1]
  <2>1. Len(s) - 1 = m /\ Len(s) > 0
    BY <1>1, <1>3
  <2>2. QED
    BY <1>3, <2>1, NumberLast
<1> HIDE DEF t
<1>6. Number(t, c) = Number(u, c)
  BY <1>1, <1>2, <1>3, <1>4, NumberCong
<1>7. Number(u, c) \in Nat
  BY <1>2, NumberNat
<1>8. s[m + 1] = 0
  BY <1>1, <1>3
<1> DEFINE x == Number(u, c) * c
<1>9. x \in Nat /\ Number(s, c) = x + 0
  BY <1>5, <1>6, <1>7, <1>8
<1>10. Number(s, c) = x
  BY <1>9
<1>11. QED
  BY <1>1, <1>10 DEF s, u, Power

\* A number with its digits below the base is below the power of their count.
LEMMA NumberBound ==
  ASSUME NEW c \in Nat, c > 0, NEW s \in Seq(0..c - 1)
  PROVE  s \in Seq(Nat) /\ Number(s, c) \in Nat /\ Number(s, c) < Power(c, Len(s))
<1> DEFINE S == {n \in Nat : \A t \in Seq(0..c - 1) : Len(t) = n => Number(t, c) < Power(c, n)}
<1>0. ASSUME NEW t \in Seq(0..c - 1) PROVE t \in Seq(Nat) /\ \A k \in 1..Len(t) : t[k] \in 0..c - 1
  OBVIOUS
<1>1. 0 \in S
  <2> SUFFICES ASSUME NEW t \in Seq(0..c - 1), Len(t) = 0 PROVE Number(t, c) < Power(c, 0)
    OBVIOUS
  <2>1. Number(t, c) = 0 /\ Power(c, 0) = 1
    BY <1>0, NumberEmpty, PowerZero
  <2>2. QED
    BY <2>1
<1>2. ASSUME NEW n \in Nat, n \in S PROVE n + 1 \in S
  <2> SUFFICES ASSUME NEW t \in Seq(0..c - 1), Len(t) = n + 1
               PROVE  Number(t, c) < Power(c, n + 1)
    OBVIOUS
  <2> DEFINE u == Leading(t, n)
             x == Number(u, c)
             y == Power(c, n)
  <2>1. t \in Seq(Nat) /\ t[n + 1] \in 0..c - 1 /\ Len(t) - 1 = n /\ Len(t) > 0 /\ n <= Len(t)
    BY <1>0
  <2>2. Len(u) = n /\ Number(t, c) = x * c + t[n + 1] /\ Power(c, n + 1) = y * c
    BY <2>1, NumberLast, PowerNext
  <2>3. u \in Seq(0..c - 1)
    BY <2>1 DEF Leading
  <2>4. x \in Nat /\ y \in Nat /\ x < y
    BY <1>0, <1>2, <2>2, <2>3, NumberNat, PowerNat
  <2> HIDE DEF x, y
  <2>5. (x + 1) * c <= y * c
    <3>1. y - (x + 1) \in Nat
      BY <2>4
    <3>2. (y - (x + 1)) * c >= 0
      BY <3>1
    <3>3. QED
      BY <2>4, <3>2
  <2> DEFINE d == t[n + 1]
             xc == x * c
             yc == y * c
  <2>6. d < c /\ d \in Nat /\ xc \in Nat /\ yc \in Nat /\ xc + c <= yc
    <3>1. (x + 1) * c = xc + c
      BY <2>4
    <3>2. QED
      BY <2>1, <2>4, <2>5, <3>1
  <2> HIDE DEF d, xc, yc
  <2>7. xc + d < yc
    BY <2>6
  <2>8. QED
    BY <2>2, <2>7 DEF xc, yc, d
<1> HIDE DEF S
<1>3. Nat \subseteq S
  BY <1>1, <1>2, Induction
<1>4. Len(s) \in S
  BY <1>3
<1>5. Number(s, c) < Power(c, Len(s))
  BY <1>4 DEF S
<1>6. QED
  BY <1>0, <1>5, NumberNat

\* Exponents add up.
LEMMA PowerSum ==
  ASSUME NEW c \in Nat, NEW j \in Nat, NEW k \in Nat
  PROVE  Power(c, j + k) = Power(c, j) * Power(c, k)
<1> DEFINE S == {n \in Nat : Power(c, j + n) = Power(c, j) * Power(c, n)}
<1>1. 0 \in S
  BY PowerZero, PowerNat
<1>2. ASSUME NEW n \in Nat, n \in S PROVE n + 1 \in S
  <2>1. Power(c, j + (n + 1)) = Power(c, j + n) * c /\ Power(c, n + 1) = Power(c, n) * c
    <3>1. j + n \in Nat /\ (j + n) + 1 = j + (n + 1)
      OBVIOUS
    <3>2. Power(c, (j + n) + 1) = Power(c, j + n) * c
      BY <3>1, PowerNext
    <3>3. QED
      BY <3>1, <3>2, PowerNext
  <2>2. Power(c, j + n) = Power(c, j) * Power(c, n)
    BY <1>2
  <2>3. Power(c, j) \in Nat /\ Power(c, n) \in Nat
    BY PowerNat
  <2>4. (Power(c, j) * Power(c, n)) * c = Power(c, j) * (Power(c, n) * c)
    <3> DEFINE x == Power(c, j)
               y == Power(c, n)
    <3> HIDE DEF x, y
    <3>1. x \in Nat /\ y \in Nat => (x * y) * c = x * (y * c)
      OBVIOUS
    <3>2. QED
      BY <2>3, <3>1 DEF x, y
  <2>5. QED
    BY <2>1, <2>2, <2>3, <2>4
<1> HIDE DEF S
<1>3. Nat \subseteq S
  BY <1>1, <1>2, Induction
<1>4. QED
  BY <1>3 DEF S

\* A positive base has positive powers, and they grow with the exponent.
LEMMA PowerGrows ==
  ASSUME NEW c \in Nat, c > 0, NEW n \in Nat, NEW m \in Nat, n <= m
  PROVE  0 < Power(c, n) /\ Power(c, n) <= Power(c, m)
<1> DEFINE S == {x \in Nat : 0 < Power(c, x)}
<1>1. 0 \in S
  BY PowerZero
<1>2. ASSUME NEW x \in Nat, x \in S PROVE x + 1 \in S
  BY <1>2, PowerNext, PowerNat
<1> HIDE DEF S
<1>3. Nat \subseteq S
  BY <1>1, <1>2, Induction
<1>4. m - n \in Nat /\ n + (m - n) = m
  OBVIOUS
<1> DEFINE x == Power(c, n)
           y == Power(c, m - n)
<1>5. x \in Nat /\ y \in Nat /\ x > 0 /\ y > 0
  BY <1>3, <1>4, PowerNat DEF S
<1>6. Power(c, m) = x * y
  BY <1>4, PowerSum
<1> HIDE DEF x, y
<1>7. x <= x * y
  <2>1. x * (y - 1) >= 0
    BY <1>5
  <2>2. QED
    BY <1>5, <2>1
<1>8. QED
  BY <1>5, <1>6, <1>7 DEF x

\* Digits followed by more digits.
LEMMA ConcatIs ==
  ASSUME NEW T, NEW s \in Seq(T), NEW t \in Seq(T)
  PROVE  /\ s \o t \in Seq(T) /\ Len(s \o t) = Len(s) + Len(t)
         /\ \A k \in 1..Len(s) : (s \o t)[k] = s[k]
         /\ \A k \in 1..Len(t) : (s \o t)[Len(s) + k] = t[k]
OBVIOUS

\* The same digits without the last one.
LEMMA ConcatLast ==
  ASSUME NEW s \in Seq(Nat), NEW u \in Seq(Nat), NEW n \in Nat, Len(u) = n + 1
  PROVE  /\ s \o u \in Seq(Nat) /\ Len(s \o u) = Len(s) + n + 1
         /\ (s \o u)[Len(s) + n + 1] = u[n + 1]
         /\ Leading(s \o u, Len(s) + n) = s \o Leading(u, n)
<1>1. /\ s \o u \in Seq(Nat) /\ Len(s \o u) = Len(s) + n + 1
      /\ (s \o u)[Len(s) + n + 1] = u[n + 1]
  OBVIOUS
<1>2. SubSeq(s \o u, 1, Len(s) + n) = s \o SubSeq(u, 1, n)
  OBVIOUS
<1>3. QED
  BY <1>1, <1>2 DEF Leading

LEMMA NumberConcat ==
  ASSUME NEW c \in Nat, NEW s \in Seq(Nat), NEW t \in Seq(Nat)
  PROVE  Number(s \o t, c) = Number(s, c) * Power(c, Len(t)) + Number(t, c)
<1> DEFINE S == {n \in Nat : \A u \in Seq(Nat) : Len(u) = n =>
                    Number(s \o u, c) = Number(s, c) * Power(c, n) + Number(u, c)}
<1>1. 0 \in S
  <2> SUFFICES ASSUME NEW u \in Seq(Nat), Len(u) = 0
               PROVE  Number(s \o u, c) = Number(s, c) * Power(c, 0) + Number(u, c)
    OBVIOUS
  <2>1. s \o u = s
    OBVIOUS
  <2>2. Number(u, c) = 0 /\ Power(c, 0) = 1 /\ Number(s, c) \in Nat
    BY NumberEmpty, PowerZero, NumberNat
  <2>3. QED
    BY <2>1, <2>2
<1>2. ASSUME NEW n \in Nat, n \in S PROVE n + 1 \in S
  <2> SUFFICES ASSUME NEW u \in Seq(Nat), Len(u) = n + 1
               PROVE  Number(s \o u, c) = Number(s, c) * Power(c, n + 1) + Number(u, c)
    OBVIOUS
  <2> DEFINE v == Leading(u, n)
             su == s \o u
             sv == s \o v
             x == Number(s, c)
             y == Power(c, n)
             z == Number(v, c)
             d == u[n + 1]
  <2>1. n <= Len(u) /\ Len(u) > 0 /\ Len(u) - 1 = n /\ d \in Nat
    OBVIOUS
  <2>2. v \in Seq(Nat) /\ Len(v) = n /\ Number(u, c) = z * c + d
    BY <2>1, NumberLast
  <2>3. Power(c, n + 1) = y * c /\ x \in Nat /\ y \in Nat /\ z \in Nat
    BY <2>2, PowerNext, PowerNat, NumberNat
  <2>4. Number(sv, c) = x * y + z
    BY <1>2, <2>2
  <2> DEFINE m == Len(s) + n
  <2>5. m \in Nat /\ m + 1 = Len(s) + n + 1
    OBVIOUS
  <2>6. su \in Seq(Nat) /\ Len(su) = m + 1
    <3>1. s \o u \in Seq(Nat) /\ Len(s \o u) = Len(s) + n + 1
      BY ConcatLast, ZenonT(60)
    <3>2. QED
      BY <2>5, <3>1
  <2>7. su[m + 1] = d /\ Leading(su, m) = sv
    BY <2>5, ConcatLast, ZenonT(60)
  <2> HIDE DEF v, su, sv, m
  <2>8. Number(su, c) = Number(sv, c) * c + d
    <3>1. Len(su) > 0 /\ Len(su) - 1 = m
      BY <2>5, <2>6
    <3>2. QED
      BY <2>6, <2>7, <3>1, NumberLast, ZenonT(60)
  <2> HIDE DEF x, y, z, d
  <2>9. (x * y + z) * c + d = x * (y * c) + (z * c + d)
    BY <2>1, <2>3
  <2>10. QED
    BY <2>2, <2>3, <2>4, <2>8, <2>9 DEF su, x
<1> HIDE DEF S
<1>3. Nat \subseteq S
  BY <1>1, <1>2, Induction
<1>4. Len(t) \in S
  BY <1>3
<1>5. QED
  BY <1>4 DEF S

\* Zeros stand for 0, and in front of digits they change nothing.
LEMMA LeadingZeros ==
  ASSUME NEW c \in Nat, NEW n \in Nat, NEW s \in Seq(Nat)
  PROVE  Number(Zeros(n), c) = 0 /\ Number(Zeros(n) \o s, c) = Number(s, c)
<1> DEFINE S == {m \in Nat : Number(Zeros(m), c) = 0}
<1>1. 0 \in S
  BY ZerosAre, NumberEmpty
<1>2. ASSUME NEW m \in Nat, m \in S PROVE m + 1 \in S
  <2> DEFINE z == Zeros(m + 1)
             u == Leading(z, m)
  <2>1. z \in Seq(Nat) /\ Len(z) = m + 1 /\ \A k \in 1..m + 1 : z[k] = 0
    BY ZerosAre
  <2> HIDE DEF z
  <2>2. u \in Seq(Nat) /\ Len(u) = m /\ \A k \in 1..m : u[k] = z[k]
    BY <2>1, LeadingIs
  <2>3. Number(z, c) = Number(u, c) * c + z[m + 1]
    <3>1. Len(z) > 0 /\ Len(z) - 1 = m
      BY <2>1
    <3>2. QED
      BY <2>1, <3>1, NumberLast
  <2> HIDE DEF u
  <2> DEFINE v == Zeros(m)
  <2>4. v \in Seq(Nat) /\ Len(v) = m /\ \A k \in 1..m : v[k] = 0
    BY ZerosAre
  <2> HIDE DEF v
  <2>5. Number(u, c) = Number(v, c)
    <3>1. \A k \in 1..m : u[k] = v[k]
      BY <2>1, <2>2, <2>4
    <3>2. QED
      BY <2>2, <2>4, <3>1, NumberCong
  <2>6. QED
    BY <1>2, <2>1, <2>3, <2>5 DEF z, v
<1> HIDE DEF S
<1>3. Nat \subseteq S
  BY <1>1, <1>2, Induction
<1>4. Number(Zeros(n), c) = 0
  BY <1>3 DEF S
<1> DEFINE x == Power(c, Len(s))
           y == Number(s, c)
<1>5. Number(Zeros(n) \o s, c) = 0 * x + y
  BY <1>4, ZerosAre, NumberConcat
<1>6. x \in Nat /\ y \in Nat
  <2>1. Len(s) \in Nat
    OBVIOUS
  <2>2. QED
    BY <2>1, NumberNat, PowerNat
<1> HIDE DEF x, y
<1>7. 0 * x + y = y
  BY <1>6
<1>8. QED
  BY <1>4, <1>5, <1>7 DEF y

\* Remainders are unique, and quotients.
LEMMA Quotient ==
  ASSUME NEW m \in Nat, m > 0, NEW q \in Nat, NEW d \in 0..m - 1, NEW x, x = q * m + d
  PROVE  x \div m = q /\ x % m = d
<1>1. x \in Nat
  BY SMTT(30)
<1>2. /\ x \div m \in Int /\ x % m \in 0..m - 1
      /\ x = (m * (x \div m)) + (x % m)
  BY <1>1, DivMod
<1> DEFINE k == x \div m
           e == x % m
<1> HIDE DEF k, e
<1>3. m * k + e = m * q + d
  BY <1>2 DEF k, e
<1>4. e = d
  BY <1>2, <1>3, UniqueRemainder DEF k, e
<1>5. m * (k - q) = 0 /\ k - q \in Int
  BY <1>2, <1>3, <1>4 DEF k, e
<1>6. k - q = 0
  BY <1>5, SmallMultiple
<1>7. QED
  BY <1>2, <1>4, <1>6 DEF k, e

\* Sequences with the same elements are the same.
LEMMA SeqSame ==
  ASSUME NEW T, NEW s \in Seq(T), NEW t \in Seq(T), Len(s) = Len(t),
         \A j \in 1..Len(s) : s[j] = t[j]
  PROVE  s = t
OBVIOUS

LEMMA SeqParts ==
  ASSUME NEW T, NEW s \in Seq(T), NEW k \in Nat, NEW u \in Seq(T), NEW v \in Seq(T),
         Len(u) = k, Len(v) = Len(s) - k,
         \A j \in 1..k : u[j] = s[j], \A j \in 1..Len(s) - k : v[j] = s[k + j]
  PROVE  s = u \o v
<1> DEFINE t == u \o v
           n == Len(s)
<1>0. n \in Nat /\ k \in 0..n
  OBVIOUS
<1>1. /\ t \in Seq(T) /\ Len(t) = n
      /\ \A j \in 1..k : t[j] = u[j]
      /\ \A j \in 1..n - k : t[k + j] = v[j]
  OBVIOUS
<1> HIDE DEF t, n
<1>2. ASSUME NEW j \in 1..n PROVE s[j] = t[j]
  <2>1. CASE j <= k
    <3>1. j \in 1..k
      BY <1>0, <2>1
    <3>2. QED
      BY <1>1, <3>1
  <2>2. CASE j > k
    <3>1. j - k \in 1..n - k /\ k + (j - k) = j
      BY <1>0, <2>2
    <3>2. t[k + (j - k)] = v[j - k] /\ v[j - k] = s[k + (j - k)]
      BY <1>1, <3>1 DEF n
    <3>3. QED
      BY <3>1, <3>2
  <2>3. QED
    BY <2>1, <2>2
<1>3. QED
  BY <1>1, <1>2, SeqSame DEF t, n

\* A sequence and its two parts.
LEMMA SplitAt ==
  ASSUME NEW T, NEW s \in Seq(T), NEW k \in Nat, k <= Len(s)
  PROVE  LET u == SubSeq(s, 1, k)
             v == SubSeq(s, k + 1, Len(s))
         IN  /\ u \in Seq(T) /\ Len(u) = k /\ \A j \in 1..k : u[j] = s[j]
             /\ v \in Seq(T) /\ Len(v) = Len(s) - k /\ \A j \in 1..Len(s) - k : v[j] = s[k + j]
             /\ s = u \o v
<1>1. /\ SubSeq(s, 1, k) \in Seq(T) /\ Len(SubSeq(s, 1, k)) = k
      /\ \A j \in 1..k : SubSeq(s, 1, k)[j] = s[j]
  OBVIOUS
<1>2. /\ SubSeq(s, k + 1, Len(s)) \in Seq(T) /\ Len(SubSeq(s, k + 1, Len(s))) = Len(s) - k
      /\ \A j \in 1..Len(s) - k : SubSeq(s, k + 1, Len(s))[j] = s[k + j]
  OBVIOUS
<1>3. s = SubSeq(s, 1, k) \o SubSeq(s, k + 1, Len(s))
  BY <1>1, <1>2, SeqParts
<1>4. QED
  BY <1>1, <1>2, <1>3

\* A digit of a number.
LEMMA DigitOf ==
  ASSUME NEW c \in Nat, c > 0, NEW s \in Seq(0..c - 1), NEW k \in 1..Len(s)
  PROVE  (Number(s, c) \div Power(c, Len(s) - k)) % c = s[k]
<1> DEFINE n == Len(s)
           u == SubSeq(s, 1, k)
           v == SubSeq(s, k + 1, n)
<1>1. n \in Nat /\ k \in Nat /\ k > 0 /\ n - k \in Nat /\ s[k] \in 0..c - 1
  OBVIOUS
<1>2. /\ u \in Seq(0..c - 1) /\ Len(u) = k /\ u[k] = s[k]
      /\ v \in Seq(0..c - 1) /\ Len(v) = n - k /\ s = u \o v
  <2>1. k \in Nat /\ k <= Len(s)
    OBVIOUS
  <2>2. QED
    BY <1>1, <2>1, SplitAt, SMTT(30)
<1> HIDE DEF u, v, n
<1> DEFINE x == Number(u, c)
           y == Number(v, c)
           m == Power(c, n - k)
           w == Number(Leading(u, k - 1), c)
<1>3. /\ u \in Seq(Nat) /\ x \in Nat /\ v \in Seq(Nat) /\ y \in Nat /\ y < m /\ m \in Nat
  BY <1>1, <1>2, NumberBound, PowerNat
<1>4. Number(s, c) = x * m + y
  BY <1>2, <1>3, NumberConcat
<1>5. x = w * c + s[k] /\ w \in Nat
  BY <1>1, <1>2, <1>3, NumberLast, NumberNat
<1> HIDE DEF x, y, m, w
<1>6. Number(s, c) \div m = x
  <2>1. m > 0 /\ y \in 0..m - 1
    BY <1>3
  <2>2. QED
    BY <1>3, <1>4, <2>1, Quotient
<1>7. x % c = s[k]
  BY <1>1, <1>5, Quotient
<1>8. QED
  BY <1>6, <1>7 DEF m, n

\* A byte is two digits.
LEMMA BytesAreDigits ==
  /\ D \in Nat /\ D > 1 /\ BB \in Nat /\ BB > D
  /\ \A x \in 0..BB - 1 : /\ x \div D \in 0..D - 1 /\ x % D \in 0..D - 1
                          /\ x = (x \div D) * D + (x % D)
<1>1. D \in Nat /\ D > 1
  BY BaseAssumption
<1>2. BB \in Nat /\ BB > D
  <2>1. D * (D - 1) >= D
    <3>1. D * (D - 2) >= 0
      BY <1>1
    <3>2. QED
      BY <1>1, <3>1
  <2>2. D * D \in Nat /\ D * D = D * (D - 1) + D
    BY <1>1
  <2>3. QED
    BY <1>1, <2>1, <2>2 DEF BB
<1>3. ASSUME NEW x \in 0..BB - 1
      PROVE  x \div D \in 0..D - 1 /\ x % D \in 0..D - 1 /\ x = (x \div D) * D + (x % D)
  <2> DEFINE h == x \div D
             l == x % D
  <2>1. l \in 0..D - 1 /\ h \in Int /\ x = D * h + l /\ x \in Int
    BY <1>1, <1>2, DivMod
  <2> HIDE DEF h, l
  <2>2. h \in 0..D - 1
    <3>1. CASE h < 0
      <4>1. D * (h + 1) <= 0
        BY <1>1, <2>1, <3>1
      <4>2. D * h + D = D * (h + 1)
        BY <1>1, <2>1
      <4>3. QED
        BY <1>1, <1>2, <2>1, <4>1, <4>2
    <3>2. CASE h >= D
      <4>1. D * (h - D) >= 0
        BY <1>1, <2>1, <3>2
      <4>2. D * (h - D) = D * h - BB
        BY <1>1, <2>1 DEF BB
      <4>3. QED
        BY <1>1, <1>2, <2>1, <4>1, <4>2
    <3>3. QED
      BY <1>1, <2>1, <3>1, <3>2
  <2>3. x = h * D + l
    BY <1>1, <2>1
  <2>4. h = x \div D /\ l = x % D
    BY DEF h, l
  <2>5. QED
    BY <2>1, <2>2, <2>3, <2>4, Zenon
<1>4. QED
  BY <1>1, <1>2, <1>3

\* A power of BB is an even power of D.
LEMMA EvenPower ==
  ASSUME NEW n \in Nat
  PROVE  Power(BB, n) = Power(D, 2 * n)
<1>0. D \in Nat /\ BB \in Nat
  BY BytesAreDigits
<1> DEFINE S == {m \in Nat : Power(BB, m) = Power(D, 2 * m)}
<1>1. 0 \in S
  <2>1. 2 * 0 = 0
    OBVIOUS
  <2>2. QED
    BY <1>0, <2>1, PowerZero
<1>2. ASSUME NEW m \in Nat, m \in S PROVE m + 1 \in S
  <2> DEFINE x == Power(D, 2 * m)
  <2>1. 2 * m \in Nat /\ 2 * m + 1 \in Nat /\ 2 * (m + 1) = (2 * m + 1) + 1
    OBVIOUS
  <2>2. Power(BB, m + 1) = x * (D * D)
    BY <1>0, <1>2, PowerNext DEF BB
  <2>3. Power(D, 2 * (m + 1)) = (x * D) * D
    <3>1. Power(D, (2 * m + 1) + 1) = Power(D, 2 * m + 1) * D
      BY <1>0, <2>1, PowerNext
    <3>2. Power(D, 2 * m + 1) = x * D
      BY <1>0, <2>1, PowerNext
    <3>3. QED
      BY <2>1, <3>1, <3>2
  <2>4. x \in Nat
    BY <1>0, <2>1, PowerNat
  <2> HIDE DEF x
  <2>5. x * (D * D) = (x * D) * D
    BY <1>0, <2>4
  <2>6. QED
    BY <2>2, <2>3, <2>5
<1> HIDE DEF S
<1>3. Nat \subseteq S
  BY <1>1, <1>2, Induction
<1>4. QED
  BY <1>3 DEF S

----------------------------------------------------------------------------
(***************************************************************************)
(* Words and limbs.                                                        *)
(***************************************************************************)
Bytes == Seq(0..BB - 1)

\* What bytes are.
LEMMA BytesAre ==
  ASSUME NEW s \in Bytes
  PROVE  Len(s) \in Nat /\ s \in Seq(Nat) /\ \A k \in 1..Len(s) : s[k] \in 0..BB - 1
<1> DEFINE T == 0..BB - 1
<1>1. s \in Seq(T) /\ T \subseteq Nat
  BY BytesAreDigits DEF Bytes
<1> HIDE DEF T
<1>2. Len(s) \in Nat /\ \A k \in 1..Len(s) : s[k] \in T
  BY <1>1
<1>3. s = [k \in 1..Len(s) |-> s[k]]
  BY <1>1
<1>4. s \in Seq(Nat)
  BY <1>1, <1>2, <1>3
<1>5. QED
  BY <1>2, <1>4 DEF T

LEMMA LeadingBytes ==
  ASSUME NEW s \in Bytes, NEW n \in Nat, n <= Len(s)
  PROVE  Leading(s, n) \in Bytes
<1> DEFINE T == 0..BB - 1
<1>1. s \in Seq(T)
  BY DEF Bytes
<1> HIDE DEF T
<1>2. SubSeq(s, 1, n) \in Seq(T)
  BY <1>1
<1>3. QED
  BY <1>2 DEF T, Bytes, Leading

\* A sequence backwards.
LEMMA ReverseIs ==
  ASSUME NEW T, NEW s \in Seq(T)
  PROVE  /\ Reverse(s) \in Seq(T) /\ Len(Reverse(s)) = Len(s)
         /\ \A k \in 1..Len(s) : Reverse(s)[k] = s[Len(s) + 1 - k]
BY DEF Reverse

LEMMA ReverseTwice ==
  ASSUME NEW T, NEW s \in Seq(T)
  PROVE  Reverse(Reverse(s)) = s
<1> DEFINE t == Reverse(s)
           u == Reverse(t)
           n == Len(s)
<1>1. t \in Seq(T) /\ Len(t) = n /\ \A k \in 1..n : t[k] = s[n + 1 - k]
  BY DEF Reverse
<1> HIDE DEF t
<1>2. u \in Seq(T) /\ Len(u) = n /\ \A k \in 1..n : u[k] = t[n + 1 - k]
  BY <1>1 DEF Reverse
<1> HIDE DEF u
<1>3. ASSUME NEW k \in 1..n PROVE u[k] = s[k]
  <2>1. n \in Nat
    OBVIOUS
  <2> HIDE DEF n
  <2>2. n + 1 - k \in 1..n /\ n + 1 - (n + 1 - k) = k
    BY <2>1
  <2>3. QED
    BY <1>1, <1>2, <2>2
<1>4. QED
  BY <1>1, <1>2, <1>3, SeqSame DEF u, t

\* What a word in memory stands for is below the power of its length.
LEMMA LoadNat ==
  ASSUME NEW word \in Bytes, NEW o
  PROVE  Load(word, o) \in 0..Power(BB, Len(word)) - 1
<1>1. BB \in Nat /\ BB > 0
  BY BytesAreDigits
<1>2. Reverse(word) \in Bytes /\ Len(Reverse(word)) = Len(word) /\ Len(word) \in Nat
  BY ReverseIs DEF Bytes
<1>3. ASSUME NEW s \in Bytes, Len(s) = Len(word) PROVE Number(s, BB) \in 0..Power(BB, Len(word)) - 1
  <2>1. Number(s, BB) \in Nat /\ Number(s, BB) < Power(BB, Len(s))
    BY <1>1, NumberBound DEF Bytes
  <2>2. Power(BB, Len(word)) \in Nat
    BY <1>1, <1>2, PowerNat
  <2>3. QED
    BY <1>3, <2>1, <2>2
<1>4. QED
  BY <1>2, <1>3 DEF Load, BSwap

\* A number in memory.
LEMMA StoreIs ==
  ASSUME NEW n \in Nat, NEW w \in Nat, NEW o
  PROVE  /\ Store(n, w, o) \in Bytes /\ Len(Store(n, w, o)) = w
         /\ \A k \in 1..w : Store(n, w, o)[k] =
              (n \div Power(BB, IF o = "little" THEN k - 1 ELSE w - k)) % BB
<1> DEFINE B0(k) == (n \div Power(BB, k - 1)) % BB
           word == [k \in 1..w |-> B0(k)]
<1>0. BB \in Nat /\ BB > 0
  BY BytesAreDigits
<1>1. ASSUME NEW k \in 1..w PROVE B0(k) \in 0..BB - 1
  <2>1. Power(BB, k - 1) \in Nat /\ 0 < Power(BB, k - 1)
    <3>1. k - 1 \in Nat
      OBVIOUS
    <3>2. QED
      BY <1>0, <3>1, PowerNat, PowerGrows
  <2> DEFINE q == n \div Power(BB, k - 1)
  <2>2. q \in Int
    BY <2>1, DivMod
  <2> HIDE DEF q
  <2>3. q % BB \in 0..BB - 1
    BY <1>0, <2>2, DivMod
  <2>4. QED
    BY <2>3 DEF q
<1> HIDE DEF B0
<1>2. word \in Bytes /\ Len(word) = w /\ \A k \in 1..w : word[k] = B0(k)
  BY <1>1 DEF Bytes
<1>3. Store(n, w, o) = IF o = "little" THEN word ELSE Reverse(word)
  BY DEF Store, BSwap, B0
<1> HIDE DEF word
<1>4. CASE o = "little"
  BY <1>2, <1>3, <1>4 DEF B0
<1>5. CASE o # "little"
  <2>1. /\ Reverse(word) \in Bytes /\ Len(Reverse(word)) = w
        /\ \A k \in 1..w : Reverse(word)[k] = word[w + 1 - k]
    BY <1>2, ReverseIs DEF Bytes
  <2>2. ASSUME NEW k \in 1..w PROVE word[w + 1 - k] = (n \div Power(BB, w - k)) % BB
    <3>1. w + 1 - k \in 1..w /\ (w + 1 - k) - 1 = w - k
      OBVIOUS
    <3>2. word[w + 1 - k] = B0(w + 1 - k)
      BY <1>2, <3>1
    <3>3. QED
      BY <3>1, <3>2 DEF B0
  <2>3. QED
    BY <1>3, <1>5, <2>1, <2>2
<1>6. QED
  BY <1>4, <1>5

\* What was loaded is stored as it was.
LEMMA StoreOfLoad ==
  ASSUME NEW word \in Bytes, NEW o
  PROVE  Store(Load(word, o), Len(word), o) = word
<1> DEFINE w == Len(word)
           n == Load(word, o)
           t == Store(n, w, o)
<1>0. BB \in Nat /\ BB > 0 /\ w \in Nat
  BY BytesAreDigits DEF Bytes
<1>1. n \in Nat
  <2>1. Power(BB, Len(word)) \in Nat
    BY <1>0, PowerNat
  <2>2. QED
    BY <2>1, LoadNat
<1>2. /\ t \in Bytes /\ Len(t) = w
      /\ \A k \in 1..w : t[k] = (n \div Power(BB, IF o = "little" THEN k - 1 ELSE w - k)) % BB
  BY <1>0, <1>1, StoreIs
<1> HIDE DEF t, n
<1>3. ASSUME NEW k \in 1..w PROVE t[k] = word[k]
  <2>1. CASE o = "little"
    <3> DEFINE s == Reverse(word)
               m == w + 1 - k
    <3>1. s \in Bytes /\ Len(s) = w /\ \A j \in 1..w : s[j] = word[w + 1 - j]
      BY ReverseIs DEF Bytes
    <3>2. n = Number(s, BB)
      BY <2>1 DEF n, Load, BSwap
    <3> HIDE DEF s, w
    <3>3. m \in 1..w /\ w - m = k - 1 /\ w + 1 - m = k
      BY <1>0
    <3> HIDE DEF m
    <3>4. (n \div Power(BB, w - m)) % BB = s[m]
      BY <1>0, <3>1, <3>2, <3>3, DigitOf DEF Bytes
    <3>5. s[m] = word[k]
      BY <3>1, <3>3
    <3>6. t[k] = (n \div Power(BB, k - 1)) % BB
      BY <1>2, <2>1
    <3>7. QED
      BY <3>3, <3>4, <3>5, <3>6
  <2>2. CASE o # "little"
    <3>1. n = Number(word, BB)
      BY <2>2 DEF n, Load
    <3>2. (n \div Power(BB, w - k)) % BB = word[k]
      BY <1>0, <3>1, DigitOf DEF Bytes
    <3>3. QED
      BY <1>2, <2>2, <3>2
  <2>3. QED
    BY <2>1, <2>2
<1>4. QED
  BY <1>2, <1>3, SeqSame DEF t, n, Bytes

\* A word in the other byte order.
LEMMA OtherOrder ==
  ASSUME NEW word \in Bytes, Len(word) = H
  PROVE  ToBe32(Load(word, "big")) = Load(word, "little")
<1> DEFINE s == Reverse(word)
<1>1. s \in Bytes /\ Len(s) = H /\ Reverse(s) = word
  BY ReverseIs, ReverseTwice DEF Bytes
<1> HIDE DEF s
<1>2. Load(s, "little") = Load(word, "big")
  BY <1>1 DEF Load, BSwap
<1>3. Store(Load(word, "big"), H, "little") = s
  BY <1>1, <1>2, StoreOfLoad
<1>4. Load(s, "big") = Load(word, "little")
  BY DEF Load, BSwap, s
<1>5. QED
  BY <1>3, <1>4 DEF ToBe32

\* The digits of bytes.
LEMMA U8ToHexIs ==
  ASSUME NEW x \in Bytes
  PROVE  /\ U8ToHex(x) \in Seq(0..D - 1) /\ Len(U8ToHex(x)) = 2 * Len(x)
         /\ \A k \in 1..Len(x) : /\ U8ToHex(x)[2 * k - 1] = x[k] \div D
                                 /\ U8ToHex(x)[2 * k] = x[k] % D
<1> DEFINE n == Len(x)
           E(k) == IF k % 2 = 1 THEN x[(k + 1) \div 2] \div D ELSE x[k \div 2] % D
           z == [k \in 1..2 * n |-> E(k)]
<1>0. n \in Nat /\ \A k \in 1..n : x[k] \in 0..BB - 1
  BY BytesAre
<1>1. ASSUME NEW k \in 1..n
      PROVE  /\ 2 * k - 1 \in 1..2 * n /\ E(2 * k - 1) = x[k] \div D
             /\ 2 * k \in 1..2 * n /\ E(2 * k) = x[k] % D
  <2>1. (2 * k - 1) % 2 = 1 /\ (2 * k - 1 + 1) \div 2 = k /\ (2 * k) % 2 = 0 /\ (2 * k) \div 2 = k
    OBVIOUS
  <2>2. QED
    BY <1>0, <2>1
<1>2. ASSUME NEW k \in 1..2 * n PROVE E(k) \in 0..D - 1
  <2>1. k % 2 = 1 => (k + 1) \div 2 \in 1..n
    BY <1>0
  <2>2. k % 2 # 1 => k \div 2 \in 1..n
    BY <1>0
  <2>3. \A y \in 0..BB - 1 : y \div D \in 0..D - 1 /\ y % D \in 0..D - 1
    BY BytesAreDigits
  <2>4. QED
    BY <1>0, <2>1, <2>2, <2>3
<1>3. U8ToHex(x) = z
  BY DEF U8ToHex
<1> HIDE DEF E, n
<1>4. z \in Seq(0..D - 1) /\ Len(z) = 2 * n /\ \A k \in 1..2 * n : z[k] = E(k)
  BY <1>0, <1>2
<1> HIDE DEF z
<1>5. QED
  BY <1>1, <1>3, <1>4 DEF E, n

\* They stand for the same number.
LEMMA NumberHex ==
  ASSUME NEW x \in Bytes
  PROVE  Number(U8ToHex(x), D) = Number(x, BB)
<1>0. D \in Nat /\ D > 1 /\ BB \in Nat /\ \A y \in 0..BB - 1 : /\ y \div D \in 0..D - 1 /\ y % D \in 0..D - 1
                                                      /\ y = (y \div D) * D + (y % D)
  BY BytesAreDigits
<1>6. ASSUME NEW y \in Bytes
       PROVE  y \in Seq(Nat) /\ U8ToHex(y) \in Seq(Nat) /\ \A k \in 1..Len(y) : y[k] \in 0..BB - 1
  <2> DEFINE z == U8ToHex(y)
  <2>1. z \in Seq(0..D - 1)
    BY U8ToHexIs
  <2> HIDE DEF z
  <2>2. z \in Seq(Nat)
    BY <1>0, <2>1
  <2>3. QED
    BY <2>2, BytesAre DEF z
<1> DEFINE S == {n \in Nat : \A y \in Bytes : Len(y) = n => Number(U8ToHex(y), D) = Number(y, BB)}
<1>1. 0 \in S
  <2> SUFFICES ASSUME NEW y \in Bytes, Len(y) = 0 PROVE Number(U8ToHex(y), D) = Number(y, BB)
    OBVIOUS
  <2>1. Len(U8ToHex(y)) = 0
    BY U8ToHexIs
  <2>2. QED
    BY <1>0, <1>6, <2>1, NumberEmpty
<1>2. ASSUME NEW n \in Nat, n \in S PROVE n + 1 \in S
  <2> SUFFICES ASSUME NEW y \in Bytes, Len(y) = n + 1
               PROVE  Number(U8ToHex(y), D) = Number(y, BB)
    OBVIOUS
  <2> DEFINE u == Leading(y, n)
             z == U8ToHex(y)
             v == U8ToHex(u)
             d == y[n + 1]
             h == d \div D
             l == d % D
  <2>1. /\ u \in Bytes /\ Len(u) = n /\ \A k \in 1..n : u[k] = y[k]
    <3>1. n <= Len(y) /\ y \in Seq(Nat)
      BY <1>6
    <3>2. QED
      BY <3>1, LeadingIs, LeadingBytes
  <2>2. d \in 0..BB - 1 /\ h \in 0..D - 1 /\ l \in 0..D - 1 /\ d = h * D + l
    <3>1. n + 1 \in 1..Len(y)
      OBVIOUS
    <3>2. d \in 0..BB - 1
      BY <1>6, <3>1
    <3>3. QED
      BY <1>0, <3>2, Zenon
  <2>3. y \in Seq(Nat) /\ Number(y, BB) = Number(u, BB) * BB + d
    <3>1. Len(y) > 0 /\ Len(y) - 1 = n /\ y \in Seq(Nat)
      BY <1>6
    <3>2. QED
      BY <1>0, <3>1, NumberLast
  <2>4. /\ z \in Seq(Nat) /\ Len(z) = 2 * n + 2
        /\ \A k \in 1..n + 1 : z[2 * k - 1] = y[k] \div D /\ z[2 * k] = y[k] % D
    <3>1. /\ Len(z) = 2 * Len(y)
          /\ \A k \in 1..Len(y) : z[2 * k - 1] = y[k] \div D /\ z[2 * k] = y[k] % D
      BY U8ToHexIs
    <3>2. z \in Seq(Nat)
      BY <1>6
    <3> HIDE DEF z
    <3>3. QED
      BY <3>1, <3>2
  <2>5. /\ v \in Seq(Nat) /\ Len(v) = 2 * n
        /\ \A k \in 1..n : v[2 * k - 1] = u[k] \div D /\ v[2 * k] = u[k] % D
    BY <1>6, <2>1, U8ToHexIs
  <2> HIDE DEF z, v, u
  <2> DEFINE t == Leading(z, 2 * n + 1)
             q == Leading(t, 2 * n)
  <2>6. /\ t \in Seq(Nat) /\ Len(t) = 2 * n + 1 /\ \A k \in 1..2 * n + 1 : t[k] = z[k]
        /\ z[2 * n + 2] = l /\ Number(z, D) = Number(t, D) * D + l
    <3>1. Len(z) > 0 /\ Len(z) - 1 = 2 * n + 1 /\ 2 * n + 1 <= Len(z) /\ 2 * n + 1 \in Nat
      BY <2>4
    <3>2. z[2 * n + 2] = l
      <4>1. n + 1 \in 1..n + 1 /\ 2 * (n + 1) = 2 * n + 2
        OBVIOUS
      <4>2. z[2 * (n + 1)] = l
        BY <2>4, <4>1
      <4>3. QED
        BY <4>1, <4>2
    <3>3. Number(z, D) = Number(Leading(z, Len(z) - 1), D) * D + z[Len(z)]
      BY <1>0, <2>4, <3>1, NumberLast
    <3>4. QED
      BY <2>4, <3>1, <3>2, <3>3, LeadingIs
  <2> HIDE DEF t
  <2>7. /\ q \in Seq(Nat) /\ Len(q) = 2 * n /\ \A k \in 1..2 * n : q[k] = z[k]
        /\ Number(t, D) = Number(q, D) * D + h
    <3>1. Len(t) > 0 /\ Len(t) - 1 = 2 * n /\ 2 * n <= Len(t) /\ 2 * n \in Nat
      BY <2>6
    <3>2. t[2 * n + 1] = h
      <4>1. n + 1 \in 1..n + 1 /\ 2 * (n + 1) - 1 = 2 * n + 1 /\ 2 * n + 1 \in 1..2 * n + 1
        OBVIOUS
      <4>2. z[2 * (n + 1) - 1] = h
        BY <2>4, <4>1
      <4>3. QED
        BY <2>6, <4>1, <4>2
    <3>3. Number(t, D) = Number(Leading(t, Len(t) - 1), D) * D + t[Len(t)]
      BY <1>0, <2>6, <3>1, NumberLast
    <3>4. \A k \in 1..2 * n : k \in 1..2 * n + 1
      OBVIOUS
    <3>5. QED
      BY <2>6, <3>1, <3>2, <3>3, <3>4, LeadingIs
  <2> HIDE DEF q, h, l
  <2>8. \A k \in 1..2 * n : q[k] = v[k]
    <3> SUFFICES ASSUME NEW k \in 1..2 * n PROVE z[k] = v[k]
      BY <2>7
    <3>1. PICK j \in 1..n : k = 2 * j - 1 \/ k = 2 * j
      <4>1. (k + 1) \div 2 \in 1..n /\ (k = 2 * ((k + 1) \div 2) - 1 \/ k = 2 * ((k + 1) \div 2))
        OBVIOUS
      <4>2. QED
        BY <4>1
    <3>2. j \in 1..n + 1 /\ u[j] = y[j]
      BY <2>1, <3>1
    <3>3. QED
      BY <2>4, <2>5, <3>1, <3>2
  <2>9. Number(q, D) = Number(v, D)
    BY <1>0, <2>5, <2>7, <2>8, NumberCong, ZenonT(60)
  <2>10. Number(v, D) = Number(u, BB)
    BY <1>2, <2>1 DEF v
  <2> DEFINE g == Number(u, BB)
  <2>11. g \in Nat
    BY <1>0, <1>6, <2>1, NumberNat
  <2> HIDE DEF g, d
  <2>12. (g * D + h) * D + l = g * BB + d
    BY <1>0, <2>2, <2>11 DEF BB
  <2>13. QED
    BY <2>3, <2>6, <2>7, <2>9, <2>10, <2>12 DEF z, g
<1> HIDE DEF S
<1>3. Nat \subseteq S
  BY <1>1, <1>2, Induction
<1>4. Len(x) \in S
  BY <1>3 DEF Bytes
<1>5. QED
  BY <1>4 DEF S

\* A sequence filled up with zeros in front.
Padded(s, n) == Zeros(n - Len(s)) \o s

LEMMA PaddedIs ==
  ASSUME NEW T, 0 \in T, NEW s \in Seq(T), NEW n \in Nat, Len(s) <= n
  PROVE  /\ Padded(s, n) \in Seq(T) /\ Len(Padded(s, n)) = n
         /\ \A k \in 1..n : Padded(s, n)[k] = IF k <= n - Len(s) THEN 0 ELSE s[k - (n - Len(s))]
<1> DEFINE m == n - Len(s)
           z == Zeros(m)
           t == z \o s
<1>1. m \in Nat /\ Len(s) \in Nat /\ Len(s) = n - m
  OBVIOUS
<1> HIDE DEF m
<1>2. z \in Seq(T) /\ Len(z) = m /\ \A k \in 1..m : z[k] = 0
  BY <1>1 DEF Zeros
<1> HIDE DEF z
<1>3. /\ t \in Seq(T) /\ Len(t) = n
      /\ \A k \in 1..m : t[k] = z[k]
      /\ \A k \in m + 1..n : t[k] = s[k - m]
  BY <1>1, <1>2
<1> HIDE DEF t
<1>4. \A k \in 1..n : t[k] = IF k <= m THEN 0 ELSE s[k - m]
  BY <1>1, <1>2, <1>3
<1>5. QED
  BY <1>3, <1>4 DEF m, z, t, Padded

\* The word that is loaded is the array filled up with zeros.
LEMMA WindowIs ==
  ASSUME NEW in \in Bytes, NEW n \in Nat, Len(in) <= n
  PROVE  /\ SubSeq(Zeros(n) \o in, Len(in) + 1, Len(in) + n) = Padded(in, n)
         /\ Padded(in, n) \in Bytes /\ Len(Padded(in, n)) = n
<1> DEFINE T == 0..BB - 1
           m == Len(in)
           z == Zeros(n)
           t == z \o in
           u == SubSeq(t, m + 1, m + n)
           v == Padded(in, n)
<1>0. 0 \in T /\ in \in Seq(T)
  BY BytesAreDigits DEF Bytes
<1> HIDE DEF T
<1>1. m \in Nat /\ m <= n
  BY <1>0
<1>2. z \in Seq(T) /\ Len(z) = n /\ \A k \in 1..n : z[k] = 0
  BY <1>0 DEF Zeros
<1>3. v \in Seq(T) /\ Len(v) = n /\ \A k \in 1..n : v[k] = IF k <= n - m THEN 0 ELSE in[k - (n - m)]
  BY <1>0, PaddedIs
<1> HIDE DEF z, v
<1>4. /\ t \in Seq(T) /\ Len(t) = n + m
      /\ \A k \in 1..n : t[k] = z[k]
      /\ \A k \in n + 1..n + m : t[k] = in[k - n]
  BY <1>0, <1>2
<1> HIDE DEF t, m
<1>5. u \in Seq(T) /\ Len(u) = n /\ \A k \in 1..n : u[k] = t[m + k]
  BY <1>1, <1>4
<1> HIDE DEF u
<1>6. ASSUME NEW k \in 1..n PROVE u[k] = v[k]
  <2>1. CASE k <= n - m
    <3>1. m + k \in 1..n
      BY <1>1, <2>1
    <3>2. QED
      BY <1>2, <1>3, <1>4, <1>5, <2>1, <3>1
  <2>2. CASE ~ (k <= n - m)
    <3>1. m + k \in n + 1..n + m /\ (m + k) - n = k - (n - m)
      BY <1>1, <2>2
    <3>2. u[k] = in[(m + k) - n]
      BY <1>4, <1>5, <3>1
    <3>3. v[k] = in[k - (n - m)]
      BY <1>3, <2>2
    <3>4. QED
      BY <3>1, <3>2, <3>3
  <2>3. QED
    BY <2>1, <2>2
<1>7. u = v
  BY <1>3, <1>5, <1>6, SeqSame
<1>8. QED
  BY <1>3, <1>7 DEF u, v, t, z, m, T, Bytes

LEMMA ConcatNat ==
  ASSUME NEW s \in Seq(Nat), NEW t \in Seq(Nat)
  PROVE  /\ s \o t \in Seq(Nat) /\ Len(s \o t) = Len(s) + Len(t)
         /\ \A k \in 1..Len(s) : (s \o t)[k] = s[k]
         /\ \A k \in Len(s) + 1..Len(s) + Len(t) : (s \o t)[k] = t[k - Len(s)]
OBVIOUS

\* Stored again, a word is the array, filled up with zeros; it is the number
\* that the array's bytes are, or in little-endian order a multiple of it.
LEMMA WordBack ==
  ASSUME NEW in \in Bytes, NEW w \in Nat, Len(in) <= w, NEW o
  PROVE  /\ Load(Padded(in, w), o) \in 0..Power(BB, w) - 1
         /\ Store(Load(Padded(in, w), o), w, o) = Padded(in, w)
         /\ Load(Padded(in, w), o) = IF o = "little"
                                     THEN Number(Reverse(in), BB) * Power(BB, w - Len(in))
                                     ELSE Number(in, BB)
<1> DEFINE m == w - Len(in)
           z == Zeros(m)
           t == Reverse(in)
<1>1. Padded(in, w) \in Bytes /\ Len(Padded(in, w)) = w /\ Padded(in, w) = z \o in
  BY WindowIs DEF Padded
<1>2. Load(Padded(in, w), o) \in 0..Power(BB, w) - 1 /\ Store(Load(Padded(in, w), o), w, o) = Padded(in, w)
  BY <1>1, LoadNat, StoreOfLoad
<1>3. BB \in Nat /\ m \in Nat /\ in \in Seq(Nat) /\ Len(in) \in Nat
  BY BytesAre, BytesAreDigits
<1>4. CASE o # "little"
  BY <1>1, <1>2, <1>3, <1>4, LeadingZeros DEF Load
<1>5. CASE o = "little"
  <2>1. t \in Seq(Nat) /\ Len(t) = Len(in) /\ \A k \in 1..Len(in) : t[k] = in[Len(in) + 1 - k]
    BY <1>3, ReverseIs
  <2>2. z \in Seq(Nat) /\ Len(z) = m /\ \A k \in 1..m : z[k] = 0
    BY <1>3, ZerosAre
  <2> DEFINE y == Padded(in, w)
             u == Reverse(y)
             v == t \o z
             n == Len(in)
  <2>3. y \in Seq(Nat) /\ Len(y) = w /\ \A k \in 1..w : y[k] = IF k <= m THEN 0 ELSE in[k - m]
    BY <1>3, PaddedIs
  <2>4. n \in Nat /\ w = m + n
    BY <1>3
  <2> HIDE DEF y, m, t, z, n
  <2>5. u \in Seq(Nat) /\ Len(u) = m + n /\ \A k \in 1..m + n : u[k] = y[m + n + 1 - k]
    <3>1. u \in Seq(Nat) /\ Len(u) = Len(y) /\ \A k \in 1..Len(y) : u[k] = y[Len(y) + 1 - k]
      BY <2>3, ReverseIs
    <3>2. Len(y) = m + n
      BY <2>3, <2>4
    <3> HIDE DEF u
    <3>3. QED
      BY <3>1, <3>2
  <2>6. v \in Seq(Nat) /\ Len(v) = n + m /\ (\A k \in 1..n : v[k] = t[k])
        /\ \A k \in n + 1..n + m : v[k] = z[k - n]
    <3>1. Len(t) = n /\ Len(z) = m
      BY <2>1, <2>2 DEF n
    <3>2. /\ v \in Seq(Nat) /\ Len(v) = Len(t) + Len(z)
          /\ \A k \in 1..Len(t) : v[k] = t[k]
          /\ \A k \in Len(t) + 1..Len(t) + Len(z) : v[k] = z[k - Len(t)]
      BY <2>1, <2>2, ConcatNat
    <3> HIDE DEF v
    <3>3. QED
      BY <3>1, <3>2
  <2> HIDE DEF u, v
  <2>7. ASSUME NEW k \in 1..m + n PROVE u[k] = v[k]
    <3>1. CASE k <= n
      <4>1. m + n + 1 - k \in m + 1..m + n /\ (m + n + 1 - k) - m = n + 1 - k /\ k \in 1..n
        BY <1>3, <2>4, <3>1
      <4>2. y[m + n + 1 - k] = in[n + 1 - k]
        BY <1>3, <2>3, <2>4, <4>1
      <4>3. v[k] = in[n + 1 - k]
        BY <2>1, <2>6, <4>1 DEF n
      <4>4. QED
        BY <2>5, <4>2, <4>3
    <3>2. CASE k > n
      <4>1. m + n + 1 - k \in 1..m /\ k \in n + 1..n + m /\ k - n \in 1..m
        BY <1>3, <2>4, <3>2
      <4>2. y[m + n + 1 - k] = 0
        BY <1>3, <2>3, <2>4, <4>1
      <4>3. v[k] = 0
        BY <2>2, <2>6, <4>1
      <4>4. QED
        BY <2>5, <4>2, <4>3
    <3>3. QED
      BY <2>4, <3>1, <3>2
  <2>8. u = v
    <3>1. m + n = n + m
      BY <1>3, <2>4
    <3>2. QED
      BY <2>5, <2>6, <2>7, <3>1, SeqSame
  <2> DEFINE f == Number(t, BB)
             g == Power(BB, m)
  <2>9. Number(v, BB) = f * g + 0
    BY <1>3, <2>1, <2>2, NumberConcat, LeadingZeros DEF v, z
  <2>10. f \in Nat /\ g \in Nat
    BY <1>3, <2>1, NumberNat, PowerNat
  <2> HIDE DEF f, g
  <2>11. Number(v, BB) = f * g
    BY <2>9, <2>10
  <2>12. Load(y, o) = Number(u, BB)
    BY <1>5 DEF Load, BSwap, u
  <2>13. QED
    BY <1>2, <1>5, <2>8, <2>11, <2>12 DEF f, g, m, t, y
<1>6. QED
  BY <1>4, <1>5

\* The digits of a 32-bit word are those of its bytes, in either order.
LEMMA U32HexRight ==
  ASSUME NEW word \in Bytes, Len(word) = H, NEW o \in {"big", "little"}
  PROVE  U32ToHex(Load(word, o), o) = U8ToHex(word)
<1> DEFINE x == IF o = "big" THEN word ELSE Reverse(word)
           n == Load(word, o)
           y == U8ToHex(x)
           z == U8ToHex(word)
           G(k) == (n \div Power(D, 2 * H - k)) % D
           J(k) == IF o = "big" THEN k ELSE IF k % 2 = 1 THEN 2 * H - k ELSE 2 * H + 2 - k
           u == [k \in 1..2 * H |-> G(J(k))]
<1>0. D \in Nat /\ D > 1 /\ H \in Nat
  BY BaseAssumption
<1>1. x \in Bytes /\ Len(x) = H /\ n = Number(x, BB)
  BY ReverseIs DEF Load, BSwap, Bytes
<1>2. y \in Seq(0..D - 1) /\ Len(y) = 2 * H /\ Number(y, D) = n
      /\ \A k \in 1..H : y[2 * k - 1] = x[k] \div D /\ y[2 * k] = x[k] % D
  BY <1>1, U8ToHexIs, NumberHex
<1>3. z \in Seq(0..D - 1) /\ Len(z) = 2 * H
      /\ \A k \in 1..H : z[2 * k - 1] = word[k] \div D /\ z[2 * k] = word[k] % D
  BY U8ToHexIs
<1>4. U32ToHex(n, o) = u
  BY DEF U32ToHex
<1> HIDE DEF n, y, z
<1>5. ASSUME NEW k \in 1..2 * H PROVE G(k) = y[k]
  <2>1. k \in 1..Len(y)
    BY <1>2
  <2>2. (Number(y, D) \div Power(D, Len(y) - k)) % D = y[k]
    <3>1. D > 0 /\ y \in Seq(0..D - 1)
      BY <1>0, <1>2
    <3>2. QED
      BY <1>0, <2>1, <3>1, DigitOf
  <2>3. QED
    BY <1>2, <2>2
<1>6. ASSUME NEW k \in 1..2 * H PROVE J(k) \in 1..2 * H /\ y[J(k)] = z[k]
  <2>1. CASE o = "big"
    BY <2>1 DEF y, z
  <2>2. CASE o = "little"
    <3>1. PICK j \in 1..H : k = 2 * j - 1 \/ k = 2 * j
      <4>1. (k + 1) \div 2 \in 1..H /\ (k = 2 * ((k + 1) \div 2) - 1 \/ k = 2 * ((k + 1) \div 2))
        BY <1>0
      <4>2. QED
        BY <4>1
    <3> DEFINE g == H + 1 - j
    <3>2. g \in 1..H /\ x[g] = word[j]
      <4>1. g \in 1..H /\ H + 1 - g = j /\ x = Reverse(word)
        BY <1>0, <2>2
      <4>2. \A h \in 1..H : Reverse(word)[h] = word[H + 1 - h]
        BY ReverseIs DEF Bytes
      <4>3. QED
        BY <4>1, <4>2
    <3>3. CASE k = 2 * j - 1
      <4>1. k % 2 = 1 /\ 2 * H - k = 2 * g - 1 /\ 2 * H - k \in 1..2 * H
        BY <1>0, <3>3
      <4>2. J(k) = 2 * g - 1
        BY <2>2, <4>1
      <4>3. QED
        BY <1>2, <1>3, <3>2, <3>3, <4>1, <4>2
    <3>4. CASE k = 2 * j
      <4>1. k % 2 = 0 /\ 2 * H + 2 - k = 2 * g /\ 2 * H + 2 - k \in 1..2 * H
        BY <1>0, <3>4
      <4>2. J(k) = 2 * g
        BY <2>2, <4>1
      <4>3. QED
        BY <1>2, <1>3, <3>2, <3>4, <4>1, <4>2
    <3>5. QED
      BY <3>1, <3>3, <3>4
  <2>3. QED
    BY <2>1, <2>2
<1> HIDE DEF G, J
<1>7. u = z
  <2>1. \A k \in 1..2 * H : u[k] = z[k]
    BY <1>5, <1>6
  <2>2. z = [k \in 1..2 * H |-> z[k]]
    BY <1>3
  <2> HIDE DEF z
  <2>3. QED
    BY <2>1, <2>2
<1>8. QED
  BY <1>4, <1>7 DEF n, z

----------------------------------------------------------------------------
(***************************************************************************)
(* Hexadecimal digits.                                                     *)
(***************************************************************************)
\* A digit is its own low half.
LEMMA SmallDigit ==
  ASSUME NEW c \in 0..D - 1
  PROVE  c \div D = 0 /\ c % D = c
<1>1. D \in Nat /\ D > 1
  BY BytesAreDigits
<1>2. c = 0 * D + c
  BY <1>1
<1>3. QED
  BY <1>1, <1>2, Quotient

\* Two bytes or-ed are a byte; of a high and a low digit it is both.
LEMMA OrRight ==
  /\ \A x \in 0..BB - 1, y \in 0..BB - 1 : OrBytes(x, y) \in 0..BB - 1
  /\ \A h \in 0..D - 1, l \in 0..D - 1 :
       LET x == OrBytes((h * D) % BB, l) IN x \in 0..BB - 1 /\ x \div D = h /\ x % D = l
<1>0. /\ D \in Nat /\ D > 1 /\ BB \in Nat /\ BB > D
      /\ \A x \in 0..BB - 1 : /\ x \div D \in 0..D - 1 /\ x % D \in 0..D - 1
                              /\ x = (x \div D) * D + (x % D)
  BY BytesAreDigits
<1>1. ASSUME NEW h \in 0..D - 1, NEW l \in 0..D - 1
      PROVE  h * D + l \in 0..BB - 1 /\ (h * D + l) \div D = h /\ (h * D + l) % D = l /\ h * D + l \in Nat
  <2> DEFINE x == h * D + l
  <2>1. (h * D + l) \div D = h /\ (h * D + l) % D = l
    BY <1>0, Quotient
  <2>2. (D - 1 - h) * D >= 0
    <3>1. D - 1 - h \in Nat
      BY <1>0
    <3>2. QED
      BY <1>0, <3>1
  <2>3. (D - 1 - h) * D = BB - D - h * D /\ h * D \in Nat
    BY <1>0 DEF BB
  <2>4. QED
    BY <1>0, <2>1, <2>2, <2>3
<1>2. ASSUME NEW x \in 0..BB - 1, NEW y \in 0..BB - 1 PROVE OrBytes(x, y) \in 0..BB - 1
  <2> DEFINE e == DigitOr[x \div D][y \div D]
             f == DigitOr[x % D][y % D]
  <2>1. e \in 0..D - 1 /\ f \in 0..D - 1
    BY <1>0, OrAssumption, ZenonT(60)
  <2>2. OrBytes(x, y) = e * D + f
    BY DEF OrBytes
  <2> HIDE DEF e, f
  <2>3. QED
    BY <1>1, <2>1, <2>2
<1>3. ASSUME NEW h \in 0..D - 1, NEW l \in 0..D - 1
      PROVE  OrBytes((h * D) % BB, l) = h * D + l
  <2> DEFINE g == h * D
  <2>1. 0 \in 0..D - 1 /\ g + 0 = g
    BY <1>0
  <2>2. g \in 0..BB - 1 /\ g \div D = h /\ g % D = 0
    BY <1>1, <2>1
  <2> HIDE DEF g
  <2>3. g % BB = g
    BY <1>0, <2>2, ModSmall
  <2>4. l \div D = 0 /\ l % D = l
    BY SmallDigit
  <2>5. OrBytes(g, l) = DigitOr[h][0] * D + DigitOr[0][l]
    BY <2>2, <2>4 DEF OrBytes
  <2>6. DigitOr[h][0] = h /\ DigitOr[0][l] = l
    BY OrAssumption
  <2>7. QED
    BY <2>3, <2>5, <2>6 DEF g
<1>4. QED
  BY <1>1, <1>2, <1>3

\* Whatever a character is, the table gives a byte, and for a digit its value.
LEMMA InvAsciiByte ==
  ASSUME beyond \in 0..BB - 1, NEW c \in 0..High
  PROVE  InvAscii(c) \in 0..BB - 1 /\ (c < D => c \in 0..D - 1 /\ InvAscii(c) = c)
<1>1. D \in Nat /\ D > 1 /\ BB \in Nat /\ BB > D
  BY BytesAreDigits
<1>2. QED
  BY <1>1 DEF InvAscii, High, NoDigit

\* The bytes that digits are turned into.
LEMMA HexToU8Is ==
  ASSUME beyond \in 0..BB - 1, NEW in \in Seq(0..High)
  PROVE  LET odd == Len(in) % 2
             h   == Len(in) \div 2
             y   == HexToU8(in)
         IN  /\ odd \in {0, 1} /\ h \in Nat /\ Len(in) = 2 * h + odd
             /\ y \in Bytes /\ Len(y) = odd + h
             /\ odd = 1 => y[1] = InvAscii(in[1])
             /\ \A k \in 1..h : y[odd + k] =
                  OrBytes((InvAscii(in[odd + 2 * k - 1]) * D) % BB, InvAscii(in[odd + 2 * k]))
<1> DEFINE m == Len(in)
           odd == m % 2
           h == m \div 2
           E(k) == OrBytes((InvAscii(in[odd + 2 * k - 1]) * D) % BB, InvAscii(in[odd + 2 * k]))
           rest == [k \in 1..h |-> E(k)]
           x == IF odd = 1 THEN <<InvAscii(in[1])>> \o rest ELSE rest
<1>0. m \in Nat /\ \A k \in 1..m : in[k] \in 0..High
  <2> DEFINE U == 0..High
  <2>1. in \in Seq(U)
    OBVIOUS
  <2> HIDE DEF U
  <2>2. Len(in) \in Nat /\ \A k \in 1..Len(in) : in[k] \in U
    BY <2>1
  <2>3. QED
    BY <2>2 DEF U
<1>1. D \in Nat /\ D > 1 /\ BB \in Nat /\ BB > D
  BY BytesAreDigits
<1>2. odd \in {0, 1} /\ h \in Nat /\ m = 2 * h + odd
  BY <1>0
<1>3. HexToU8(in) = x
  BY DEF HexToU8
<1> HIDE DEF m, odd, h
<1>4. ASSUME NEW k \in 1..h PROVE E(k) \in 0..BB - 1
  <2>1. odd + 2 * k - 1 \in 1..m /\ odd + 2 * k \in 1..m
    BY <1>2
  <2> DEFINE c == InvAscii(in[odd + 2 * k - 1])
             e == InvAscii(in[odd + 2 * k])
  <2>2. c \in 0..BB - 1 /\ e \in 0..BB - 1
    BY <1>0, <2>1, InvAsciiByte
  <2> HIDE DEF c, e
  <2>3. c * D \in Int
    BY <1>1, <2>2
  <2>4. (c * D) % BB \in 0..BB - 1
    BY <1>1, <2>3, DivMod
  <2>5. QED
    BY <2>2, <2>4, OrRight DEF c, e
<1>5. odd = 1 => InvAscii(in[1]) \in 0..BB - 1
  <2>1. odd = 1 => 1 \in 1..m
    BY <1>2
  <2>2. QED
    BY <1>0, <2>1, InvAsciiByte
<1> DEFINE T == 0..BB - 1
           y == InvAscii(in[1])
<1> HIDE DEF E, y
<1>6. rest \in Seq(T) /\ Len(rest) = h /\ \A k \in 1..h : rest[k] = E(k)
  BY <1>2, <1>4
<1> HIDE DEF rest, T
<1>7. CASE odd = 1
  <2>1. y \in T
    BY <1>5, <1>7 DEF y, T
  <2>2. /\ <<y>> \o rest \in Seq(T) /\ Len(<<y>> \o rest) = 1 + h /\ (<<y>> \o rest)[1] = y
        /\ \A k \in 1..h : (<<y>> \o rest)[1 + k] = rest[k]
    BY <1>2, <1>6, <2>1
  <2>3. x = <<y>> \o rest
    BY <1>7 DEF y
  <2> HIDE DEF x
  <2>4. QED
    BY <1>2, <1>3, <1>6, <1>7, <2>2, <2>3 DEF Bytes, T, E, y, m, odd, h
<1>8. CASE odd = 0
  <2>1. x = rest
    BY <1>8
  <2> HIDE DEF x
  <2>2. \A k \in 1..h : x[odd + k] = E(k)
    BY <1>2, <1>6, <1>8, <2>1
  <2>3. QED
    BY <1>2, <1>3, <1>6, <1>8, <2>1, <2>2 DEF Bytes, T, E, m, odd, h
<1>9. QED
  BY <1>2, <1>7, <1>8 DEF m, odd, h

\* Bytes that fill the word are not changed.
LEMMA PaddedFull ==
  ASSUME NEW s \in Bytes
  PROVE  Padded(s, Len(s)) = s
<1> DEFINE T == 0..BB - 1
           n == Len(s)
           t == Padded(s, n)
<1>0. 0 \in T /\ s \in Seq(T) /\ n \in Nat
  BY BytesAreDigits, BytesAre DEF Bytes
<1> HIDE DEF T
<1>1. t \in Seq(T) /\ Len(t) = n /\ \A k \in 1..n : t[k] = IF k <= n - Len(s) THEN 0 ELSE s[k - (n - Len(s))]
  BY <1>0, PaddedIs
<1> HIDE DEF t
<1>2. \A k \in 1..n : t[k] = s[k]
  BY <1>0, <1>1
<1>3. QED
  BY <1>0, <1>1, <1>2, SeqSame DEF t

LEMMA FullWord ==
  ASSUME NEW x \in Bytes, Len(x) = W
  PROVE  U8ToU64(x, "big") = Number(x, BB)
<1>1. W \in Nat /\ W <= W
  BY BaseAssumption
<1>2. SubSeq(Zeros(W) \o x, Len(x) + 1, Len(x) + W) = Padded(x, W)
  BY <1>1, WindowIs
<1>3. Padded(x, W) = x
  BY PaddedFull
<1>4. QED
  BY <1>2, <1>3 DEF U8ToU64, Load

\* A limb read from digits: the bytes it is made of, and how far they are the
\* digits that were given.
LEMMA HexLimb ==
  ASSUME beyond \in 0..BB - 1, NEW in \in Seq(0..High), Len(in) <= 2 * W,
         NEW x, x = Padded(HexToU8(in), W), NEW g, g = Padded(in, 2 * W)
  PROVE  /\ x \in Bytes /\ Len(x) = W /\ HexToU64(in, "big") = Number(x, BB)
         /\ \A k \in 1..W : g[2 * k - 1] < D /\ g[2 * k] < D =>
              x[k] \div D = g[2 * k - 1] /\ x[k] % D = g[2 * k]
<1> DEFINE m == Len(in)
           odd == m % 2
           h == m \div 2
           y == HexToU8(in)
           z == W - Len(y)
<1>0. /\ D \in Nat /\ D > 1 /\ W \in Nat /\ W > 0
      /\ 0 \in 0..BB - 1 /\ 0 \in 0..High
  BY BytesAreDigits, BaseAssumption DEF High
<1>1. /\ odd \in {0, 1} /\ h \in Nat /\ m = 2 * h + odd
      /\ y \in Bytes /\ Len(y) = odd + h
      /\ odd = 1 => y[1] = InvAscii(in[1])
      /\ \A k \in 1..h : y[odd + k] =
           OrBytes((InvAscii(in[odd + 2 * k - 1]) * D) % BB, InvAscii(in[odd + 2 * k]))
  BY HexToU8Is
<1>2. m \in Nat /\ m <= 2 * W /\ \A k \in 1..m : in[k] \in 0..High
  <2> DEFINE U == 0..High
  <2>1. in \in Seq(U)
    OBVIOUS
  <2> HIDE DEF U
  <2>2. Len(in) \in Nat /\ \A k \in 1..Len(in) : in[k] \in U
    BY <2>1
  <2>3. QED
    BY <2>2 DEF U
<1>3. z \in Nat /\ z = W - odd - h
  <2> HIDE DEF odd, h, y, m
  <2>1. odd + h <= W
    BY <1>0, <1>1, <1>2
  <2>2. QED
    BY <1>0, <1>1, <2>1
<1>4. x \in Bytes /\ Len(x) = W /\ \A k \in 1..W : x[k] = IF k <= z THEN 0 ELSE y[k - z]
  <2>1. Len(y) <= W
    BY <1>0, <1>1, <1>3
  <2> HIDE DEF y, z
  <2>2. y \in Seq(0..BB - 1)
    BY <1>1 DEF Bytes
  <2>3. x \in Seq(0..BB - 1) /\ Len(x) = W
        /\ \A k \in 1..W : x[k] = IF k <= W - Len(y) THEN 0 ELSE y[k - (W - Len(y))]
    BY <1>0, <2>1, <2>2, PaddedIs DEF y
  <2>4. QED
    BY <2>3 DEF z, Bytes
<1>5. \A k \in 1..2 * W : g[k] = IF k <= 2 * W - m THEN 0 ELSE in[k - (2 * W - m)]
  <2>1. 2 * W \in Nat /\ Len(in) <= 2 * W
    BY <1>0
  <2>2. QED
    BY <1>0, <2>1, PaddedIs
<1>6. HexToU64(in, "big") = Number(x, BB)
  <2>1. HexToU64(in, "big") = U8ToU64(x, "big")
    BY DEF HexToU64, Padded
  <2>2. U8ToU64(x, "big") = Number(x, BB)
    BY <1>4, FullWord
  <2>3. QED
    BY <2>1, <2>2
<1> HIDE DEF odd, h, y, m, z
<1>7. ASSUME NEW k \in 1..W, g[2 * k - 1] < D, g[2 * k] < D
      PROVE  x[k] \div D = g[2 * k - 1] /\ x[k] % D = g[2 * k]
  <2>0. 2 * k - 1 \in 1..2 * W /\ 2 * k \in 1..2 * W
    BY <1>0
  <2>1. CASE k <= z
    <3>1. 2 * k - 1 <= 2 * W - m /\ 2 * k <= 2 * W - m
      BY <1>0, <1>1, <1>2, <1>3, <2>1
    <3>2. g[2 * k - 1] = 0 /\ g[2 * k] = 0
      BY <1>5, <2>0, <3>1
    <3>3. x[k] = 0
      BY <1>4, <2>1
    <3>4. 0 \div D = 0 /\ 0 % D = 0
      BY <1>0, SmallDigit
    <3>5. QED
      BY <3>2, <3>3, <3>4
  <2>2. CASE k = z + 1 /\ odd = 1
    <3>1. 2 * k - 1 <= 2 * W - m /\ 2 * k > 2 * W - m /\ 2 * k - (2 * W - m) = 1 /\ 1 \in 1..m
      BY <1>0, <1>1, <1>2, <1>3, <2>2
    <3>2. g[2 * k - 1] = 0 /\ g[2 * k] = in[1]
      BY <1>0, <1>2, <1>5, <2>0, <3>1
    <3>3. x[k] = in[1] /\ in[1] \in 0..D - 1
      <4>1. x[k] = y[1]
        <5>1. ~ (k <= z) /\ k - z = 1
          BY <1>3, <2>2
        <5>2. QED
          BY <1>4, <5>1
      <4>2. InvAscii(in[1]) = in[1] /\ in[1] \in 0..D - 1
        BY <1>2, <2>2, <3>1, <3>2, <1>7, InvAsciiByte
      <4>3. QED
        BY <1>1, <2>2, <4>1, <4>2
    <3>4. in[1] \div D = 0 /\ in[1] % D = in[1]
      BY <3>3, SmallDigit
    <3>5. QED
      BY <3>2, <3>3, <3>4
  <2>3. CASE k > z + odd
    <3> DEFINE j == k - z - odd
    <3>1. j \in 1..h /\ k = z + odd + j
      BY <1>0, <1>1, <1>3, <2>3
    <3>2. /\ (2 * k - 1) - (2 * W - m) = odd + 2 * j - 1 /\ 2 * k - 1 > 2 * W - m
          /\ 2 * k - (2 * W - m) = odd + 2 * j /\ 2 * k > 2 * W - m
          /\ odd + 2 * j - 1 \in 1..m /\ odd + 2 * j \in 1..m
      BY <1>0, <1>1, <1>2, <1>3, <3>1
    <3> HIDE DEF j
    <3>3. g[2 * k - 1] = in[odd + 2 * j - 1] /\ g[2 * k] = in[odd + 2 * j]
      BY <1>0, <1>2, <1>5, <2>0, <3>2
    <3> DEFINE c == in[odd + 2 * j - 1]
               e == in[odd + 2 * j]
    <3>4. c \in 0..D - 1 /\ e \in 0..D - 1 /\ InvAscii(c) = c /\ InvAscii(e) = e
      BY <1>2, <1>7, <3>2, <3>3, InvAsciiByte
    <3>5. x[k] = OrBytes((c * D) % BB, e)
      <4>1. ~ (k <= z) /\ k - z = odd + j
        BY <1>1, <1>3, <3>1, SMTT(30)
      <4>2. x[k] = y[odd + j]
        BY <1>4, <4>1
      <4>3. QED
        BY <1>1, <3>1, <3>4, <4>2
    <3> HIDE DEF c, e
    <3>6. x[k] \div D = c /\ x[k] % D = e
      BY <3>4, <3>5, OrRight
    <3>7. QED
      BY <3>3, <3>6 DEF c, e
  <2>4. QED
    BY <1>1, <1>3, <2>1, <2>2, <2>3
<1>8. QED
  BY <1>4, <1>6, <1>7

----------------------------------------------------------------------------
(***************************************************************************)
(* Limbs and arrays.                                                       *)
(***************************************************************************)
\* The at most u digits of s that come before its last e.
Slice(s, u, e) ==
  LET top    == Len(s) - e
      bottom == top - u
  IN  IF top <= 0 THEN <<>> ELSE SubSeq(s, IF bottom < 0 THEN 1 ELSE bottom + 1, top)

\* It is what stands at that place of the array when that is filled up.
LEMMA SliceIs ==
  ASSUME NEW T, 0 \in T, NEW s \in Seq(T), NEW u \in Nat, NEW e \in 0..3 * u, Len(s) <= 4 * u
  PROVE  /\ Slice(s, u, e) \in Seq(T) /\ Len(Slice(s, u, e)) <= u
         /\ \A k \in 1..u : Padded(Slice(s, u, e), u)[k] = Padded(s, 4 * u)[3 * u - e + k]
         /\ \A k \in 1..Len(Slice(s, u, e)) : \E j \in 1..Len(s) : Slice(s, u, e)[k] = s[j]
<1> DEFINE n == Len(s)
           top == n - e
           z == Slice(s, u, e)
           m == Len(z)
           p0 == Padded(s, 4 * u)
           q == Padded(z, u)
<1>0. n \in Nat /\ n <= 4 * u /\ top \in Int /\ top <= n /\ e \in Nat /\ 4 * u \in Nat
  OBVIOUS
<1>1. /\ z \in Seq(T) /\ m \in Nat
      /\ m = IF top <= 0 THEN 0 ELSE IF top < u THEN top ELSE u
      /\ \A k \in 1..m : z[k] = s[top - m + k] /\ top - m + k \in 1..n
  <2>1. CASE top <= 0
    <3>1. z = <<>>
      BY <2>1 DEF Slice
    <3>2. QED
      BY <2>1, <3>1
  <2>2. CASE top > 0 /\ top < u
    <3> DEFINE y == SubSeq(s, 1, top)
    <3>1. z = y
      <4>1. ~ (Len(s) - e <= 0) /\ (Len(s) - e) - u < 0
        BY <1>0, <2>2
      <4>2. QED
        BY <4>1, Zenon DEF Slice
    <3>2. top \in Nat /\ top <= Len(s)
      BY <1>0, <2>2
    <3> HIDE DEF top
    <3>3. y \in Seq(T) /\ Len(y) = top /\ \A k \in 1..top : y[k] = s[k]
      BY <3>2
    <3> HIDE DEF y, z
    <3>4. QED
      BY <1>0, <2>2, <3>1, <3>2, <3>3
  <2>3. CASE top > 0 /\ top >= u
    <3> DEFINE f == top - u
               y == SubSeq(s, f + 1, top)
    <3>1. z = y
      <4>1. ~ (Len(s) - e <= 0) /\ ~ ((Len(s) - e) - u < 0)
        BY <1>0, <2>3
      <4>2. QED
        BY <4>1, Zenon DEF Slice
    <3>2. top \in Nat /\ top <= Len(s) /\ f \in Nat /\ top = f + u
      BY <1>0, <2>3
    <3> HIDE DEF top, f
    <3>3. y \in Seq(T) /\ Len(y) = u /\ \A k \in 1..u : y[k] = s[f + k]
      BY <3>2
    <3> HIDE DEF y, z
    <3>4. QED
      BY <1>0, <2>3, <3>1, <3>2, <3>3
  <2>4. QED
    BY <1>0, <2>1, <2>2, <2>3
<1>2. p0 \in Seq(T) /\ \A k \in 1..4 * u : p0[k] = IF k <= 4 * u - n THEN 0 ELSE s[k - (4 * u - n)]
  BY <1>0, PaddedIs
<1>7. top = n - e
  OBVIOUS
<1> HIDE DEF z, top, p0
<1>3. m <= u
  BY <1>0, <1>1
<1>4. \A k \in 1..u : q[k] = IF k <= u - m THEN 0 ELSE z[k - (u - m)]
  BY <1>1, <1>3, PaddedIs
<1> HIDE DEF q, m, n
<1>5. ASSUME NEW k \in 1..u PROVE q[k] = p0[3 * u - e + k]
  <2>1. 3 * u - e + k \in 1..4 * u
    BY <1>0
  <2>2. CASE k <= u - m
    <3>1. 3 * u - e + k <= 4 * u - n
      <4>1. n - e + k <= u
        BY <1>0, <1>1, <1>7, <2>2
      <4>2. QED
        BY <1>0, <4>1
    <3>2. QED
      BY <1>2, <1>4, <2>1, <2>2, <3>1
  <2>3. CASE k > u - m
    <3>1. k - (u - m) \in 1..m /\ top - m + (k - (u - m)) = (3 * u - e + k) - (4 * u - n)
          /\ ~ (3 * u - e + k <= 4 * u - n) /\ ~ (k <= u - m)
      <4>1. m \in Nat /\ m <= u /\ (m <= top \/ m = 0)
        BY <1>0, <1>1, <1>3
      <4>2. m > 0 /\ m \in Nat /\ m <= u
        BY <1>1, <1>3, <2>3
      <4>3. k - (u - m) \in 1..m /\ ~ (k <= u - m)
        BY <2>3, <4>2
      <4>4. n - e + k > u
        BY <1>0, <1>7, <2>3, <4>1, <4>2
      <4>5. QED
        BY <1>0, <1>7, <4>2, <4>3, <4>4
    <3>2. q[k] = z[k - (u - m)]
      BY <1>4, <3>1
    <3>3. z[k - (u - m)] = s[top - m + (k - (u - m))]
      BY <1>1, <3>1
    <3>4. p0[3 * u - e + k] = s[(3 * u - e + k) - (4 * u - n)]
      BY <1>2, <2>1, <3>1
    <3>5. QED
      BY <3>1, <3>2, <3>3, <3>4
  <2>4. QED
    BY <1>0, <1>1, <2>2, <2>3
<1>6. QED
  BY <1>1, <1>3, <1>5 DEF z, m, q, p0, n

\* A word or limb has at least two values.
LEMMA LimbBaseIs ==
  /\ W \in Nat /\ W > 0 /\ H \in Nat /\ H <= W
  /\ LimbBase \in Nat /\ LimbBase > 1 /\ Power(BB, H) <= LimbBase
  /\ Power(D, 2 * W) = LimbBase
<1>1. W \in Nat /\ W > 0 /\ H \in Nat /\ H <= W /\ 1 <= W
  BY BaseAssumption
<1>2. BB \in Nat /\ BB > 1
  BY BytesAreDigits
<1>3. Power(BB, 1) = BB
  <2>1. Power(BB, 0 + 1) = Power(BB, 0) * BB /\ Power(BB, 0) = 1
    BY <1>2, PowerNext, PowerZero
  <2>2. QED
    BY <1>2, <2>1
<1>4. Power(BB, 1) <= LimbBase /\ Power(BB, H) <= LimbBase /\ LimbBase \in Nat
  <2>1. BB > 0 /\ 1 \in Nat
    BY <1>2
  <2>2. Power(BB, 1) <= Power(BB, W) /\ Power(BB, H) <= Power(BB, W)
    BY <1>1, <1>2, <2>1, PowerGrows
  <2>3. QED
    BY <1>1, <1>2, <2>2, PowerNat DEF LimbBase
<1>5. Power(D, 2 * W) = LimbBase
  BY <1>1, EvenPower DEF LimbBase
<1>6. QED
  BY <1>1, <1>2, <1>3, <1>4, <1>5

\* What stands in an array of the current kind.
Digits == IF kind = "hex" THEN 0..High ELSE 0..BB - 1

\* A limb and the array it was read from.
LEMMA LimbRight ==
  ASSUME kind \in {"bytes", "hex"}, beyond \in 0..BB - 1,
         NEW s \in Seq(Digits), Len(s) <= Unit
  PROVE  LET f == FromLimb(ToLimb(s))
             g == Padded(s, Unit)
         IN  /\ ToLimb(s) \in 0..LimbBase - 1
             /\ f \in Seq(Nat) /\ Len(f) = Unit
             /\ kind = "bytes" => f = g /\ ToLimb(s) = Number(s, BB)
             /\ kind = "hex" => ToLimb(s) = Number(f, D)
             /\ kind = "hex" => \A k \in 1..W : g[2 * k - 1] < D /\ g[2 * k] < D =>
                                  f[2 * k - 1] = g[2 * k - 1] /\ f[2 * k] = g[2 * k]
<1>1. CASE kind = "bytes"
  <2>1. s \in Bytes /\ Unit = W /\ Len(s) <= W
    BY <1>1 DEF Digits, Bytes, Unit
  <2>2. W \in Nat
    BY LimbBaseIs
  <2> DEFINE g == Padded(s, W)
             x == Load(g, "big")
  <2>3. ToLimb(s) = x /\ g \in Bytes /\ Len(g) = W
    BY <1>1, <2>1, <2>2, WindowIs DEF ToLimb, U8ToU64
  <2>4. x \in 0..LimbBase - 1 /\ Store(x, W, "big") = g /\ x = Number(s, BB)
    BY <2>1, <2>2, WordBack DEF LimbBase
  <2>5. FromLimb(x) = g
    BY <1>1, <2>4 DEF FromLimb, U64ToU8
  <2>6. g \in Seq(Nat)
    BY <2>3, BytesAre
  <2> HIDE DEF x, g
  <2>7. QED
    BY <1>1, <2>1, <2>3, <2>4, <2>5, <2>6 DEF g
<1>2. CASE kind = "hex"
  <2>1. s \in Seq(0..High) /\ Unit = 2 * W /\ Len(s) <= 2 * W
    BY <1>2 DEF Digits, Unit
  <2>2. W \in Nat
    BY LimbBaseIs
  <2> DEFINE g == Padded(s, 2 * W)
             y == Padded(HexToU8(s), W)
             x == Number(y, BB)
             f == U8ToHex(y)
  <2>3. /\ y \in Bytes /\ Len(y) = W /\ HexToU64(s, "big") = x
        /\ \A k \in 1..W : g[2 * k - 1] < D /\ g[2 * k] < D =>
             y[k] \div D = g[2 * k - 1] /\ y[k] % D = g[2 * k]
    BY <2>1, HexLimb
  <2>4. ToLimb(s) = x /\ x = Load(y, "big")
    BY <1>2, <2>3 DEF ToLimb, Load
  <2> HIDE DEF y, x, g
  <2>5. x \in 0..LimbBase - 1 /\ Store(x, W, "big") = y
    BY <2>3, <2>4, LoadNat, StoreOfLoad DEF LimbBase
  <2>6. FromLimb(x) = f
    BY <1>2, <2>5 DEF FromLimb, U64ToHex, U64ToU8
  <2>7. f \in Seq(0..D - 1) /\ Len(f) = 2 * W /\ Number(f, D) = Number(y, BB)
        /\ \A k \in 1..W : f[2 * k - 1] = y[k] \div D /\ f[2 * k] = y[k] % D
    BY <2>3, U8ToHexIs, NumberHex
  <2> HIDE DEF f
  <2>8. f \in Seq(Nat)
    <3>1. D \in Nat /\ 0..D - 1 \subseteq Nat
      BY BytesAreDigits
    <3>2. QED
      BY <2>7, <3>1
  <2>9. QED
    BY <1>2, <2>1, <2>3, <2>4, <2>5, <2>6, <2>7, <2>8 DEF g, x
<1>3. QED
  BY <1>1, <1>2

----------------------------------------------------------------------------
(***************************************************************************)
(* Comparison.                                                             *)
(***************************************************************************)
\* What is above decides, whatever is below.
LEMMA AboveDecides ==
  ASSUME NEW q \in Nat, NEW u \in 0..q - 1, NEW v \in 0..q - 1, NEW s \in Nat, NEW t \in Nat, s > t
  PROVE  u + q * s > v + q * t
<1>1. q * (s - t - 1) >= 0
  <2>1. s - t - 1 \in Nat
    OBVIOUS
  <2>2. QED
    BY <2>1
<1> DEFINE qs == q * s
           qt == q * t
<1>2. qs \in Int /\ qt \in Int /\ q * (s - t - 1) = qs - qt - q
  OBVIOUS
<1> HIDE DEF qs, qt
<1>3. u + qs > v + qt
  BY <1>1, <1>2
<1>4. QED
  BY <1>3 DEF qs, qt

Numbers == [Limbs -> 0..LimbBase - 1]

\* The number whose highest limb in which the two differ is the greater one
\* is the greater one.
LEMMA HigherLimb ==
  ASSUME NEW x \in Numbers, NEW y \in Numbers, NEW k \in Limbs, x[k] > y[k],
         \A n \in k + 1..3 : x[n] = y[n]
  PROVE  Value(x) > Value(y)
<1> DEFINE q == LimbBase
           x2 == x[2] + q * x[3]
           x1 == x[1] + q * x2
           x0 == x[0] + q * x1
           y2 == y[2] + q * y[3]
           y1 == y[1] + q * y2
           y0 == y[0] + q * y1
<1>1. q \in Nat /\ \A n \in Limbs : x[n] \in 0..q - 1 /\ y[n] \in 0..q - 1
  BY LimbBaseIs DEF Numbers
<1>2. 0 \in Limbs /\ 1 \in Limbs /\ 2 \in Limbs /\ 3 \in Limbs /\ k \in {0, 1, 2, 3}
  BY DEF Limbs
<1>3. x2 \in Nat /\ y2 \in Nat
  BY <1>1, <1>2
<1>4. x1 \in Nat /\ y1 \in Nat
  <2> HIDE DEF x2, y2
  <2>1. QED
    BY <1>1, <1>2, <1>3
<1>5. Value(x) = x0 /\ Value(y) = y0
  BY DEF Value
<1>6. x[3] > y[3] => x2 > y2
  <2>1. x[2] \in 0..q - 1 /\ y[2] \in 0..q - 1 /\ x[3] \in Nat /\ y[3] \in Nat
    BY <1>1, <1>2
  <2> HIDE DEF q
  <2>2. QED
    BY <1>1, <2>1, AboveDecides
<1>7. x2 > y2 => x1 > y1
  <2> HIDE DEF x2, y2
  <2>1. QED
    BY <1>1, <1>2, <1>3, AboveDecides
<1>8. x1 > y1 => x0 > y0
  <2> HIDE DEF x1, y1
  <2>1. QED
    BY <1>1, <1>2, <1>4, AboveDecides
<1>9. CASE k = 3
  BY <1>5, <1>6, <1>7, <1>8, <1>9
<1>10. CASE k = 2
  <2>1. x[3] = y[3] /\ x[2] > y[2]
    BY <1>10
  <2>2. x2 > y2
    <3> DEFINE z == q * x[3]
    <3>1. z \in Nat /\ x2 = x[2] + z /\ y2 = y[2] + z
      BY <1>1, <1>2, <2>1
    <3> HIDE DEF z, x2, y2
    <3>2. QED
      BY <1>1, <1>2, <2>1, <3>1
  <2>3. QED
    BY <1>5, <1>7, <1>8, <2>2
<1>11. CASE k = 1
  <2>1. x[3] = y[3] /\ x[2] = y[2] /\ x[1] > y[1]
    BY <1>11
  <2>2. x1 > y1
    <3> DEFINE z == q * x2
    <3>1. z \in Nat /\ x1 = x[1] + z /\ y1 = y[1] + z
      <4>1. x2 = y2
        BY <2>1
      <4> HIDE DEF x2, y2
      <4>2. QED
        BY <1>1, <1>2, <1>3, <4>1
    <3> HIDE DEF z, x1, y1
    <3>2. QED
      BY <1>1, <1>2, <2>1, <3>1
  <2>3. QED
    BY <1>5, <1>8, <2>2
<1>12. CASE k = 0
  <2>1. x[3] = y[3] /\ x[2] = y[2] /\ x[1] = y[1] /\ x[0] > y[0]
    BY <1>12
  <2>2. x0 > y0
    <3> DEFINE z == q * x1
    <3>1. z \in Nat /\ x0 = x[0] + z /\ y0 = y[0] + z
      <4>1. x1 = y1
        BY <2>1
      <4> HIDE DEF x1, y1
      <4>2. QED
        BY <1>1, <1>2, <1>4, <4>1
    <3> HIDE DEF z, x0, y0
    <3>2. QED
      BY <1>1, <1>2, <2>1, <3>1
  <2>3. QED
    BY <1>5, <2>2
<1>13. QED
  BY <1>2, <1>9, <1>10, <1>11, <1>12

\* Values are naturals.
LEMMA ValueNat ==
  ASSUME NEW x \in Numbers
  PROVE  Value(x) \in Nat
<1> DEFINE q == LimbBase
           x2 == x[2] + q * x[3]
           x1 == x[1] + q * x2
           x0 == x[0] + q * x1
<1>1. q \in Nat /\ \A n \in Limbs : x[n] \in 0..q - 1
  BY LimbBaseIs DEF Numbers
<1>2. 0 \in Limbs /\ 1 \in Limbs /\ 2 \in Limbs /\ 3 \in Limbs
  BY DEF Limbs
<1>3. x2 \in Nat
  BY <1>1, <1>2
<1>4. x1 \in Nat
  <2> HIDE DEF x2
  <2>1. QED
    BY <1>1, <1>2, <1>3
<1>5. x0 \in Nat
  <2> HIDE DEF x1
  <2>1. QED
    BY <1>1, <1>2, <1>4
<1>6. QED
  BY <1>5 DEF Value

\* fp256_cmp compares the numbers.
LEMMA CmpRight ==
  ASSUME NEW x \in Numbers, NEW y \in Numbers
  PROVE  /\ Cmp(x, y) \in {-1, 0, 1}
         /\ Cmp(x, y) = 1 <=> Value(x) > Value(y)
         /\ Cmp(x, y) = 0 <=> Value(x) = Value(y)
         /\ Cmp(x, y) = -1 <=> Value(x) < Value(y)
<1>0. Value(x) \in Nat /\ Value(y) \in Nat
  BY ValueNat
<1>1. CASE x = y
  <2>1. Cmp(x, y) = 0
    BY <1>1 DEF Cmp
  <2>2. QED
    BY <1>0, <1>1, <2>1
<1>2. CASE x # y
  <2> DEFINE Top(k) == x[k] # y[k] /\ \A n \in k + 1..3 : x[n] = y[n]
             k == CHOOSE k \in Limbs : Top(k)
  <2>1. \E j \in Limbs : Top(j)
    <3>1. \E j \in Limbs : x[j] # y[j]
      BY <1>2 DEF Numbers
    <3>2. CASE x[3] # y[3]
      <4>1. Top(3) /\ 3 \in Limbs
        BY <3>2 DEF Limbs
      <4>2. QED
        BY <4>1
    <3>3. CASE x[3] = y[3] /\ x[2] # y[2]
      <4>1. Top(2) /\ 2 \in Limbs
        BY <3>3 DEF Limbs
      <4>2. QED
        BY <4>1
    <3>4. CASE x[3] = y[3] /\ x[2] = y[2] /\ x[1] # y[1]
      <4>1. Top(1) /\ 1 \in Limbs
        BY <3>4 DEF Limbs
      <4>2. QED
        BY <4>1
    <3>5. CASE x[3] = y[3] /\ x[2] = y[2] /\ x[1] = y[1]
      <4>1. x[0] # y[0]
        BY <3>1, <3>5 DEF Limbs
      <4>2. Top(0) /\ 0 \in Limbs
        BY <3>5, <4>1 DEF Limbs
      <4>3. QED
        BY <4>2
    <3>6. QED
      BY <3>2, <3>3, <3>4, <3>5
  <2>2. k \in Limbs /\ Top(k)
    BY <2>1
  <2>3. Cmp(x, y) = IF x[k] > y[k] THEN 1 ELSE -1
    BY <1>2 DEF Cmp
  <2> HIDE DEF k
  <2>4. LimbBase \in Nat /\ x[k] \in 0..LimbBase - 1 /\ y[k] \in 0..LimbBase - 1
    BY <2>2, LimbBaseIs DEF Numbers
  <2>5. CASE x[k] > y[k]
    <3>1. Value(x) > Value(y)
      BY <2>2, <2>5, HigherLimb
    <3>2. QED
      BY <1>0, <2>3, <2>5, <3>1
  <2>6. CASE y[k] > x[k]
    <3>1. \A n \in k + 1..3 : y[n] = x[n]
      BY <2>2
    <3>2. Value(y) > Value(x)
      BY <2>2, <2>6, <3>1, HigherLimb
    <3>3. ~ (x[k] > y[k])
      BY <2>4, <2>6
    <3>4. QED
      BY <1>0, <2>3, <3>2, <3>3
  <2>7. QED
    BY <2>2, <2>4, <2>5, <2>6
<1>3. QED
  BY <1>1, <1>2

----------------------------------------------------------------------------
(***************************************************************************)
(* Limbs and numbers.                                                      *)
(***************************************************************************)
\* Whatever stands in an array is a natural.
LEMMA DigitsNat ==
  /\ Digits \subseteq Nat /\ 0 \in Digits
  /\ \A s \in Seq(Digits) : Len(s) \in Nat /\ s \in Seq(Nat) /\ \A k \in 1..Len(s) : s[k] \in Digits
<1> DEFINE T == Digits
<1>1. T \subseteq Nat /\ 0 \in T
  BY BytesAreDigits DEF Digits, High
<1> HIDE DEF T
<1>2. ASSUME NEW s \in Seq(T)
      PROVE  Len(s) \in Nat /\ s \in Seq(Nat) /\ \A k \in 1..Len(s) : s[k] \in T
  <2>1. Len(s) \in Nat /\ (\A k \in 1..Len(s) : s[k] \in T) /\ s = [k \in 1..Len(s) |-> s[k]]
    OBVIOUS
  <2>2. \A k \in 1..Len(s) : s[k] \in Nat
    BY <1>1, <2>1
  <2>3. s \in Seq(Nat)
    BY <2>1, <2>2
  <2>4. QED
    BY <2>1, <2>3
<1>3. QED
  BY <1>1, <1>2 DEF T

\* The base of the digits of the current kind, and a limb's powers of it.
LEMMA UnitIs ==
  ASSUME kind \in {"bytes", "hex"}
  PROVE  Unit \in Nat /\ Unit > 0 /\ Base \in Nat /\ Power(Base, Unit) = LimbBase
<1>1. CASE kind = "bytes"
  BY <1>1, LimbBaseIs, BytesAreDigits DEF Unit, Base, LimbBase
<1>2. CASE kind = "hex"
  <2>1. Unit = 2 * W /\ Base = D
    BY <1>2 DEF Unit, Base
  <2>2. QED
    BY <2>1, LimbBaseIs, BytesAreDigits
<1>3. QED
  BY <1>1, <1>2

\* If all its characters are digits, a limb is the number they stand for, and
\* they come back.
LEMMA LegibleLimb ==
  ASSUME kind \in {"bytes", "hex"}, beyond \in 0..BB - 1,
         NEW s \in Seq(Digits), Len(s) <= Unit,
         kind = "hex" => \A k \in 1..Len(s) : s[k] < D
  PROVE  ToLimb(s) = Number(s, Base) /\ FromLimb(ToLimb(s)) = Padded(s, Unit)
<1> DEFINE f == FromLimb(ToLimb(s))
           g == Padded(s, Unit)
           u == Unit
<1>1. CASE kind = "bytes"
  BY <1>1, LimbRight DEF Base
<1>2. CASE kind = "hex"
  <2>0. /\ u \in Nat /\ u = 2 * W /\ W \in Nat /\ Base = D /\ D \in Nat /\ D > 1
        /\ s \in Seq(Nat) /\ Len(s) \in Nat /\ Len(s) <= u
    BY <1>2, UnitIs, LimbBaseIs, DigitsNat, BytesAreDigits DEF Unit, Base
  <2>1. /\ f \in Seq(Nat) /\ Len(f) = u /\ ToLimb(s) = Number(f, D)
        /\ \A k \in 1..W : g[2 * k - 1] < D /\ g[2 * k] < D => f[2 * k - 1] = g[2 * k - 1] /\ f[2 * k] = g[2 * k]
    BY <1>2, LimbRight
  <2>2. /\ g \in Seq(Nat) /\ Len(g) = u
        /\ \A k \in 1..u : g[k] = IF k <= u - Len(s) THEN 0 ELSE s[k - (u - Len(s))]
    BY <2>0, PaddedIs
  <2>3. Number(g, D) = Number(s, D)
    <3>1. u - Len(s) \in Nat
      BY <2>0
    <3>2. QED
      BY <2>0, <3>1, LeadingZeros DEF Padded
  <2> HIDE DEF f, g, u
  <2>4. \A k \in 1..u : g[k] < D
    <3>1. \A k \in 1..Len(s) : s[k] < D
      BY <1>2
    <3> SUFFICES ASSUME NEW k \in 1..u PROVE g[k] < D
      OBVIOUS
    <3>2. CASE k <= u - Len(s)
      BY <2>0, <2>2, <3>2
    <3>3. CASE ~ (k <= u - Len(s))
      <4>1. k - (u - Len(s)) \in 1..Len(s)
        BY <2>0, <3>3
      <4>2. QED
        BY <2>2, <3>1, <3>3, <4>1
    <3>4. QED
      BY <3>2, <3>3
  <2>5. ASSUME NEW k \in 1..u PROVE f[k] = g[k]
    <3>1. PICK j \in 1..W : k = 2 * j - 1 \/ k = 2 * j
      <4>1. (k + 1) \div 2 \in 1..W /\ (k = 2 * ((k + 1) \div 2) - 1 \/ k = 2 * ((k + 1) \div 2))
        BY <2>0
      <4>2. QED
        BY <4>1
    <3>2. 2 * j - 1 \in 1..u /\ 2 * j \in 1..u
      BY <2>0
    <3>3. QED
      BY <2>1, <2>4, <3>1, <3>2
  <2>6. f = g
    BY <2>1, <2>2, <2>5, SeqSame
  <2>7. QED
    BY <2>0, <2>1, <2>3, <2>6 DEF f, g, u
<1>3. QED
  BY <1>1, <1>2

\* The end of a sequence in two parts.
LEMMA MiddleSplit ==
  ASSUME NEW s \in Seq(Nat), NEW g \in Nat, NEW h \in Nat, g <= h, h <= Len(s)
  PROVE  LET y == SubSeq(s, g + 1, h)
             z == SubSeq(s, h + 1, Len(s))
         IN  /\ y \in Seq(Nat) /\ z \in Seq(Nat) /\ Len(z) = Len(s) - h
             /\ SubSeq(s, g + 1, Len(s)) = y \o z
<1> DEFINE n == Len(s)
           x == SubSeq(s, g + 1, n)
           y == SubSeq(s, g + 1, h)
           z == SubSeq(s, h + 1, n)
           t == y \o z
<1>1. n \in Nat /\ h <= n
  OBVIOUS
<1>2. x \in Seq(Nat) /\ Len(x) = n - g /\ \A k \in 1..n - g : x[k] = s[g + k]
  OBVIOUS
<1>3. y \in Seq(Nat) /\ Len(y) = h - g /\ \A k \in 1..h - g : y[k] = s[g + k]
  OBVIOUS
<1>4. z \in Seq(Nat) /\ Len(z) = n - h /\ \A k \in 1..n - h : z[k] = s[h + k]
  OBVIOUS
<1> HIDE DEF x, y, z, n
<1>5. /\ t \in Seq(Nat) /\ Len(t) = Len(y) + Len(z)
      /\ \A k \in 1..Len(y) : t[k] = y[k]
      /\ \A k \in Len(y) + 1..Len(y) + Len(z) : t[k] = z[k - Len(y)]
  BY <1>3, <1>4, ConcatNat
<1> HIDE DEF t
<1>6. Len(t) = n - g
  BY <1>1, <1>3, <1>4, <1>5
<1>7. ASSUME NEW k \in 1..n - g PROVE x[k] = t[k]
  <2>1. CASE k <= h - g
    <3>1. k \in 1..Len(y) /\ k \in 1..h - g
      BY <1>3, <2>1
    <3>2. QED
      BY <1>2, <1>3, <1>5, <3>1
  <2>2. CASE ~ (k <= h - g)
    <3>1. k \in Len(y) + 1..Len(y) + Len(z) /\ k - Len(y) \in 1..n - h /\ h + (k - Len(y)) = g + k
      BY <1>1, <1>3, <1>4, <2>2
    <3>2. t[k] = z[k - Len(y)] /\ z[k - Len(y)] = s[h + (k - Len(y))]
      BY <1>4, <1>5, <3>1
    <3>3. QED
      BY <1>2, <3>1, <3>2
  <2>3. QED
    BY <2>1, <2>2
<1>8. x = t
  BY <1>2, <1>5, <1>6, <1>7, SeqSame
<1>9. QED
  BY <1>3, <1>4, <1>8 DEF x, y, z, t, n

\* One more limb in front.
LEMMA SuffixStep ==
  ASSUME NEW s \in Seq(Nat), NEW c \in Nat, NEW u \in Nat, u > 0, NEW e \in Nat, e + u <= Len(s)
  PROVE  LET n == Len(s)
         IN  Number(SubSeq(s, n - (e + u) + 1, n), c)
               = Number(Slice(s, u, e), c) * Power(c, e) + Number(SubSeq(s, n - e + 1, n), c)
<1> DEFINE n == Len(s)
           g == n - (e + u)
           h == n - e
           x == SubSeq(s, g + 1, n)
           y == SubSeq(s, g + 1, h)
           z == SubSeq(s, h + 1, n)
<1>1. g \in Nat /\ h \in Nat /\ g < h /\ h <= n /\ n \in Nat /\ n - h = e /\ h - g = u
  OBVIOUS
<1>2. Slice(s, u, e) = y
  <2>1. ~ (Len(s) - e <= 0) /\ ~ ((Len(s) - e) - u < 0) /\ (Len(s) - e) - u = g /\ Len(s) - e = h
    BY <1>1
  <2> HIDE DEF g, h
  <2>2. QED
    BY <2>1 DEF Slice
<1> HIDE DEF g, h
<1>3. y \in Seq(Nat) /\ z \in Seq(Nat) /\ x = y \o z /\ Len(z) = n - h
  <2>1. g <= h /\ h <= Len(s) /\ g \in Nat /\ h \in Nat
    BY <1>1
  <2>2. /\ SubSeq(s, g + 1, h) \in Seq(Nat) /\ SubSeq(s, h + 1, Len(s)) \in Seq(Nat)
        /\ Len(SubSeq(s, h + 1, Len(s))) = Len(s) - h
        /\ SubSeq(s, g + 1, Len(s)) = SubSeq(s, g + 1, h) \o SubSeq(s, h + 1, Len(s))
    BY <2>1, MiddleSplit
  <2>3. QED
    BY <2>2
<1> HIDE DEF x, y, z
<1>4. Number(x, c) = Number(y, c) * Power(c, e) + Number(z, c)
  BY <1>1, <1>3, NumberConcat
<1>5. QED
  BY <1>2, <1>4 DEF x, y, z, g, h, n

\* Four limbs are a number.
LEMMA Weights ==
  ASSUME NEW q \in Nat, NEW x0 \in Nat, NEW x1 \in Nat, NEW x2 \in Nat, NEW x3 \in Nat
  PROVE  x3 * (q * (q * q)) + (x2 * (q * q) + (x1 * q + (x0 * 1 + 0)))
           = x0 + q * (x1 + q * (x2 + q * x3))
OBVIOUS

\* The powers of a limb.
LEMMA UnitPowers ==
  ASSUME kind \in {"bytes", "hex"}
  PROVE  LET q == LimbBase
             u == Unit
         IN  /\ Power(Base, 0) = 1 /\ Power(Base, u) = q /\ Power(Base, 2 * u) = q * q
             /\ Power(Base, 3 * u) = q * (q * q)
<1> DEFINE q == LimbBase
           u == Unit
<1>1. u \in Nat /\ Base \in Nat /\ Power(Base, u) = q
  BY UnitIs
<1> HIDE DEF u, q
<1>2. u + u = 2 * u /\ u + 2 * u = 3 * u /\ 2 * u \in Nat
  BY <1>1
<1>3. Power(Base, u + u) = q * q
  BY <1>1, PowerSum
<1>4. Power(Base, u + 2 * u) = q * (q * q)
  BY <1>1, <1>2, <1>3, PowerSum
<1>5. QED
  BY <1>1, <1>2, <1>3, <1>4, PowerZero DEF u, q

\* A limb written out again, and that it is what a part of the array says.
UnitOf(kd) == IF kd = "bytes" THEN W ELSE 2 * W

Back(kd, n) == IF kd = "bytes" THEN Store(n, W, "big") ELSE U8ToHex(Store(n, W, "big"))

AllDigits(s) == \A k \in 1..Len(s) : s[k] < D

LimbIs(kd, n, s) ==
  LET f == Back(kd, n)
      g == Padded(s, UnitOf(kd))
  IN  /\ n \in 0..LimbBase - 1 /\ f \in Seq(Nat) /\ Len(f) = UnitOf(kd)
      /\ kd = "bytes" \/ AllDigits(s) => f = g /\ n = Number(s, IF kd = "bytes" THEN BB ELSE D)
      /\ kd = "hex" => \A k \in 1..W : g[2 * k - 1] < D /\ g[2 * k] < D =>
                         f[2 * k - 1] = g[2 * k - 1] /\ f[2 * k] = g[2 * k]

LEMMA ToLimbIs ==
  ASSUME kind \in {"bytes", "hex"}, beyond \in 0..BB - 1, NEW s \in Seq(Digits), Len(s) <= Unit
  PROVE  LimbIs(kind, ToLimb(s), s)
<1> DEFINE n == ToLimb(s)
<1>1. Unit = UnitOf(kind) /\ FromLimb(n) = Back(kind, n) /\ Base = IF kind = "bytes" THEN BB ELSE D
  BY DEF Unit, UnitOf, FromLimb, Back, U64ToU8, U64ToHex, Base
<1>2. /\ n \in 0..LimbBase - 1
      /\ FromLimb(n) \in Seq(Nat) /\ Len(FromLimb(n)) = Unit
      /\ kind = "bytes" => FromLimb(n) = Padded(s, Unit) /\ n = Number(s, BB)
      /\ kind = "hex" => \A k \in 1..W :
           Padded(s, Unit)[2 * k - 1] < D /\ Padded(s, Unit)[2 * k] < D =>
             FromLimb(n)[2 * k - 1] = Padded(s, Unit)[2 * k - 1] /\ FromLimb(n)[2 * k] = Padded(s, Unit)[2 * k]
  BY LimbRight
<1>3. kind = "hex" /\ AllDigits(s) => n = Number(s, Base) /\ FromLimb(n) = Padded(s, Unit)
  BY LegibleLimb DEF AllDigits
<1> HIDE DEF n
<1>4. QED
  BY <1>1, <1>2, <1>3 DEF LimbIs, n

\* No digits are a limb of 0.
LEMMA ZeroLimb ==
  ASSUME kind \in {"bytes", "hex"}, beyond \in 0..BB - 1
  PROVE  LimbIs(kind, 0, <<>>)
<1>1. <<>> \in Seq(Digits) /\ Len(<<>>) = 0 /\ Len(<<>>) <= Unit /\ <<>> \in Seq(Nat)
  BY UnitIs
<1>2. LimbIs(kind, ToLimb(<<>>), <<>>)
  BY <1>1, ToLimbIs
<1>3. ToLimb(<<>>) = Number(<<>>, Base)
  <2>1. \A k \in 1..Len(<<>>) : <<>>[k] < D
    BY <1>1
  <2>2. QED
    BY <1>1, <2>1, LegibleLimb
<1>4. Number(<<>>, Base) = 0
  BY <1>1, UnitIs, NumberEmpty
<1>5. QED
  BY <1>2, <1>3, <1>4

\* The first c limbs of a number are the last c units of an array.
Read(kd, nm, s, c) ==
  \A j \in Limbs : IF j < c THEN LimbIs(kd, nm[j], Slice(s, UnitOf(kd), j * UnitOf(kd))) ELSE nm[j] = 0

\* They are the number that is written there.
LEMMA PartialValue ==
  ASSUME kind \in {"bytes", "hex"}, beyond \in 0..BB - 1, input \in Seq(Digits), Legible,
         NEW c \in 0..4, c * Unit <= Len(input), Len(input) <= 4 * Unit, Read(kind, num, input, c)
  PROVE  Value(num) = Number(SubSeq(input, Len(input) - c * Unit + 1, Len(input)), Base)
<1> DEFINE n == Len(input)
           u == Unit
           q == LimbBase
           V(e) == Number(SubSeq(input, n - e + 1, n), Base)
           X(e) == Number(Slice(input, u, e), Base)
<1>0. /\ u \in Nat /\ u > 0 /\ Base \in Nat /\ Power(Base, u) = q /\ q \in Nat
      /\ n \in Nat /\ input \in Seq(Nat)
  BY UnitIs, LimbBaseIs, DigitsNat
<1>1. V(0) = 0
  <2>1. SubSeq(input, n - 0 + 1, n) \in Seq(Nat) /\ Len(SubSeq(input, n - 0 + 1, n)) = 0
    BY <1>0
  <2>2. QED
    BY <1>0, <2>1, NumberEmpty
<1>2. ASSUME NEW e \in Nat, e + u <= n
      PROVE  V(e + u) = X(e) * Power(Base, e) + V(e)
  BY <1>0, <1>2, SuffixStep
<1>3. ASSUME NEW e \in 0..3 * u, NEW y, LimbIs(kind, y, Slice(input, u, e))
      PROVE  y = X(e) /\ X(e) \in Nat
  <2> DEFINE z == Slice(input, u, e)
  <2>1. /\ z \in Seq(Digits) /\ Len(z) <= u
        /\ \A k \in 1..Len(z) : \E j \in 1..Len(input) : z[k] = input[j]
    BY <1>0, <1>3, DigitsNat, SliceIs
  <2>2. kind = "hex" => AllDigits(z)
    <3>1. kind = "hex" => \A j \in 1..Len(input) : input[j] < D
      BY <1>0 DEF Legible
    <3> HIDE DEF z
    <3>2. QED
      BY <2>1, <3>1 DEF AllDigits
  <2> HIDE DEF z
  <2>3. y = Number(z, Base)
    BY <1>3, <2>2 DEF LimbIs, Base, z
  <2>4. Number(z, Base) \in Nat
    BY <1>0, <2>1, DigitsNat, NumberNat
  <2>5. QED
    BY <2>3, <2>4 DEF z
<1> DEFINE y0 == num[0]
           y1 == num[1]
           y2 == num[2]
           y3 == num[3]
           qq == q * q
           qqq == q * (q * q)
<1>4. /\ qq \in Nat /\ qqq \in Nat
      /\ Power(Base, 0) = 1 /\ Power(Base, 2 * u) = qq /\ Power(Base, 3 * u) = qqq
  <2>1. q * q \in Nat
    BY <1>0
  <2>2. q * (q * q) \in Nat
    BY <1>0, <2>1
  <2>3. QED
    BY <2>1, <2>2, UnitPowers
<1> HIDE DEF qq, qqq
<1>5. /\ 0 < c => y0 = X(0) /\ y0 \in Nat
      /\ 1 < c => y1 = X(u) /\ y1 \in Nat
      /\ 2 < c => y2 = X(2 * u) /\ y2 \in Nat
      /\ 3 < c => y3 = X(3 * u) /\ y3 \in Nat
      /\ c <= 0 => y0 = 0
      /\ c <= 1 => y1 = 0
      /\ c <= 2 => y2 = 0
      /\ c <= 3 => y3 = 0
  <2>1. 0 * u = 0 /\ 1 * u = u /\ 0 \in 0..3 * u /\ u \in 0..3 * u /\ 2 * u \in 0..3 * u /\ 3 * u \in 0..3 * u
    BY <1>0
  <2>2. 0 \in Limbs /\ 1 \in Limbs /\ 2 \in Limbs /\ 3 \in Limbs
    BY DEF Limbs
  <2>3. /\ 0 < c => LimbIs(kind, y0, Slice(input, u, 0 * u))
        /\ 1 < c => LimbIs(kind, y1, Slice(input, u, 1 * u))
        /\ 2 < c => LimbIs(kind, y2, Slice(input, u, 2 * u))
        /\ 3 < c => LimbIs(kind, y3, Slice(input, u, 3 * u))
        /\ c <= 0 => y0 = 0
        /\ c <= 1 => y1 = 0
        /\ c <= 2 => y2 = 0
        /\ c <= 3 => y3 = 0
    <3>1. u = UnitOf(kind)
      BY DEF Unit, UnitOf
    <3>2. QED
      BY <2>2, <3>1 DEF Read
  <2> HIDE DEF X, u, y0, y1, y2, y3
  <2>4. QED
    BY <1>3, <2>1, <2>3
<1>6. /\ 1 <= c => V(u) = X(0) * 1 + 0
      /\ 2 <= c => V(2 * u) = X(u) * q + V(u)
      /\ 3 <= c => V(3 * u) = X(2 * u) * qq + V(2 * u)
      /\ 4 <= c => V(4 * u) = X(3 * u) * qqq + V(3 * u)
  <2> HIDE DEF X, V, u, q, n
  <2>0. \A k \in 0..4 : k <= c => k * u <= n
    <3> SUFFICES ASSUME NEW k \in 0..4, k <= c PROVE k * u <= n
      OBVIOUS
    <3>1. (c - k) * u >= 0 /\ c - k \in Nat
      BY <1>0
    <3>2. c * u <= n
      BY DEF u, n
    <3> DEFINE cu == c * u
               ku == k * u
    <3>3. (c - k) * u = cu - ku /\ cu \in Int /\ ku \in Int
      BY <1>0
    <3> HIDE DEF cu, ku
    <3>4. ku <= n
      BY <1>0, <3>1, <3>2, <3>3 DEF cu
    <3>5. QED
      BY <3>4 DEF ku
  <2>1. /\ 0 + u = u /\ u + u = 2 * u /\ 2 * u + u = 3 * u /\ 3 * u + u = 4 * u
        /\ 0 \in Nat /\ u \in Nat /\ 2 * u \in Nat /\ 3 * u \in Nat
    BY <1>0
  <2>2. /\ 1 <= c => u <= n
        /\ 2 <= c => 2 * u <= n
        /\ 3 <= c => 3 * u <= n
        /\ 4 <= c => 4 * u <= n
    <3>1. /\ 1 <= c => 1 * u <= n
          /\ 2 <= c => 2 * u <= n
          /\ 3 <= c => 3 * u <= n
          /\ 4 <= c => 4 * u <= n
      BY <2>0
    <3>2. 1 * u = u
      BY <1>0
    <3>3. QED
      BY <3>1, <3>2
  <2>3. 1 <= c => V(0 + u) = X(0) * Power(Base, 0) + V(0)
    BY <1>2, <2>1, <2>2
  <2>4. 2 <= c => V(u + u) = X(u) * Power(Base, u) + V(u)
    BY <1>2, <2>1, <2>2
  <2>5. 3 <= c => V(2 * u + u) = X(2 * u) * Power(Base, 2 * u) + V(2 * u)
    BY <1>2, <2>1, <2>2
  <2>6. 4 <= c => V(3 * u + u) = X(3 * u) * Power(Base, 3 * u) + V(3 * u)
    BY <1>2, <2>1, <2>2
  <2>7. QED
    BY <1>0, <1>1, <1>4, <2>1, <2>3, <2>4, <2>5, <2>6
<1> DEFINE Sum == y3 * qqq + (y2 * qq + (y1 * q + (y0 * 1 + 0)))
<1>7. y0 \in Nat /\ y1 \in Nat /\ y2 \in Nat /\ y3 \in Nat
  <2> HIDE DEF X, y0, y1, y2, y3
  <2>1. QED
    BY <1>5
<1>8. Value(num) = Sum
  <2>1. Value(num) = y0 + q * (y1 + q * (y2 + q * y3))
    BY DEF Value
  <2> HIDE DEF y0, y1, y2, y3, q
  <2>2. QED
    BY <1>0, <1>7, <2>1, Weights DEF qq, qqq
<1> HIDE DEF X, V, u, q, y0, y1, y2, y3
<1>9. 0 * qqq = 0 /\ 0 * qq = 0 /\ 0 * q = 0
  BY <1>0, <1>4
<1> DEFINE t3 == y3 * qqq
           t2 == y2 * qq
           t1 == y1 * q
<1>10. t3 \in Nat /\ t2 \in Nat /\ t1 \in Nat
  BY <1>0, <1>4, <1>7
<1>11. /\ 1 <= c => V(u) = y0
       /\ 2 <= c => V(2 * u) = t1 + V(u)
       /\ 3 <= c => V(3 * u) = t2 + V(2 * u)
       /\ 4 <= c => V(4 * u) = t3 + V(3 * u)
       /\ c <= 0 => y0 = 0
       /\ c <= 1 => t1 = 0
       /\ c <= 2 => t2 = 0
       /\ c <= 3 => t3 = 0
  BY <1>5, <1>6, <1>7, <1>9
<1>12. Sum = t3 + (t2 + (t1 + y0))
  <2>1. y0 * 1 + 0 = y0
    BY <1>7
  <2>2. QED
    BY <2>1
<1> HIDE DEF t1, t2, t3, Sum
<1>13. Sum = V(c * u)
  <2>1. CASE c = 0
    <3>1. 0 * u = 0
      BY <1>0
    <3>2. QED
      BY <1>1, <1>10, <1>11, <1>12, <2>1, <3>1
  <2>2. CASE c = 1
    <3>1. 1 * u = u
      BY <1>0
    <3>2. QED
      BY <1>7, <1>10, <1>11, <1>12, <2>2, <3>1
  <2>3. CASE c = 2
    BY <1>7, <1>10, <1>11, <1>12, <2>3
  <2>4. CASE c = 3
    BY <1>7, <1>10, <1>11, <1>12, <2>4
  <2>5. CASE c = 4
    BY <1>7, <1>10, <1>11, <1>12, <2>5
  <2>6. QED
    BY <2>1, <2>2, <2>3, <2>4, <2>5
<1>14. QED
  BY <1>8, <1>13 DEF V, u

----------------------------------------------------------------------------
(***************************************************************************)
(* The codec.                                                              *)
(***************************************************************************)
\* What the conversion of one word leaves.
WordIs(kd, o, nm, s, x, y) ==
  LET w == IF kd = "u64" THEN W ELSE H
      g == Padded(s, w)
  IN  nm = SetWord(Load(g, o)) /\ x = g /\ y = U8ToHex(g)

Joined(kd, nm) == Back(kd, nm[3]) \o Back(kd, nm[2]) \o Back(kd, nm[1]) \o Back(kd, nm[0])

IsNumber == kind \in {"bytes", "hex"}
IsWord   == kind \in {"u64", "u32"}

\* Where a call can end.
DoneRight ==
  \/ IsNumber /\ ret = "OK" /\ Len(input) <= 4 * Unit
              /\ Read(kind, num, input, 4) /\ out = Joined(kind, num)
  \/ IsNumber /\ ret = "ERR" /\ Len(input) > 4 * Unit /\ IsZero(num)
  \/ IsWord /\ ret = "OK" /\ Len(input) <= Width /\ WordIs(kind, order, num, input, out, written)
  \/ IsWord /\ ret = "ERR" /\ Len(input) > Width /\ num = [k \in Limbs |-> LimbBase - 1]

\* The inductive invariant.
CodecInv ==
  /\ CodecTypeOK
  /\ input \in Seq(Digits)
  /\ pc \in {"set", "loop", "get"} => IsNumber
  /\ pc = "word" => IsWord /\ num = [k \in Limbs |-> LimbBase - 1]
  /\ pc \in {"set", "word"} => len = Len(input) /\ i = 0
  /\ pc = "loop" => /\ Len(input) <= 4 * Unit /\ len = Len(input) - i * Unit
                    /\ Read(kind, num, input, i)
  /\ pc = "get" => ret = "OK" /\ Len(input) <= 4 * Unit /\ Read(kind, num, input, 4)
  /\ pc = "done" => DoneRight
  /\ pc = "compared" => cmp = Cmp(num, other)

\* One limb more is read.
LEMMA ReadMore ==
  ASSUME NEW kd, NEW nm \in Numbers, NEW s, NEW c \in 0..3, Read(kd, nm, s, c),
         NEW x, LimbIs(kd, x, Slice(s, UnitOf(kd), c * UnitOf(kd)))
  PROVE  [nm EXCEPT ![c] = x] \in Numbers /\ Read(kd, [nm EXCEPT ![c] = x], s, c + 1)
<1> DEFINE new == [nm EXCEPT ![c] = x]
<1>1. x \in 0..LimbBase - 1
  BY DEF LimbIs
<1>2. c \in Limbs /\ new \in Numbers /\ new[c] = x /\ \A j \in Limbs : j # c => new[j] = nm[j]
  BY <1>1 DEF Numbers, Limbs
<1> HIDE DEF new
<1>3. ASSUME NEW j \in Limbs
      PROVE  IF j < c + 1 THEN LimbIs(kd, new[j], Slice(s, UnitOf(kd), j * UnitOf(kd))) ELSE new[j] = 0
  <2>1. j \in 0..3
    BY DEF Limbs
  <2>2. CASE j = c
    BY <1>2, <2>2
  <2>3. CASE j # c
    <3>1. j < c + 1 <=> j < c
      BY <2>1, <2>3
    <3>2. new[j] = nm[j]
      BY <1>2, <2>3
    <3>3. IF j < c THEN LimbIs(kd, nm[j], Slice(s, UnitOf(kd), j * UnitOf(kd))) ELSE nm[j] = 0
      BY DEF Read
    <3>4. QED
      BY <3>1, <3>2, <3>3
  <2>4. QED
    BY <2>2, <2>3
<1>4. QED
  BY <1>2, <1>3 DEF Read, new

\* Where the array has ended, the limbs are 0 as they should be.
LEMMA ReadAll ==
  ASSUME IsNumber, beyond \in 0..BB - 1, NEW nm, NEW s, NEW c \in 0..4, Len(s) \in Nat,
         Len(s) <= c * UnitOf(kind), Read(kind, nm, s, c)
  PROVE  Read(kind, nm, s, 4)
<1> DEFINE u == UnitOf(kind)
           n == Len(s)
<1>1. u \in Nat /\ n \in Nat /\ n <= c * u
  BY LimbBaseIs DEF UnitOf
<1>2. ASSUME NEW j \in Limbs PROVE LimbIs(kind, nm[j], Slice(s, u, j * u))
  <2>1. j \in 0..3
    BY DEF Limbs
  <2>2. IF j < c THEN LimbIs(kind, nm[j], Slice(s, u, j * u)) ELSE nm[j] = 0
    BY DEF Read
  <2>3. CASE ~ (j < c)
    <3>1. n - j * u <= 0
      <4>1. (j - c) * u >= 0
        <5>1. j - c \in Nat
          BY <2>1, <2>3
        <5> HIDE DEF u
        <5>2. QED
          BY <1>1, <5>1
      <4> HIDE DEF u, n
      <4> DEFINE ju == j * u
                 cu == c * u
      <4>2. (j - c) * u = ju - cu /\ ju \in Int /\ cu \in Int
        BY <1>1, <2>1
      <4> HIDE DEF ju, cu
      <4>3. n - ju <= 0
        BY <1>1, <4>1, <4>2 DEF cu
      <4>4. QED
        BY <4>3 DEF ju
    <3>2. Slice(s, u, j * u) = <<>>
      BY <3>1 DEF Slice
    <3>3. LimbIs(kind, 0, <<>>)
      BY ZeroLimb DEF IsNumber
    <3>4. QED
      BY <2>2, <2>3, <3>2, <3>3
  <2>4. QED
    BY <2>2, <2>3
<1>3. \A j \in Limbs : j < 4
  BY DEF Limbs
<1>4. QED
  BY <1>2, <1>3 DEF Read

\* The slice that a call reads.
LEMMA NextSlice ==
  ASSUME IsNumber, beyond \in 0..BB - 1, input \in Seq(Digits), NEW c \in 0..4, NEW l,
         Len(input) <= 4 * Unit, l = Len(input) - c * Unit, l > 0
  PROVE  /\ c \in 0..3
         /\ l >= Unit => LimbIs(kind, ToLimb(SubSeq(input, l - Unit + 1, l)),
                                Slice(input, UnitOf(kind), c * UnitOf(kind)))
         /\ l < Unit => LimbIs(kind, ToLimb(SubSeq(input, 1, l)),
                               Slice(input, UnitOf(kind), c * UnitOf(kind)))
<1> DEFINE u == UnitOf(kind)
           n == Len(input)
           e == c * u
           z == Slice(input, u, e)
<1>1. Unit = u
  BY DEF Unit, UnitOf
<1>2. u \in Nat /\ u > 0 /\ n \in Nat
  BY <1>1, UnitIs, DigitsNat DEF IsNumber
<1> HIDE DEF u, n
<1>3. e \in Nat /\ l = n - e /\ l \in Int /\ n <= 4 * u
  <2>1. e \in Nat
    BY <1>2
  <2>2. QED
    BY <1>1, <1>2, <2>1 DEF n
<1>4. c \in 0..3
  <2>1. c = 4 => e = 4 * u
    OBVIOUS
  <2> HIDE DEF e
  <2>2. c # 4
    BY <1>2, <1>3, <2>1
  <2>3. QED
    BY <2>2
<1>5. e \in 0..3 * u
  <2>1. (3 - c) * u >= 0
    BY <1>2, <1>4
  <2>2. (3 - c) * u = 3 * u - e
    BY <1>2, <1>4
  <2> HIDE DEF e
  <2>3. QED
    BY <1>2, <1>3, <2>1, <2>2
<1> HIDE DEF e
<1>6. z \in Seq(Digits) /\ Len(z) <= u
  BY <1>2, <1>3, <1>5, DigitsNat, SliceIs DEF n
<1>7. l >= u => z = SubSeq(input, l - u + 1, l)
  <2> SUFFICES ASSUME l >= u PROVE z = SubSeq(input, l - u + 1, l)
    OBVIOUS
  <2>1. ~ (Len(input) - e <= 0) /\ ~ ((Len(input) - e) - u < 0) /\ Len(input) - e = l
    BY <1>2, <1>3 DEF n
  <2>2. QED
    BY <2>1 DEF Slice
<1>8. l < u => z = SubSeq(input, 1, l)
  <2> SUFFICES ASSUME l < u PROVE z = SubSeq(input, 1, l)
    OBVIOUS
  <2>1. ~ (Len(input) - e <= 0) /\ (Len(input) - e) - u < 0 /\ Len(input) - e = l
    BY <1>2, <1>3 DEF n
  <2>2. QED
    BY <2>1 DEF Slice
<1> HIDE DEF z
<1>9. LimbIs(kind, ToLimb(z), z)
  BY <1>1, <1>6, ToLimbIs DEF IsNumber
<1>10. QED
  BY <1>1, <1>4, <1>7, <1>8, <1>9 DEF z, e, u

\* A word converted there and back.
LEMMA WordRight ==
  ASSUME IsWord, order \in {"big", "little"}, input \in Seq(Digits), Len(input) <= Width
  PROVE  /\ kind = "u64" =>
              LET n == U8ToU64(input, order)
              IN  /\ n \in 0..LimbBase - 1
                  /\ WordIs(kind, order, SetWord(n), input, U64ToU8(n, order), U64ToHex(n, order))
         /\ kind = "u32" =>
              LET n == U8ToU32(input, order)
                  x == U32ToU8(n, order)
                  y == U32ToU8(IF order = "big" THEN ToBe32(n) ELSE ToLe32(n), "little")
              IN  /\ n \in 0..LimbBase - 1
                  /\ WordIs(kind, order, SetWord(n), input, x, U32ToHex(n, order))
                  /\ WordIs(kind, order, SetWord(n), input, y, U32ToHex(n, order))
<1>0. input \in Bytes /\ W \in Nat /\ H \in Nat /\ LimbBase \in Nat /\ Power(BB, H) <= LimbBase
  BY LimbBaseIs DEF IsWord, Digits, Bytes
<1>1. CASE kind = "u64"
  <2> DEFINE g == Padded(input, W)
             n == Load(g, order)
  <2>1. Len(input) <= W
    BY <1>1 DEF Width
  <2>2. U8ToU64(input, order) = n
    BY <1>0, <2>1, WindowIs DEF U8ToU64
  <2>3. n \in 0..LimbBase - 1 /\ Store(n, W, order) = g
    BY <1>0, <2>1, WordBack DEF LimbBase
  <2>4. U64ToU8(n, order) = g /\ U64ToHex(n, order) = U8ToHex(g)
    BY <2>3 DEF U64ToU8, U64ToHex
  <2>5. WordIs(kind, order, SetWord(n), input, g, U8ToHex(g))
    BY <1>1 DEF WordIs
  <2> HIDE DEF g, n
  <2>6. QED
    BY <1>1, <2>2, <2>3, <2>4, <2>5
<1>2. CASE kind = "u32"
  <2> DEFINE g == Padded(input, H)
             n == Load(g, order)
  <2>1. Len(input) <= H
    BY <1>2 DEF Width
  <2>2. U8ToU32(input, order) = n /\ g \in Bytes /\ Len(g) = H
    BY <1>0, <2>1, WindowIs DEF U8ToU32
  <2>3. n \in 0..Power(BB, H) - 1 /\ Store(n, H, order) = g
    BY <1>0, <2>1, WordBack
  <2>4. n \in 0..LimbBase - 1
    <3>1. Power(BB, H) \in Nat
      BY <1>0, BytesAreDigits, PowerNat
    <3> HIDE DEF n
    <3>2. QED
      BY <1>0, <2>3, <3>1
  <2>5. U32ToHex(n, order) = U8ToHex(g)
    BY <2>2, U32HexRight
  <2>6. Store(Load(g, "little"), H, "little") = g
    BY <2>2, StoreOfLoad
  <2>7. (IF order = "big" THEN ToBe32(n) ELSE ToLe32(n)) = Load(g, "little")
    <3>1. CASE order = "big"
      BY <2>2, <3>1, OtherOrder
    <3>2. CASE order = "little"
      BY <3>2 DEF ToLe32
    <3>3. QED
      BY <3>1, <3>2
  <2>8. WordIs(kind, order, SetWord(n), input, g, U8ToHex(g))
    BY <1>2 DEF WordIs
  <2> HIDE DEF g, n
  <2>9. QED
    BY <1>2, <2>2, <2>3, <2>4, <2>5, <2>6, <2>7, <2>8 DEF U32ToU8
<1>3. QED
  BY <1>1, <1>2 DEF IsWord

LEMMA WordNumber ==
  ASSUME NEW w \in 0..LimbBase - 1
  PROVE  SetWord(w) \in Numbers
BY LimbBaseIs DEF SetWord, Numbers

LEMMA CodecInitInv == CodecInit => CodecInv
<1> SUFFICES ASSUME CodecInit PROVE CodecInv
  OBVIOUS
<1>0. LimbBase \in Nat /\ LimbBase > 1 /\ BB \in Nat /\ BB > 0
  BY LimbBaseIs, BytesAreDigits
<1>1. /\ kind \in {"bytes", "hex", "u64", "u32"} /\ order \in {"big", "little"}
      /\ input \in Seq(Digits) /\ beyond \in 0..BB - 1
  <2>1. kind = "hex" => input \in Seq(0..High)
    BY InputAssumption DEF CodecInit
  <2>2. kind # "hex" => input \in Seq(0..BB - 1)
    BY InputAssumption DEF CodecInit
  <2>3. beyond \in 0..BB - 1
    BY <1>0 DEF CodecInit
  <2>4. kind \in {"bytes", "hex", "u64", "u32"} /\ order \in {"big", "little"}
    BY DEF CodecInit
  <2>5. QED
    BY <2>1, <2>2, <2>3, <2>4 DEF Digits
<1>2. /\ num = [k \in Limbs |-> LimbBase - 1] /\ num \in Numbers /\ other = num
      /\ len = Len(input) /\ i = 0 /\ cmp = 0 /\ ret = "none"
      /\ pc = IF kind \in {"bytes", "hex"} THEN "set" ELSE "word"
  BY <1>0 DEF CodecInit, LimbBase, Numbers
<1>3. Len(input) \in Nat
  BY <1>1, DigitsNat
<1>4. CodecTypeOK
  BY <1>1, <1>2, <1>3 DEF CodecTypeOK, Numbers
<1>5. QED
  BY <1>1, <1>2, <1>4 DEF CodecInv, IsNumber, IsWord

LEMMA CodecNextInv == CodecInv /\ [CodecNext]_codecVars => CodecInv'
<1> SUFFICES ASSUME CodecInv, [CodecNext]_codecVars PROVE CodecInv'
  OBVIOUS
<1> USE DEF caller
<1>0. /\ LimbBase \in Nat /\ LimbBase > 1 /\ BB \in Nat
      /\ input \in Seq(Digits) /\ beyond \in 0..BB - 1 /\ order \in {"big", "little"}
      /\ num \in Numbers /\ Len(input) \in Nat /\ len \in 0..Len(input) /\ i \in 0..4
  BY LimbBaseIs, BytesAreDigits, DigitsNat DEF CodecInv, CodecTypeOK, Numbers
<1>1. CASE SetBegins
  <2>1. num' \in Numbers /\ \A j \in Limbs : num'[j] = 0
    BY <1>0, <1>1 DEF SetBegins, Numbers
  <2>2. IsNumber /\ len = Len(input) /\ i = 0
    BY <1>1 DEF SetBegins, CodecInv
  <2>3. CodecTypeOK'
    BY <1>0, <1>1, <2>1 DEF SetBegins, CodecInv, CodecTypeOK, Numbers
  <2>4. CASE len > 4 * Unit
    BY <1>1, <2>1, <2>2, <2>3, <2>4
       DEF SetBegins, CodecInv, DoneRight, IsNumber, IsZero, Unit, Digits
  <2>5. CASE ~ (len > 4 * Unit)
    <3>1. Unit \in Nat /\ 0 * Unit = 0
      BY <2>2, UnitIs DEF IsNumber
    <3>2. \A j \in Limbs : ~ (j < 0)
      BY DEF Limbs
    <3>3. Read(kind, num', input, 0)
      BY <2>1, <3>2 DEF Read
    <3>4. Len(input) <= 4 * Unit /\ len = Len(input) - i * Unit
      BY <1>0, <2>2, <2>5, <3>1
    <3>5. QED
      BY <1>1, <2>2, <2>3, <2>5, <3>3, <3>4
         DEF SetBegins, CodecInv, IsNumber, Unit, Digits
  <2>6. QED
    BY <2>4, <2>5
<1>2. CASE SetLimb
  <2>1. /\ IsNumber /\ Len(input) <= 4 * Unit /\ len = Len(input) - i * Unit
        /\ Read(kind, num, input, i) /\ len >= Unit
    BY <1>2 DEF SetLimb, CodecInv
  <2>2. Unit \in Nat /\ Unit > 0 /\ len > 0
    BY <1>0, <2>1, UnitIs DEF IsNumber
  <2>3. i \in 0..3 /\ LimbIs(kind, ToLimb(SubSeq(input, len - Unit + 1, len)),
                              Slice(input, UnitOf(kind), i * UnitOf(kind)))
    BY <1>0, <2>1, <2>2, NextSlice
  <2>4. num' \in Numbers /\ Read(kind, num', input, i + 1)
    BY <1>0, <1>2, <2>1, <2>3, ReadMore DEF SetLimb
  <2>5. len' \in 0..Len(input) /\ i' \in 0..4 /\ len' = Len(input) - (i + 1) * Unit
    <3>1. (i + 1) * Unit = i * Unit + Unit
      BY <1>0, <2>2
    <3> DEFINE x == i * Unit
    <3>2. x \in Int
      BY <1>0, <2>2
    <3>3. len = Len(input) - x
      BY <2>1
    <3> HIDE DEF x
    <3>4. len' = Len(input) - (x + Unit)
      BY <1>0, <1>2, <2>2, <3>2, <3>3 DEF SetLimb
    <3>5. QED
      BY <1>0, <1>2, <2>1, <2>2, <2>3, <3>1, <3>4 DEF SetLimb, x
  <2>6. CodecTypeOK'
    BY <1>2, <2>4, <2>5 DEF SetLimb, CodecInv, CodecTypeOK, Numbers
  <2>7. QED
    BY <1>2, <2>1, <2>4, <2>5, <2>6 DEF SetLimb, CodecInv, IsNumber, Unit, Digits
<1>3. CASE SetRest
  <2>1. /\ IsNumber /\ Len(input) <= 4 * Unit /\ len = Len(input) - i * Unit
        /\ Read(kind, num, input, i) /\ len < Unit
    BY <1>3 DEF SetRest, CodecInv
  <2>2. Unit \in Nat /\ Unit > 0 /\ Unit = UnitOf(kind)
    BY <2>1, UnitIs DEF IsNumber, Unit, UnitOf
  <2>3. num' \in Numbers /\ Read(kind, num', input, 4)
    <3>1. CASE len > 0
      <4>1. i \in 0..3 /\ LimbIs(kind, ToLimb(SubSeq(input, 1, len)),
                                  Slice(input, UnitOf(kind), i * UnitOf(kind)))
        BY <1>0, <2>1, <3>1, NextSlice
      <4>2. num' \in Numbers /\ Read(kind, num', input, i + 1)
        BY <1>0, <1>3, <2>1, <3>1, <4>1, ReadMore DEF SetRest
      <4>3. i + 1 \in 0..4 /\ Len(input) <= (i + 1) * UnitOf(kind)
        <5>1. (i + 1) * Unit = i * Unit + Unit
          BY <1>0, <2>2
        <5> DEFINE x == i * Unit
        <5>2. x \in Int
          BY <1>0, <2>2
        <5>3. len = Len(input) - x
          BY <2>1
        <5> HIDE DEF x
        <5>4. Len(input) <= x + Unit
          BY <1>0, <2>1, <2>2, <5>2, <5>3, SMTT(30)
        <5>5. QED
          BY <2>2, <4>1, <5>1, <5>4 DEF x
      <4>4. QED
        BY <1>0, <2>1, <4>2, <4>3, ReadAll
    <3>2. CASE ~ (len > 0)
      <4>1. num' = num
        BY <1>3, <3>2 DEF SetRest
      <4>2. Len(input) <= i * UnitOf(kind)
        <5> DEFINE x == i * Unit
        <5>1. x \in Int /\ len = Len(input) - x
          BY <1>0, <2>1, <2>2
        <5> HIDE DEF x
        <5>2. Len(input) <= x
          BY <1>0, <3>2, <5>1
        <5>3. QED
          BY <2>2, <5>2 DEF x
      <4>3. QED
        BY <1>0, <2>1, <4>1, <4>2, ReadAll
    <3>3. QED
      BY <3>1, <3>2
  <2>4. CodecTypeOK'
    BY <1>3, <2>3 DEF SetRest, CodecInv, CodecTypeOK, Numbers
  <2>5. QED
    BY <1>3, <2>1, <2>3, <2>4 DEF SetRest, CodecInv, IsNumber, Unit, Digits
<1>4. CASE Get
  <2>1. IsNumber /\ ret = "OK" /\ Len(input) <= 4 * Unit /\ Read(kind, num, input, 4)
    BY <1>4 DEF Get, CodecInv
  <2>2. out' = Joined(kind, num)
    BY <1>4, <2>1 DEF Get, Joined, FromLimb, Back, U64ToU8, U64ToHex, IsNumber
  <2>3. CodecTypeOK'
    BY <1>4 DEF Get, CodecInv, CodecTypeOK
  <2>4. QED
    BY <1>0, <1>4, <2>1, <2>2, <2>3 DEF Get, CodecInv, DoneRight, IsNumber, Unit, Digits
<1>5. CASE WordRefused
  <2>1. IsWord /\ num = [k \in Limbs |-> LimbBase - 1] /\ len = Len(input) /\ len > Width
    BY <1>5 DEF WordRefused, CodecInv
  <2>2. CodecTypeOK'
    BY <1>5 DEF WordRefused, CodecInv, CodecTypeOK
  <2>3. QED
    BY <1>0, <1>5, <2>1, <2>2 DEF WordRefused, CodecInv, DoneRight, IsWord, Width, Digits
<1>6. CASE ConvertWord
  <2>1. IsWord /\ len = Len(input) /\ Len(input) <= Width
    BY <1>6 DEF ConvertWord, CodecInv
  <2>2. num' \in Numbers /\ WordIs(kind, order, num', input, out', written')
    <3>0. 0 \in Limbs /\ \A w : SetWord(w)[0] = w
      BY DEF SetWord, Limbs
    <3>1. CASE kind = "u64"
      <4> DEFINE n == U8ToU64(input, order)
      <4>1. n \in 0..LimbBase - 1
            /\ WordIs(kind, order, SetWord(n), input, U64ToU8(n, order), U64ToHex(n, order))
        BY <1>0, <2>1, <3>1, WordRight
      <4>2. num' = SetWord(n) /\ num'[0] = n
        BY <1>6, <3>0, <3>1 DEF ConvertWord
      <4>3. out' = U64ToU8(n, order) /\ written' = U64ToHex(n, order)
        BY <1>6, <3>1, <4>2 DEF ConvertWord
      <4> HIDE DEF n
      <4>4. QED
        BY <4>1, <4>2, <4>3, WordNumber
    <3>2. CASE kind = "u32"
      <4> DEFINE n == U8ToU32(input, order)
                 x == U32ToU8(n, order)
                 y == U32ToU8(IF order = "big" THEN ToBe32(n) ELSE ToLe32(n), "little")
      <4>1. /\ n \in 0..LimbBase - 1
            /\ WordIs(kind, order, SetWord(n), input, x, U32ToHex(n, order))
            /\ WordIs(kind, order, SetWord(n), input, y, U32ToHex(n, order))
        BY <1>0, <2>1, <3>2, WordRight
      <4>2. num' = SetWord(n) /\ num'[0] = n
        BY <1>6, <3>0, <3>2 DEF ConvertWord
      <4>3. out' \in {x, y} /\ written' = U32ToHex(n, order)
        BY <1>6, <3>2, <4>2 DEF ConvertWord
      <4> HIDE DEF n, x, y
      <4>4. QED
        BY <4>1, <4>2, <4>3, WordNumber
    <3>3. QED
      BY <2>1, <3>1, <3>2 DEF IsWord
  <2>3. CodecTypeOK'
    BY <1>6, <2>2 DEF ConvertWord, CodecInv, CodecTypeOK, Numbers
  <2>4. QED
    BY <1>6, <2>1, <2>2, <2>3 DEF ConvertWord, CodecInv, DoneRight, IsWord, Width, Digits
<1>7. CASE Compare
  <2>1. other' \in Numbers
    <3>1. num[0] \in 0..LimbBase - 1 /\ 1 \in 0..LimbBase - 1
      BY <1>0 DEF Numbers, Limbs
    <3>2. SetWord(num[0]) \in Numbers /\ SetOne \in Numbers
      BY <3>1, WordNumber DEF SetOne
    <3>3. [k \in Limbs |-> num[3 - k]] \in Numbers
      BY <1>0 DEF Numbers, Limbs
    <3>4. QED
      BY <1>7, <3>2, <3>3 DEF Compare
  <2>2. cmp' = Cmp(num, other') /\ cmp' \in {-1, 0, 1}
    BY <1>0, <1>7, <2>1, CmpRight DEF Compare
  <2>3. CodecTypeOK'
    BY <1>7, <2>1, <2>2 DEF Compare, CodecInv, CodecTypeOK, Numbers
  <2>4. QED
    BY <1>0, <1>7, <2>2, <2>3 DEF Compare, CodecInv, Digits
<1>8. CASE UNCHANGED codecVars
  <2>1. CodecTypeOK'
    BY <1>8 DEF codecVars, CodecInv, CodecTypeOK
  <2>2. QED
    BY <1>8, <2>1 DEF codecVars, CodecInv, DoneRight, IsNumber, IsWord, IsZero, Unit, Width, Digits
<1>9. QED
  BY <1>1, <1>2, <1>3, <1>4, <1>5, <1>6, <1>7, <1>8 DEF CodecNext, Returned

\* What a slice of the array is.
LEMMA InputSlice ==
  ASSUME input \in Seq(Digits)
  PROVE  \A u \in Nat : \A e \in 0..3 * u : Len(input) <= 4 * u =>
           /\ \A k \in 1..u : Padded(Slice(input, u, e), u)[k] = Padded(input, 4 * u)[3 * u - e + k]
           /\ \A k \in 1..Len(Slice(input, u, e)) : \E j \in 1..Len(input) :
                Slice(input, u, e)[k] = input[j]
<1> SUFFICES ASSUME NEW u \in Nat, NEW e \in 0..3 * u, Len(input) <= 4 * u
             PROVE  /\ \A k \in 1..u : Padded(Slice(input, u, e), u)[k]
                                        = Padded(input, 4 * u)[3 * u - e + k]
                    /\ \A k \in 1..Len(Slice(input, u, e)) : \E j \in 1..Len(input) :
                         Slice(input, u, e)[k] = input[j]
  OBVIOUS
<1>1. 0 \in Digits
  BY DigitsNat
<1>2. QED
  BY <1>1, SliceIs

\* The array that get fills, limb by limb.
LEMMA JoinedIs ==
  ASSUME IsNumber, input \in Seq(Digits), Len(input) <= 4 * Unit, Read(kind, num, input, 4)
  PROVE  LET u == Unit
             x == Joined(kind, num)
             g == Padded(input, 4 * u)
         IN  /\ u \in Nat /\ u > 0
             /\ x \in Seq(Nat) /\ Len(x) = 4 * u /\ g \in Seq(Nat) /\ Len(g) = 4 * u
             /\ \A j \in 0..3, m \in 1..u :
                  /\ LimbIs(kind, num[j], Slice(input, u, j * u)) /\ (3 - j) * u + m \in 1..4 * u
                  /\ x[(3 - j) * u + m] = Back(kind, num[j])[m]
                  /\ g[(3 - j) * u + m] = Padded(Slice(input, u, j * u), u)[m]
<1> DEFINE u == Unit
           x == Joined(kind, num)
           g == Padded(input, 4 * u)
<1>0. Len(input) <= 4 * u
  OBVIOUS
<1>1. u \in Nat /\ u > 0 /\ u = UnitOf(kind)
  BY UnitIs DEF IsNumber, Unit, UnitOf
<1> HIDE DEF u
<1>2. ASSUME NEW j \in 0..3
      PROVE  /\ LimbIs(kind, num[j], Slice(input, u, j * u))
             /\ Back(kind, num[j]) \in Seq(Nat) /\ Len(Back(kind, num[j])) = u
  <2>1. j \in Limbs /\ j < 4
    BY DEF Limbs
  <2>2. LimbIs(kind, num[j], Slice(input, u, j * u))
    BY <1>1, <2>1 DEF Read
  <2>3. QED
    BY <1>1, <2>2 DEF LimbIs
<1> DEFINE F(j) == Back(kind, num[j])
<1>3. /\ x \in Seq(Nat) /\ Len(x) = 4 * u
      /\ \A k \in 1..u : /\ x[k] = F(3)[k] /\ x[u + k] = F(2)[k]
                         /\ x[2 * u + k] = F(1)[k] /\ x[3 * u + k] = F(0)[k]
  <2>1. x = F(3) \o F(2) \o F(1) \o F(0)
    BY DEF Joined
  <2>2. /\ F(0) \in Seq(Nat) /\ Len(F(0)) = u /\ F(1) \in Seq(Nat) /\ Len(F(1)) = u
        /\ F(2) \in Seq(Nat) /\ Len(F(2)) = u /\ F(3) \in Seq(Nat) /\ Len(F(3)) = u
    BY <1>2
  <2> HIDE DEF F, x
  <2> DEFINE f0 == F(0)
             f1 == F(1)
             f2 == F(2)
             f3 == F(3)
  <2> HIDE DEF f0, f1, f2, f3
  <2>3. /\ f0 \in Seq(Nat) /\ Len(f0) = u /\ f1 \in Seq(Nat) /\ Len(f1) = u
        /\ f2 \in Seq(Nat) /\ Len(f2) = u /\ f3 \in Seq(Nat) /\ Len(f3) = u
    BY <2>2 DEF f0, f1, f2, f3
  <2>4. x = f3 \o f2 \o f1 \o f0
    BY <2>1 DEF f0, f1, f2, f3
  <2>5. /\ x \in Seq(Nat) /\ Len(x) = 4 * u
        /\ \A k \in 1..u : /\ x[k] = f3[k] /\ x[u + k] = f2[k]
                           /\ x[2 * u + k] = f1[k] /\ x[3 * u + k] = f0[k]
    <3>0. u \in Nat
      BY <1>1
    <3> USE <3>0, <2>3
    <3> DEFINE y == f3 \o f2
               z == y \o f1
               v == z \o f0
    <3>1. /\ y \in Seq(Nat) /\ Len(y) = 2 * u
          /\ \A k \in 1..u : y[k] = f3[k] /\ y[u + k] = f2[k]
      <4>1. /\ y \in Seq(Nat) /\ Len(y) = Len(f3) + Len(f2)
            /\ \A k \in 1..Len(f3) : y[k] = f3[k]
            /\ \A k \in Len(f3) + 1..Len(f3) + Len(f2) : y[k] = f2[k - Len(f3)]
        BY ConcatNat
      <4> HIDE DEF y
      <4>2. ASSUME NEW k \in 1..u PROVE y[u + k] = f2[k]
        <5>1. u + k \in Len(f3) + 1..Len(f3) + Len(f2) /\ (u + k) - Len(f3) = k
          OBVIOUS
        <5>2. y[u + k] = f2[(u + k) - Len(f3)]
          BY <4>1, <5>1
        <5>3. QED
          BY <5>1, <5>2
      <4>3. QED
        BY <4>1, <4>2
    <3> HIDE DEF y
    <3>2. /\ z \in Seq(Nat) /\ Len(z) = 3 * u
          /\ \A k \in 1..2 * u : z[k] = y[k]
          /\ \A k \in 2 * u + 1..3 * u : z[k] = f1[k - 2 * u]
      <4>1. /\ z \in Seq(Nat) /\ Len(z) = Len(y) + Len(f1)
            /\ \A k \in 1..Len(y) : z[k] = y[k]
            /\ \A k \in Len(y) + 1..Len(y) + Len(f1) : z[k] = f1[k - Len(y)]
        BY <3>1, ConcatNat
      <4> HIDE DEF z
      <4>2. Len(y) + Len(f1) = 3 * u
        BY <3>1
      <4>3. QED
        BY <3>1, <4>1, <4>2
    <3> HIDE DEF z
    <3>3. /\ v \in Seq(Nat) /\ Len(v) = 4 * u
          /\ \A k \in 1..3 * u : v[k] = z[k]
          /\ \A k \in 3 * u + 1..4 * u : v[k] = f0[k - 3 * u]
      <4>1. /\ v \in Seq(Nat) /\ Len(v) = Len(z) + Len(f0)
            /\ \A k \in 1..Len(z) : v[k] = z[k]
            /\ \A k \in Len(z) + 1..Len(z) + Len(f0) : v[k] = f0[k - Len(z)]
        BY <3>2, ConcatNat
      <4> HIDE DEF v
      <4>2. Len(z) + Len(f0) = 4 * u
        BY <3>2
      <4>3. QED
        BY <3>2, <4>1, <4>2
    <3> HIDE DEF v
    <3>4. ASSUME NEW k \in 1..u
          PROVE  v[k] = f3[k] /\ v[u + k] = f2[k] /\ v[2 * u + k] = f1[k] /\ v[3 * u + k] = f0[k]
      <4>1. /\ k \in 1..2 * u /\ u + k \in 1..2 * u /\ k \in 1..3 * u /\ u + k \in 1..3 * u
            /\ 2 * u + k \in 1..3 * u /\ 2 * u + k \in 2 * u + 1..3 * u
            /\ 3 * u + k \in 3 * u + 1..4 * u /\ (2 * u + k) - 2 * u = k /\ (3 * u + k) - 3 * u = k
        OBVIOUS
      <4>2. v[k] = f3[k] /\ v[u + k] = f2[k]
        BY <3>1, <3>2, <3>3, <4>1
      <4>3. v[2 * u + k] = f1[(2 * u + k) - 2 * u] /\ v[3 * u + k] = f0[(3 * u + k) - 3 * u]
        BY <3>2, <3>3, <4>1
      <4>4. QED
        BY <4>1, <4>2, <4>3
    <3>5. x = v
      BY <2>4 DEF v, y, z
    <3>6. QED
      BY <3>3, <3>4, <3>5
  <2>6. QED
    BY <2>5, Zenon DEF f0, f1, f2, f3
<1>4. input \in Seq(Nat) /\ 0 \in Nat
  BY DigitsNat
<1>5. g \in Seq(Nat) /\ Len(g) = 4 * u
  <2>1. 4 * u \in Nat /\ Len(input) <= 4 * u
    BY <1>0, <1>1
  <2>2. QED
    BY <1>4, <2>1, PaddedIs
<1> HIDE DEF x
<1>6. ASSUME NEW j \in 0..3, NEW m \in 1..u
      PROVE  /\ (3 - j) * u + m \in 1..4 * u
             /\ x[(3 - j) * u + m] = F(j)[m]
             /\ g[(3 - j) * u + m] = Padded(Slice(input, u, j * u), u)[m]
  <2> DEFINE e == j * u
  <2>1. e \in 0..3 * u /\ (3 - j) * u + m = 3 * u - e + m /\ (3 - j) * u + m \in 1..4 * u
    <3>1. CASE j = 0
      BY <1>1, <3>1
    <3>2. CASE j = 1
      BY <1>1, <3>2
    <3>3. CASE j = 2
      <4>1. (3 - 2) * u + m = u + m /\ 3 * u - 2 * u + m = u + m
        BY <1>1
      <4>2. 2 * u \in 0..3 * u /\ (3 - 2) * u + m \in 1..4 * u
        BY <1>1
      <4>3. QED
        BY <3>3, <4>1, <4>2
    <3>4. CASE j = 3
      <4>1. (3 - 3) * u + m = m /\ 3 * u - 3 * u + m = m
        BY <1>1
      <4>2. 3 * u \in 0..3 * u /\ (3 - 3) * u + m \in 1..4 * u
        BY <1>1
      <4>3. QED
        BY <3>4, <4>1, <4>2
    <3>5. QED
      BY <3>1, <3>2, <3>3, <3>4
  <2>2. g[3 * u - e + m] = Padded(Slice(input, u, e), u)[m]
    <3> HIDE DEF e
    <3>1. QED
      BY <1>0, <1>1, <2>1, InputSlice
  <2>3. x[(3 - j) * u + m] = F(j)[m]
    <3> HIDE DEF F
    <3>1. CASE j = 0
      <4>1. (3 - 0) * u + m = 3 * u + m
        BY <1>1
      <4>2. QED
        BY <1>3, <3>1, <4>1
    <3>2. CASE j = 1
      <4>1. (3 - 1) * u + m = 2 * u + m
        BY <1>1
      <4>2. QED
        BY <1>3, <3>2, <4>1
    <3>3. CASE j = 2
      <4>1. (3 - 2) * u + m = u + m
        BY <1>1
      <4>2. QED
        BY <1>3, <3>3, <4>1
    <3>4. CASE j = 3
      <4>1. (3 - 3) * u + m = m
        BY <1>1
      <4>2. QED
        BY <1>3, <3>4, <4>1
    <3>5. QED
      BY <3>1, <3>2, <3>3, <3>4
  <2>4. QED
    BY <2>1, <2>2, <2>3
<1> HIDE DEF g
<1>7. /\ u \in Nat /\ u > 0
      /\ x \in Seq(Nat) /\ Len(x) = 4 * u /\ g \in Seq(Nat) /\ Len(g) = 4 * u
      /\ \A j \in 0..3, m \in 1..u :
           /\ LimbIs(kind, num[j], Slice(input, u, j * u)) /\ (3 - j) * u + m \in 1..4 * u
           /\ x[(3 - j) * u + m] = Back(kind, num[j])[m]
           /\ g[(3 - j) * u + m] = Padded(Slice(input, u, j * u), u)[m]
  BY <1>1, <1>2, <1>3, <1>5, <1>6
<1>8. QED
  BY <1>7, Zenon DEF g, x, u

\* Where an element of an array of four limbs is.
LEMMA Position ==
  ASSUME NEW u \in Nat, u > 0, NEW k \in 1..4 * u
  PROVE  \E j \in 0..3, m \in 1..u : k = (3 - j) * u + m
<1>1. CASE k <= u
  <2>1. k \in 1..u /\ k = (3 - 3) * u + k
    BY <1>1
  <2>2. QED
    BY <2>1
<1>2. CASE u < k /\ k <= 2 * u
  <2>1. k - u \in 1..u /\ k = (3 - 2) * u + (k - u)
    BY <1>2
  <2>2. QED
    BY <2>1
<1>3. CASE 2 * u < k /\ k <= 3 * u
  <2>1. k - 2 * u \in 1..u /\ k = (3 - 1) * u + (k - 2 * u)
    BY <1>3
  <2>2. QED
    BY <2>1
<1>4. CASE 3 * u < k
  <2>1. k - 3 * u \in 1..u /\ k = (3 - 0) * u + (k - 3 * u)
    BY <1>4
  <2>2. QED
    BY <2>1
<1>5. QED
  BY <1>1, <1>2, <1>3, <1>4

LEMMA PartialNumberKept == CodecInv => PartialNumber
<1> SUFFICES ASSUME CodecInv PROVE PartialNumber
  OBVIOUS
<1>1. /\ CodecTypeOK /\ i \in 0..4 /\ input \in Seq(Digits) /\ beyond \in 0..BB - 1
      /\ len \in 0..Len(input) /\ Len(input) \in Nat
  BY DigitsNat DEF CodecInv, CodecTypeOK
<1>2. ASSUME pc = "loop"
      PROVE  /\ IsNumber /\ Len(input) <= 4 * Unit /\ len = Len(input) - i * Unit
             /\ Read(kind, num, input, i) /\ i * Unit \in Int /\ i * Unit <= Len(input)
  <2>1. /\ IsNumber /\ Len(input) <= 4 * Unit /\ len = Len(input) - i * Unit
        /\ Read(kind, num, input, i)
    BY <1>2 DEF CodecInv
  <2>2. Unit \in Nat
    BY <2>1, UnitIs DEF IsNumber
  <2> DEFINE x == i * Unit
  <2>3. x \in Int /\ len = Len(input) - x
    BY <1>1, <2>1, <2>2
  <2> HIDE DEF x
  <2>4. x <= Len(input)
    BY <1>1, <2>3
  <2>5. QED
    BY <2>1, <2>3, <2>4 DEF x
<1>3. ASSUME pc = "loop", Legible
      PROVE  Value(num) = Number(SubSeq(input, len + 1, Len(input)), Base)
  <2>1. Value(num) = Number(SubSeq(input, Len(input) - i * Unit + 1, Len(input)), Base)
    BY <1>1, <1>2, <1>3, PartialValue DEF IsNumber
  <2>2. QED
    BY <1>2, <1>3, <2>1
<1>4. ASSUME pc = "loop", len > 0 PROVE i \in Limbs
  BY <1>1, <1>2, <1>4, NextSlice DEF Limbs
<1>5. QED
  BY <1>1, <1>3, <1>4 DEF PartialNumber

LEMMA RoundTripKept == CodecInv => RoundTrip
<1> SUFFICES ASSUME CodecInv, pc = "done", Legible PROVE RoundTrip
  BY DEF RoundTrip
<1>1. DoneRight /\ input \in Seq(Digits) /\ beyond \in 0..BB - 1 /\ order \in {"big", "little"}
  BY DEF CodecInv, CodecTypeOK
<1>2. CASE IsNumber /\ ret = "OK" /\ Len(input) <= 4 * Unit
           /\ Read(kind, num, input, 4) /\ out = Joined(kind, num)
  <2> DEFINE u == Unit
             g == Padded(input, 4 * u)
  <2>1. /\ u \in Nat /\ u > 0
        /\ out \in Seq(Nat) /\ Len(out) = 4 * u /\ g \in Seq(Nat) /\ Len(g) = 4 * u
        /\ \A j \in 0..3, m \in 1..u :
             /\ LimbIs(kind, num[j], Slice(input, u, j * u))
             /\ out[(3 - j) * u + m] = Back(kind, num[j])[m]
             /\ g[(3 - j) * u + m] = Padded(Slice(input, u, j * u), u)[m]
    BY <1>1, <1>2, JoinedIs
  <2>2. u = UnitOf(kind)
    BY DEF Unit, UnitOf
  <2> HIDE DEF g, u
  <2>3. ASSUME NEW j \in 0..3, NEW m \in 1..u PROVE out[(3 - j) * u + m] = g[(3 - j) * u + m]
    <3> DEFINE e == j * u
               z == Slice(input, u, e)
    <3>1. e \in 0..3 * u /\ Len(input) <= 4 * u
      <4>1. Len(input) <= 4 * u
        BY <1>2 DEF u
      <4>2. u \in Nat
        BY <2>1
      <4>3. 0 * u \in 0..3 * u /\ 1 * u \in 0..3 * u /\ 2 * u \in 0..3 * u /\ 3 * u \in 0..3 * u
        BY <4>2
      <4>4. j = 0 \/ j = 1 \/ j = 2 \/ j = 3
        OBVIOUS
      <4>5. QED
        BY <4>1, <4>3, <4>4
    <3>2. kind = "hex" => AllDigits(z)
      <4> HIDE DEF e
      <4>1. \A k \in 1..Len(z) : \E n \in 1..Len(input) : z[k] = input[n]
        BY <1>1, <2>1, <3>1, InputSlice
      <4>2. kind = "hex" => \A n \in 1..Len(input) : input[n] < D
        BY <1>1, DigitsNat DEF Legible
      <4> HIDE DEF z
      <4>3. QED
        BY <4>1, <4>2 DEF AllDigits
    <3>3. LimbIs(kind, num[j], z)
      BY <2>1
    <3>4. Back(kind, num[j]) = Padded(z, u)
      <4> HIDE DEF z
      <4>1. QED
        BY <1>2, <2>2, <3>2, <3>3 DEF LimbIs, IsNumber
    <3>5. QED
      BY <2>1, <3>4
  <2>4. ASSUME NEW k \in 1..4 * u PROVE out[k] = g[k]
    <3>1. PICK j \in 0..3, m \in 1..u : k = (3 - j) * u + m
      BY <2>1, Position
    <3>2. QED
      BY <2>3, <3>1
  <2>5. out = g
    BY <2>1, <2>4, SeqSame
  <2>6. QED
    BY <1>2, <2>5 DEF RoundTrip, g, u, Padded, IsNumber
<1>3. CASE IsNumber /\ ret = "ERR" /\ Len(input) > 4 * Unit /\ IsZero(num)
  BY <1>3 DEF RoundTrip, IsNumber
<1>4. CASE IsWord /\ ret = "OK" /\ Len(input) <= Width /\ WordIs(kind, order, num, input, out, written)
  <2> DEFINE w == Width
             g == Padded(input, w)
  <2>1. w \in Nat /\ w = IF kind = "u64" THEN W ELSE H
    BY LimbBaseIs DEF Width
  <2>2. num = SetWord(Load(g, order)) /\ out = g /\ written = U8ToHex(g)
    BY <1>4, <2>1 DEF WordIs
  <2>3. num[0] = Load(g, order)
    BY <2>2 DEF SetWord, Limbs
  <2>4. input \in Bytes
    BY <1>1, <1>4 DEF Bytes, Digits, IsWord
  <2>5. Load(g, order) = IF order = "little" THEN Number(Reverse(input), BB) * Power(BB, w - Len(input))
                         ELSE Number(input, BB)
    <3> HIDE DEF w
    <3>1. Len(input) <= w
      BY <1>4 DEF w
    <3>2. QED
      BY <2>1, <2>4, <3>1, WordBack
  <2>6. num[0] = IF order = "big" THEN Number(input, BB)
                 ELSE Number(Reverse(input), BB) * Power(BB, Width - Len(input))
    BY <1>1, <2>3, <2>5
  <2>7. QED
    BY <1>4, <2>2, <2>6 DEF RoundTrip, IsWord, Padded
<1>5. CASE IsWord /\ ret = "ERR" /\ Len(input) > Width /\ num = [k \in Limbs |-> LimbBase - 1]
  BY <1>5 DEF RoundTrip, IsWord
<1>6. QED
  BY <1>1, <1>2, <1>3, <1>4, <1>5 DEF DoneRight

LEMMA DamageKept == CodecInv => DamageIsLocal
<1> SUFFICES ASSUME CodecInv, pc = "done", kind = "hex", ret = "OK" PROVE DamageIsLocal
  BY DEF DamageIsLocal
<1> DEFINE u == Unit
           g == Padded(input, 4 * u)
<1>1. DoneRight /\ input \in Seq(Digits) /\ IsNumber /\ ~ IsWord
  BY DEF CodecInv, IsNumber, IsWord
<1>2. Len(input) <= 4 * Unit /\ Read(kind, num, input, 4) /\ out = Joined(kind, num)
  BY <1>1 DEF DoneRight
<1>3. /\ u \in Nat /\ u > 0 /\ u = 2 * W /\ W \in Nat /\ W > 0
  BY LimbBaseIs DEF Unit
<1>4. \A j \in 0..3, m \in 1..u :
        /\ LimbIs(kind, num[j], Slice(input, u, j * u))
        /\ out[(3 - j) * u + m] = Back(kind, num[j])[m]
        /\ g[(3 - j) * u + m] = Padded(Slice(input, u, j * u), u)[m]
  BY <1>1, <1>2, JoinedIs
<1>5. u = UnitOf(kind)
  BY DEF Unit, UnitOf
<1> HIDE DEF u, g
<1>6. ASSUME NEW k \in 1..2 * u, g[2 * k - 1] < D, g[2 * k] < D
      PROVE  out[2 * k - 1] = g[2 * k - 1] /\ out[2 * k] = g[2 * k]
  <2>1. k \in 1..4 * W
    BY <1>3
  <2>2. PICK j \in 0..3, m \in 1..W : k = (3 - j) * W + m
    BY <1>3, <2>1, Position
  <2> DEFINE e == (3 - j) * u
             z == Slice(input, u, j * u)
  <2>3. 2 * k = e + 2 * m /\ 2 * k - 1 = e + (2 * m - 1) /\ 2 * m \in 1..u /\ 2 * m - 1 \in 1..u
    <3>1. e = 2 * ((3 - j) * W) /\ (3 - j) * W \in Int
      BY <1>3
    <3> DEFINE x == (3 - j) * W
    <3> HIDE DEF x, e
    <3>2. QED
      BY <1>3, <2>2, <3>1 DEF x
  <2>4. /\ out[e + 2 * m] = Back(kind, num[j])[2 * m]
        /\ out[e + (2 * m - 1)] = Back(kind, num[j])[2 * m - 1]
        /\ g[e + 2 * m] = Padded(z, u)[2 * m]
        /\ g[e + (2 * m - 1)] = Padded(z, u)[2 * m - 1]
        /\ LimbIs(kind, num[j], z)
    BY <1>4, <2>3
  <2> HIDE DEF e, z
  <2>5. Padded(z, u)[2 * m - 1] < D /\ Padded(z, u)[2 * m] < D =>
          /\ Back(kind, num[j])[2 * m - 1] = Padded(z, u)[2 * m - 1]
          /\ Back(kind, num[j])[2 * m] = Padded(z, u)[2 * m]
    BY <1>5, <2>4 DEF LimbIs
  <2>6. QED
    BY <1>6, <2>3, <2>4, <2>5
<1>7. QED
  BY <1>6 DEF DamageIsLocal, g, u, Padded

LEMMA CompareKept == CodecInv => CompareRight
<1> SUFFICES ASSUME CodecInv, pc = "compared" PROVE CompareRight
  BY DEF CompareRight
<1>1. cmp = Cmp(num, other) /\ num \in Numbers /\ other \in Numbers
  BY DEF CodecInv, CodecTypeOK, Numbers
<1>2. QED
  BY <1>1, CmpRight DEF CompareRight

\* The invariant holds in every state: for digits and limbs of any size,
\* arrays of any length, and whatever lies behind inv_ascii_table.
THEOREM CodecInvariance == CodecSpec => []CodecInv
BY CodecInitInv, CodecNextInv, PTL DEF CodecSpec

\* At every step of the loop the limbs stand for the part of the array that
\* has been read, and no limb beyond the fourth is written (fp256.c:86-97,
\* 136-147), for digits and limbs of any size and arrays of any length.
THEOREM PartialNumberHolds == CodecSpec => []PartialNumber
BY CodecInvariance, PartialNumberKept, PTL

\* Numbers and words of either byte order come back as they were given, and
\* arrays that are too long are refused (common.c:67-195, fp256.c:75-163).
THEOREM RoundTripHolds == CodecSpec => []RoundTrip
BY CodecInvariance, RoundTripKept, PTL

\* Whatever lies behind inv_ascii_table, a character that is no digit spoils
\* no more than its own byte (common.c:211-230).
THEOREM DamageIsLocalHolds == CodecSpec => []DamageIsLocal
BY CodecInvariance, DamageKept, PTL

\* fp256_cmp orders limbs of any width as the numbers they are (fp256.h).
THEOREM CompareRightHolds == CodecSpec => []CompareRight
BY CodecInvariance, CompareKept, PTL
=============================================================================
