----------------------------- MODULE CurveProof -----------------------------
(***************************************************************************)
(* Proofs about Curve, for any odd prime field and any generator, whatever *)
(* sqr_mont, from_mont and mod_inverse return: up to the first call that   *)
(* comes upon an operand one of them is wrong for, what the routines       *)
(* compute is on the curve, and in terms of logarithms it is what          *)
(* PointMachine says, if the curve's points are a cyclic group under the   *)
(* affine group law.                                                       *)
(***************************************************************************)
EXTENDS Curve, TLAPS, WellFoundedInduction

----------------------------------------------------------------------------
(***************************************************************************)
(* Integers that are congruent modulo q.                                   *)
(***************************************************************************)
Cong(x, y) == \E m \in Int : x - y = q * m

\* The field's modulus.
LEMMA Modulus == q \in Nat /\ q > 7 /\ q % 2 = 1
BY CurveAssumption

\* A number is congruent to itself.
LEMMA CongRefl ==
  ASSUME NEW x \in Int
  PROVE  Cong(x, x)
<1>1. x - x = q * 0
  BY Modulus
<1>2. QED
  BY <1>1 DEF Cong

\* Congruence is symmetric.
LEMMA CongSym ==
  ASSUME NEW x \in Int, NEW y \in Int, Cong(x, y)
  PROVE  Cong(y, x)
<1>1. PICK m \in Int : x - y = q * m
  BY DEF Cong
<1>2. y - x = q * (-m) /\ -m \in Int
  BY <1>1, Modulus
<1>3. QED
  BY <1>2 DEF Cong

\* Congruence is transitive.
LEMMA CongTrans ==
  ASSUME NEW x \in Int, NEW y \in Int, NEW z \in Int, Cong(x, y), Cong(y, z)
  PROVE  Cong(x, z)
<1>1. PICK m \in Int : x - y = q * m
  BY DEF Cong
<1>2. PICK n \in Int : y - z = q * n
  BY DEF Cong
<1>3. x - z = q * (m + n) /\ m + n \in Int
  BY <1>1, <1>2, Modulus
<1>4. QED
  BY <1>3 DEF Cong

\* Sums of congruent numbers are congruent.
LEMMA CongAdd ==
  ASSUME NEW x \in Int, NEW y \in Int, NEW u \in Int, NEW v \in Int, Cong(x, y), Cong(u, v)
  PROVE  Cong(x + u, y + v)
<1>1. PICK m \in Int : x - y = q * m
  BY DEF Cong
<1>2. PICK n \in Int : u - v = q * n
  BY DEF Cong
<1>3. (x + u) - (y + v) = q * (m + n) /\ m + n \in Int
  BY <1>1, <1>2, Modulus
<1>4. QED
  BY <1>3 DEF Cong

\* Differences of congruent numbers are congruent.
LEMMA CongSub ==
  ASSUME NEW x \in Int, NEW y \in Int, NEW u \in Int, NEW v \in Int, Cong(x, y), Cong(u, v)
  PROVE  Cong(x - u, y - v)
<1>1. PICK m \in Int : x - y = q * m
  BY DEF Cong
<1>2. PICK n \in Int : u - v = q * n
  BY DEF Cong
<1>3. (x - u) - (y - v) = q * (m - n) /\ m - n \in Int
  BY <1>1, <1>2, Modulus
<1>4. QED
  BY <1>3 DEF Cong

\* Products of congruent numbers are congruent.
LEMMA CongMul ==
  ASSUME NEW x \in Int, NEW y \in Int, NEW u \in Int, NEW v \in Int, Cong(x, y), Cong(u, v)
  PROVE  Cong(x * u, y * v)
<1>1. PICK m \in Int : x - y = q * m
  BY DEF Cong
<1>2. PICK n \in Int : u - v = q * n
  BY DEF Cong
<1>3. (x * u) - (y * v) = ((x - y) * u) + (y * (u - v))
  OBVIOUS
<1>4. ((q * m) * u) + (y * (q * n)) = q * ((m * u) + (y * n)) /\ (m * u) + (y * n) \in Int
  BY Modulus
<1>5. QED
  BY <1>1, <1>2, <1>3, <1>4 DEF Cong

\* A multiple of a congruent number.
LEMMA CongTimes ==
  ASSUME NEW n \in Int, NEW x \in Int, NEW y \in Int, Cong(x, y)
  PROVE  Cong(n * x, n * y)
BY CongRefl, CongMul

\* What % is.
LEMMA DivMod ==
  ASSUME NEW x \in Int
  PROVE  x % q \in F /\ x \div q \in Int /\ x = (q * (x \div q)) + (x % q)
BY Modulus DEF F

\* The remainder is reduced, and congruent to the number.
LEMMA CongMod ==
  ASSUME NEW x \in Int
  PROVE  x % q \in F /\ x % q \in Int /\ Cong(x % q, x)
<1>1. x % q \in F /\ x \div q \in Int /\ x = (q * (x \div q)) + (x % q)
  BY DivMod
<1> DEFINE d == x \div q
           r == x % q
<1>2. d \in Int /\ r \in Int /\ x = (q * d) + r
  BY <1>1 DEF F
<1> HIDE DEF d, r
<1>3. r - x = q * (-d) /\ -d \in Int
  BY <1>2, Modulus
<1>4. Cong(r, x)
  BY <1>3 DEF Cong
<1>5. QED
  BY <1>1, <1>4 DEF r, F

\* A multiple of q that is less than q away from 0 is 0.
LEMMA SmallMultiple ==
  ASSUME NEW m \in Int, NEW d \in Int, d = q * m, d < q, -q < d
  PROVE  d = 0
BY Modulus

\* Reduced numbers that are congruent are equal.
LEMMA CongEqual ==
  ASSUME NEW x \in F, NEW y \in F, Cong(x, y)
  PROVE  x = y
<1>1. PICK m \in Int : x - y = q * m
  BY DEF Cong
<1>2. x - y \in Int /\ x - y < q /\ -q < x - y /\ x \in Int /\ y \in Int
  BY Modulus DEF F
<1>3. x - y = 0
  BY <1>1, <1>2, SmallMultiple
<1>4. QED
  BY <1>2, <1>3

\* Numbers are congruent exactly if their remainders are equal.
LEMMA CongRemainders ==
  ASSUME NEW x \in Int, NEW y \in Int
  PROVE  x % q = y % q <=> Cong(x, y)
<1>1. x % q \in F /\ x % q \in Int /\ Cong(x % q, x)
  BY CongMod
<1>2. y % q \in F /\ y % q \in Int /\ Cong(y % q, y)
  BY CongMod
<1>3. ASSUME x % q = y % q PROVE Cong(x, y)
  BY <1>1, <1>2, <1>3, CongSym, CongTrans
<1>4. ASSUME Cong(x, y) PROVE x % q = y % q
  <2>1. Cong(x % q, y)
    BY <1>1, <1>4, CongTrans
  <2>2. Cong(y, y % q)
    BY <1>2, CongSym
  <2>3. Cong(x % q, y % q)
    BY <1>1, <1>2, <2>1, <2>2, CongTrans
  <2>4. QED
    BY <1>1, <1>2, <2>3, CongEqual
<1>5. QED
  BY <1>3, <1>4

\* A reduced number is its own remainder.
LEMMA Reduced ==
  ASSUME NEW x \in F
  PROVE  x % q = x /\ x \in Int
BY Modulus DEF F

\* q is odd: a congruence of doubles is one of the numbers.
LEMMA CongHalves ==
  ASSUME NEW x \in Int, NEW y \in Int, Cong(2 * x, 2 * y)
  PROVE  Cong(x, y)
<1>1. PICK m \in Int : (2 * x) - (2 * y) = q * m
  BY DEF Cong
<1>2. PICK n \in Int : q = (2 * n) + 1
  BY Modulus
<1> DEFINE d == x - y
<1>3. d \in Int /\ 2 * d = q * m
  BY <1>1
<1> HIDE DEF d
<1>4. m = 2 * (d - (n * m))
  <2>1. q * m = (2 * (n * m)) + m /\ n * m \in Int
    BY <1>2
  <2>2. QED
    BY <1>3, <2>1
<1> DEFINE e == d - (n * m)
<1>5. e \in Int /\ m = 2 * e
  BY <1>3, <1>4
<1> HIDE DEF e
<1>6. 2 * d = 2 * (q * e) /\ q * e \in Int
  <2>1. q * m = 2 * (q * e) /\ q * e \in Int
    BY <1>5, Modulus
  <2>2. QED
    BY <1>3, <2>1
<1>7. d = q * e
  BY <1>3, <1>6
<1>8. QED
  BY <1>5, <1>7 DEF d, Cong

----------------------------------------------------------------------------
(***************************************************************************)
(* The operations of the field compute those of the integers modulo q.     *)
(***************************************************************************)
\* Products.
LEMMA MulIs ==
  ASSUME NEW x \in Int, NEW y \in Int
  PROVE  x ** y \in F /\ x ** y \in Int /\ Cong(x ** y, x * y)
<1>1. x * y \in Int
  OBVIOUS
<1>2. QED
  BY <1>1, CongMod DEF **

\* Differences.
LEMMA SubIs ==
  ASSUME NEW x \in Int, NEW y \in Int
  PROVE  x -- y \in F /\ x -- y \in Int /\ Cong(x -- y, x - y)
<1>1. x - y \in Int
  OBVIOUS
<1>2. QED
  BY <1>1, CongMod DEF --

\* Squares.
LEMMA SquareIs ==
  ASSUME NEW x \in Int
  PROVE  Square(x) \in F /\ Square(x) \in Int /\ Cong(Square(x), x * x)
BY MulIs DEF Square

\* Cubes.
LEMMA CubedIs ==
  ASSUME NEW x \in Int
  PROVE  Cubed(x) \in F /\ Cubed(x) \in Int /\ Cong(Cubed(x), x * (x * x))
<1> DEFINE s == Square(x)
           t == x * x
<1>1. s \in Int /\ Cong(s, t) /\ t \in Int
  BY SquareIs
<1>2. Cubed(x) = x ** s
  BY DEF Cubed
<1> HIDE DEF s, t
<1>3. Cubed(x) \in F /\ Cubed(x) \in Int /\ Cong(Cubed(x), x * s)
  BY <1>1, <1>2, MulIs
<1>4. Cong(x * s, x * t)
  BY <1>1, CongTimes
<1>5. x * s \in Int /\ x * t \in Int
  BY <1>1
<1>6. Cong(Cubed(x), x * t)
  BY <1>3, <1>4, <1>5, CongTrans
<1>7. QED
  BY <1>3, <1>6 DEF t

\* Halves.
LEMMA HalfIs ==
  ASSUME NEW x \in F, NEW y \in Int, Cong(x, 2 * y)
  PROVE  Half(x) \in F /\ Half(x) \in Int /\ Cong(Half(x), y)
<1>1. /\ Half(x) \in F /\ Half(x) \in Int
      /\ 2 * Half(x) = x \/ 2 * Half(x) = x + q
  BY Modulus DEF Half, F
<1>2. Cong(2 * Half(x), x)
  <2>1. (2 * Half(x)) - x = q * 0 \/ (2 * Half(x)) - x = q * 1
    BY <1>1, Modulus DEF F
  <2>2. QED
    BY <2>1 DEF Cong
<1>3. Cong(2 * Half(x), 2 * y)
  <2>1. 2 * Half(x) \in Int /\ x \in Int /\ 2 * y \in Int
    BY <1>1 DEF F
  <2>2. QED
    BY <1>2, <2>1, CongTrans
<1>4. QED
  BY <1>1, <1>3, CongHalves

\* Inverses.
LEMMA InverseIs ==
  ASSUME NEW z \in F, z # 0
  PROVE  Reciprocal[z] \in F /\ Reciprocal[z] \in Int /\ Cong(z * Reciprocal[z], 1)
<1>1. z \in 1..q - 1 /\ z \in Int
  BY DEF F
<1>2. \E w \in F : z ** w = 1
  BY <1>1, FieldAssumption
<1>3. Reciprocal[z] = CHOOSE w \in F : z ** w = 1
  BY <1>1 DEF Reciprocal
<1>4. Reciprocal[z] \in F /\ z ** Reciprocal[z] = 1
  BY <1>2, <1>3
<1> DEFINE w == Reciprocal[z]
<1>5. w \in F /\ w \in Int /\ z ** w = 1
  BY <1>4 DEF F
<1> HIDE DEF w
<1>6. Cong(1, z * w) /\ z * w \in Int
  BY <1>1, <1>5, MulIs
<1>7. Cong(z * w, 1)
  BY <1>6, CongSym
<1>8. QED
  BY <1>5, <1>7 DEF w

\* A reduced number is congruent to 0 only if it is 0.
LEMMA CongZero ==
  ASSUME NEW x \in F, Cong(x, 0)
  PROVE  x = 0
<1>1. 0 \in F
  BY Modulus DEF F
<1>2. QED
  BY <1>1, CongEqual

\* A factor that is not 0 can be cancelled.
LEMMA CongCancel ==
  ASSUME NEW x \in Int, NEW y \in Int, NEW z \in F, z # 0, Cong(x * z, y * z)
  PROVE  Cong(x, y)
<1> DEFINE w == Reciprocal[z]
<1>1. w \in Int /\ Cong(z * w, 1) /\ z \in Int
  BY InverseIs DEF F
<1> HIDE DEF w
<1> DEFINE u == x * z
           v == y * z
           e == z * w
<1>2. u \in Int /\ v \in Int /\ e \in Int /\ Cong(u, v) /\ Cong(e, 1) /\ Cong(w, w)
  BY <1>1, CongRefl
<1>3. u * w = x * e /\ v * w = y * e /\ x * 1 = x /\ y * 1 = y /\ 1 \in Int
  BY <1>1
<1> HIDE DEF u, v, e
<1>4. Cong(u * w, v * w)
  BY <1>1, <1>2, CongMul
<1>5. Cong(x * e, x * 1) /\ Cong(y * e, y * 1)
  BY <1>2, <1>3, CongTimes
<1>6. x * e \in Int /\ y * e \in Int /\ Cong(x * e, y * e) /\ Cong(x * e, x) /\ Cong(y * e, y)
  BY <1>2, <1>3, <1>4, <1>5
<1>7. Cong(x, x * e)
  BY <1>6, CongSym
<1>8. Cong(x, y * e)
  BY <1>6, <1>7, CongTrans
<1>9. QED
  BY <1>6, <1>8, CongTrans

\* There are no divisors of 0.
LEMMA NoZeroDivisors ==
  ASSUME NEW x \in F, NEW y \in F, Cong(x * y, 0)
  PROVE  x = 0 \/ y = 0
<1> SUFFICES ASSUME y # 0 PROVE x = 0
  OBVIOUS
<1>1. x \in Int /\ y \in Int /\ 0 * y = 0
  BY DEF F
<1>2. Cong(x, 0)
  BY <1>1, CongCancel
<1>3. QED
  BY <1>2, CongZero

\* A product of residues that are not 0 is not 0.
LEMMA MulNotZero ==
  ASSUME NEW x \in F, NEW y \in F
  PROVE  x ** y = 0 <=> x = 0 \/ y = 0
<1>1. x \in Int /\ y \in Int /\ x * y \in Int
  BY DEF F
<1>2. x ** y \in Int /\ Cong(x ** y, x * y)
  BY <1>1, MulIs
<1>3. ASSUME x ** y = 0 PROVE x = 0 \/ y = 0
  <2>1. Cong(x * y, 0)
    BY <1>1, <1>2, <1>3, CongSym
  <2>2. QED
    BY <2>1, NoZeroDivisors
<1>4. ASSUME x = 0 \/ y = 0 PROVE x ** y = 0
  <2>1. x * y = 0
    BY <1>1, <1>4
  <2>2. QED
    BY <2>1, Modulus DEF **
<1>5. QED
  BY <1>3, <1>4

\* The difference of residues is 0 exactly if they are equal.
LEMMA SubZero ==
  ASSUME NEW x \in F, NEW y \in F
  PROVE  x -- y = 0 <=> x = y
<1>1. x \in Int /\ y \in Int /\ 0 \in Int /\ 0 % q = 0 /\ x - y \in Int
  BY Modulus DEF F
<1>2. x -- y = 0 <=> Cong(x - y, 0)
  BY <1>1, CongRemainders DEF --
<1>3. ASSUME Cong(x - y, 0) PROVE x = y
  <2>1. PICK m \in Int : (x - y) - 0 = q * m
    BY <1>3 DEF Cong
  <2>2. x - y = q * m
    BY <1>1, <2>1
  <2>3. QED
    BY <2>2, CongEqual DEF Cong
<1>4. ASSUME x = y PROVE Cong(x - y, 0)
  <2>1. x - y = 0
    BY <1>1, <1>4
  <2>2. QED
    BY <2>1, CongRefl
<1>5. QED
  BY <1>2, <1>3, <1>4

\* Congruent factors.
LEMMA MulCong ==
  ASSUME NEW x \in Int, NEW y \in Int, NEW s \in Int, NEW t \in Int, Cong(x, s), Cong(y, t)
  PROVE  x ** y \in F /\ x ** y \in Int /\ s * t \in Int /\ Cong(x ** y, s * t)
<1> DEFINE m == x ** y
           n == x * y
           o == s * t
<1>1. m \in F /\ m \in Int /\ Cong(m, n)
  BY MulIs
<1>2. Cong(n, o) /\ n \in Int /\ o \in Int
  BY CongMul
<1> HIDE DEF m, n, o
<1>3. Cong(m, o)
  BY <1>1, <1>2, CongTrans
<1>4. QED
  BY <1>1, <1>2, <1>3 DEF m, o

\* Congruent operands of a difference.
LEMMA SubCong ==
  ASSUME NEW x \in Int, NEW y \in Int, NEW s \in Int, NEW t \in Int, Cong(x, s), Cong(y, t)
  PROVE  x -- y \in F /\ x -- y \in Int /\ s - t \in Int /\ Cong(x -- y, s - t)
<1> DEFINE m == x -- y
           n == x - y
           o == s - t
<1>1. m \in F /\ m \in Int /\ Cong(m, n)
  BY SubIs
<1>2. Cong(n, o) /\ n \in Int /\ o \in Int
  BY CongSub
<1> HIDE DEF m, n, o
<1>3. Cong(m, o)
  BY <1>1, <1>2, CongTrans
<1>4. QED
  BY <1>1, <1>2, <1>3 DEF m, o

\* Squares of congruent numbers.
LEMMA SquareCong ==
  ASSUME NEW x \in Int, NEW s \in Int, Cong(x, s)
  PROVE  Square(x) \in F /\ Square(x) \in Int /\ s * s \in Int /\ Cong(Square(x), s * s)
BY MulCong DEF Square

\* Cubes of congruent numbers.
LEMMA CubedCong ==
  ASSUME NEW x \in Int, NEW s \in Int, Cong(x, s)
  PROVE  /\ Cubed(x) \in F /\ Cubed(x) \in Int /\ s * (s * s) \in Int
         /\ Cong(Cubed(x), s * (s * s))
<1> DEFINE m == Square(x)
           n == s * s
<1>1. m \in Int /\ n \in Int /\ Cong(m, n)
  BY SquareCong
<1>2. Cubed(x) = x ** m
  BY DEF Cubed
<1> HIDE DEF m, n
<1>3. x ** m \in F /\ x ** m \in Int /\ s * n \in Int /\ Cong(x ** m, s * n)
  BY <1>1, MulCong
<1>4. QED
  BY <1>2, <1>3 DEF n

\* Numerals below q.
LEMMA Numerals ==
  /\ 0 \in Int /\ 1 \in Int /\ 2 \in Int /\ 3 \in Int /\ 7 \in Int
  /\ 0 \in F /\ 1 \in F /\ 2 \in F /\ 3 \in F /\ 7 \in F
  /\ Cong(0, 0) /\ Cong(1, 1) /\ Cong(2, 2) /\ Cong(3, 3) /\ Cong(7, 7)
BY Modulus, CongRefl DEF F

----------------------------------------------------------------------------
(***************************************************************************)
(* The curve's equation.                                                   *)
(***************************************************************************)
\* x^3 + 7 z^6 of integers
Cubic(x, z) == (x * (x * x)) + (7 * ((z * (z * z)) * (z * (z * z))))

Equation(x, y, z) == Cong(y * y, Cubic(x, z))

\* The right side is a number.
LEMMA CubicInt ==
  ASSUME NEW x \in Int, NEW z \in Int
  PROVE  Cubic(x, z) \in Int
BY DEF Cubic

\* The right side is a number that respects congruence.
LEMMA CubicCong ==
  ASSUME NEW x \in Int, NEW z \in Int, NEW u \in Int, NEW w \in Int, Cong(x, u), Cong(z, w)
  PROVE  Cubic(x, z) \in Int /\ Cubic(u, w) \in Int /\ Cong(Cubic(x, z), Cubic(u, w))
<1> DEFINE x3 == x * (x * x)
           u3 == u * (u * u)
           z3 == z * (z * z)
           w3 == w * (w * w)
<1>1. Cong(x3, u3) /\ x3 \in Int /\ u3 \in Int
  <2>1. Cong(x * x, u * u) /\ x * x \in Int /\ u * u \in Int
    BY CongMul
  <2>2. QED
    BY <2>1, CongMul
<1>2. Cong(z3, w3) /\ z3 \in Int /\ w3 \in Int
  <2>1. Cong(z * z, w * w) /\ z * z \in Int /\ w * w \in Int
    BY CongMul
  <2>2. QED
    BY <2>1, CongMul
<1>3. Cubic(x, z) = x3 + (7 * (z3 * z3)) /\ Cubic(u, w) = u3 + (7 * (w3 * w3))
  BY DEF Cubic
<1> HIDE DEF x3, u3, z3, w3
<1> DEFINE z6 == z3 * z3
           w6 == w3 * w3
<1>4. Cong(z6, w6) /\ z6 \in Int /\ w6 \in Int
  BY <1>2, CongMul
<1> HIDE DEF z6, w6
<1> DEFINE z7 == 7 * z6
           w7 == 7 * w6
<1>5. Cong(z7, w7) /\ z7 \in Int /\ w7 \in Int
  BY <1>4, Numerals, CongMul
<1> HIDE DEF z7, w7
<1>6. Cong(x3 + z7, u3 + w7) /\ x3 + z7 \in Int /\ u3 + w7 \in Int
  BY <1>1, <1>5, CongAdd
<1>7. QED
  BY <1>3, <1>6 DEF z6, w6, z7, w7

\* So does the equation.
LEMMA EquationCong ==
  ASSUME NEW x \in Int, NEW y \in Int, NEW z \in Int,
         NEW u \in Int, NEW v \in Int, NEW w \in Int,
         Cong(x, u), Cong(y, v), Cong(z, w), Equation(u, v, w)
  PROVE  Equation(x, y, z)
<1> DEFINE l == y * y
           m == v * v
           n == Cubic(u, w)
           o == Cubic(x, z)
<1>1. Cong(l, m) /\ l \in Int /\ m \in Int
  BY CongMul
<1>2. Cong(o, n) /\ n \in Int /\ o \in Int
  BY CubicCong
<1>3. Cong(m, n)
  BY DEF Equation
<1> HIDE DEF l, m, n, o
<1>4. Cong(n, o)
  BY <1>2, CongSym
<1>5. Cong(l, o)
  BY <1>1, <1>2, <1>3, <1>4, CongTrans
<1>6. QED
  BY <1>5 DEF l, o, Equation

\* The field's form of the equation, as the code tests it.
LEMMA EquationIs ==
  ASSUME NEW x \in F, NEW y \in F, NEW z \in F
  PROVE  Square(y) = (Cubed(x) + (7 ** Square(Cubed(z)))) % q <=> Equation(x, y, z)
<1> DEFINE l == Square(y)
           c == Cubed(z)
           d == Square(c)
           e == 7 ** d
           r == Cubed(x)
           z3 == z * (z * z)
           z6 == z3 * z3
           x3 == x * (x * x)
           m == y * y
<1>1. x \in Int /\ y \in Int /\ z \in Int /\ Cong(x, x) /\ Cong(y, y) /\ Cong(z, z)
  BY CongRefl DEF F
<1>2. l \in F /\ l \in Int /\ m \in Int /\ Cong(l, m)
  BY <1>1, SquareCong
<1>3. c \in Int /\ z3 \in Int /\ Cong(c, z3)
  BY <1>1, CubedCong
<1>4. r \in Int /\ x3 \in Int /\ Cong(r, x3)
  BY <1>1, CubedCong
<1>5. Cubic(x, z) = x3 + (7 * z6)
  BY DEF Cubic
<1> HIDE DEF l, c, r, z3, x3, m
<1>6. d \in Int /\ z6 \in Int /\ Cong(d, z6)
  BY <1>3, SquareCong
<1> HIDE DEF d, z6
<1> DEFINE z7 == 7 * z6
<1>7. e \in Int /\ z7 \in Int /\ Cong(e, z7)
  BY <1>6, Numerals, MulCong
<1> HIDE DEF e, z7
<1> DEFINE n == r + e
           o == x3 + z7
<1>8. n \in Int /\ o \in Int /\ Cong(n, o)
  BY <1>4, <1>7, CongAdd
<1> HIDE DEF n, o
<1>9. l = n % q <=> Cong(l, n)
  BY <1>2, <1>8, Reduced, CongRemainders
<1>10. Cong(l, n) <=> Cong(m, o)
  <2>1. Cong(m, l) /\ Cong(o, n)
    BY <1>2, <1>8, CongSym
  <2>2. ASSUME Cong(l, n) PROVE Cong(m, o)
    <3>1. Cong(m, n)
      BY <1>2, <1>8, <2>1, <2>2, CongTrans
    <3>2. QED
      BY <1>2, <1>8, <3>1, CongTrans
  <2>3. ASSUME Cong(m, o) PROVE Cong(l, n)
    <3>1. Cong(l, o)
      BY <1>2, <1>8, <2>3, CongTrans
    <3>2. QED
      BY <1>2, <1>8, <2>1, <3>1, CongTrans
  <2>4. QED
    BY <2>2, <2>3
<1>11. QED
  BY <1>5, <1>9, <1>10 DEF l, n, r, e, d, c, m, o, z7, Equation

----------------------------------------------------------------------------
(***************************************************************************)
(* Doubling and the sum by the chord, as polynomials over the integers.    *)
(***************************************************************************)
DblM(x) == 3 * (x * x)
DblS(x, y) == ((2 * y) * (2 * y)) * x
DblX(x, y) == (DblM(x) * DblM(x)) - (2 * DblS(x, y))
DblV(y) == 8 * ((y * y) * (y * y))
DblY(x, y) == ((DblS(x, y) - DblX(x, y)) * DblM(x)) - DblV(y)
DblZ(y, z) == 2 * (z * y)

\* What the code computes is what the polynomials say.
LEMMA DblIs ==
  ASSUME NEW x \in F, NEW y \in F, NEW z \in F, DblExact(<<x, y, z>>)
  PROVE  LET d == JacobianDbl(<<x, y, z>>)
         IN  /\ d = <<d[1], d[2], d[3]>> /\ d[1] \in F /\ d[2] \in F /\ d[3] \in F
             /\ DblX(x, y) \in Int /\ DblY(x, y) \in Int /\ DblZ(y, z) \in Int
             /\ DblM(x) \in Int /\ DblS(x, y) \in Int /\ DblV(y) \in Int
             /\ Cong(d[1], DblX(x, y)) /\ Cong(d[2], DblY(x, y)) /\ Cong(d[3], DblZ(y, z))
<1> DEFINE yy == 2 ** y
           y2 == Square(yy)
           x2 == Square(x)
           m  == 3 ** x2
           s  == y2 ** x
           mm == Square(m)
           ss == 2 ** s
           x3 == mm -- ss
           l  == s -- x3
           lm == l ** m
           y4 == Square(y2)
           h  == Half(y4)
           y3 == lm -- h
           zy == z ** y
           z3 == 2 ** zy
<1> DEFINE d == JacobianDbl(<<x, y, z>>)
<1>1. d = <<x3, y3, z3>>
  <2>1. Sqr(x) = x2 /\ Sqr(yy) = y2
    BY DEF DblExact, Squares, Square
  <2>2. Sqr(y2) = y4 /\ Sqr(m) = mm
    BY <2>1 DEF DblExact, Squares, Square
  <2>3. QED
    BY <2>1, <2>2 DEF JacobianDbl
<1>2. x \in Int /\ y \in Int /\ z \in Int /\ Cong(x, x) /\ Cong(y, y) /\ Cong(z, z)
  BY CongRefl DEF F
<1> HIDE DEF d
<1> DEFINE iyy == 2 * y
<1>3. yy \in Int /\ iyy \in Int /\ Cong(yy, iyy)
  BY <1>2, Numerals, MulCong
<1> HIDE DEF yy, iyy
<1> DEFINE iy2 == iyy * iyy
<1>4. y2 \in Int /\ iy2 \in Int /\ Cong(y2, iy2)
  BY <1>3, SquareCong
<1> HIDE DEF y2
<1> DEFINE ix2 == x * x
<1>5. x2 \in Int /\ ix2 \in Int /\ Cong(x2, ix2)
  BY <1>2, SquareCong
<1> HIDE DEF x2
<1>6. DblM(x) = 3 * ix2
  BY DEF DblM
<1> HIDE DEF ix2
<1>7. m \in Int /\ DblM(x) \in Int /\ Cong(m, DblM(x))
  BY <1>5, <1>6, Numerals, MulCong
<1> HIDE DEF m
<1>8. DblS(x, y) = iy2 * x
  BY DEF DblS, iyy
<1>9. DblV(y) \in Int /\ iy2 * iy2 = 2 * DblV(y)
  <2>1. (2 * y) * (2 * y) = 4 * (y * y) /\ y * y \in Int
    BY <1>2
  <2> DEFINE w == y * y
  <2>2. w \in Int /\ iy2 = 4 * w /\ DblV(y) = 8 * (w * w)
    BY <2>1 DEF iyy, DblV
  <2> HIDE DEF w, iy2
  <2>3. QED
    BY <2>2
<1> HIDE DEF iy2
<1>10. s \in Int /\ DblS(x, y) \in Int /\ Cong(s, DblS(x, y))
  BY <1>2, <1>4, <1>8, MulCong
<1> HIDE DEF s
<1> DEFINE M == DblM(x)
           S == DblS(x, y)
           V == DblV(y)
           X == DblX(x, y)
<1>11. X = (M * M) - (2 * S) /\ DblY(x, y) = ((S - X) * M) - V /\ DblZ(y, z) = 2 * (z * y)
  BY DEF DblX, DblY, DblZ
<1> HIDE DEF M, S, V, X
<1>12. m \in Int /\ s \in Int /\ M \in Int /\ S \in Int /\ Cong(m, M) /\ Cong(s, S)
  BY <1>7, <1>10 DEF M, S
<1> DEFINE iMM == M * M
           iSS == 2 * S
<1>13. mm \in Int /\ iMM \in Int /\ Cong(mm, iMM)
  BY <1>12, SquareCong
<1>14. ss \in Int /\ iSS \in Int /\ Cong(ss, iSS)
  BY <1>12, Numerals, MulCong
<1> HIDE DEF mm, ss, iMM, iSS
<1>15. X = iMM - iSS
  BY <1>11 DEF iMM, iSS
<1>16. x3 \in F /\ x3 \in Int /\ X \in Int /\ Cong(x3, X)
  BY <1>13, <1>14, <1>15, SubCong
<1> HIDE DEF x3
<1> DEFINE iL == S - X
<1>17. l \in Int /\ iL \in Int /\ Cong(l, iL)
  BY <1>12, <1>16, SubCong
<1> HIDE DEF l, iL
<1> DEFINE iLM == iL * M
<1>18. lm \in Int /\ iLM \in Int /\ Cong(lm, iLM)
  BY <1>12, <1>17, MulCong
<1> HIDE DEF lm
<1> DEFINE iy4 == iy2 * iy2
<1>19. y4 \in F /\ y4 \in Int /\ iy4 \in Int /\ Cong(y4, iy4)
  BY <1>4, SquareCong
<1> HIDE DEF y4, iy4
<1>20. h \in Int /\ V \in Int /\ Cong(h, V)
  <2>1. V \in Int /\ iy4 = 2 * V
    BY <1>9 DEF V, iy4
  <2>2. Cong(y4, 2 * V)
    BY <1>19, <2>1
  <2>3. QED
    BY <1>19, <2>1, <2>2, HalfIs
<1> HIDE DEF h
<1>21. DblY(x, y) = iLM - V
  BY <1>11 DEF iLM, iL
<1> HIDE DEF iLM
<1>22. y3 \in F /\ DblY(x, y) \in Int /\ Cong(y3, DblY(x, y))
  BY <1>18, <1>20, <1>21, SubCong
<1> HIDE DEF y3
<1> DEFINE izy == z * y
<1>23. zy \in Int /\ izy \in Int /\ Cong(zy, izy)
  BY <1>2, MulCong
<1> HIDE DEF zy, izy
<1>24. DblZ(y, z) = 2 * izy
  BY <1>11 DEF izy
<1>25. z3 \in F /\ DblZ(y, z) \in Int /\ Cong(z3, DblZ(y, z))
  BY <1>23, <1>24, Numerals, MulCong
<1> HIDE DEF z3
<1>26. d[1] = x3 /\ d[2] = y3 /\ d[3] = z3
  BY <1>1
<1>27. QED
  BY <1>1, <1>7, <1>10, <1>16, <1>20, <1>22, <1>25, <1>26 DEF d, M, S, V, X

\* The identity behind doubling.
LEMMA DblIdentity ==
  ASSUME NEW x \in Int, NEW y \in Int, NEW z \in Int
  PROVE  (DblY(x, y) * DblY(x, y)) - Cubic(DblX(x, y), DblZ(y, z))
           = (64 * ((y * y) * ((y * y) * (y * y)))) * ((y * y) - Cubic(x, z))
BY DEF DblX, DblY, DblZ, DblM, DblS, DblV, Cubic

\* Doubling stays on the curve, also at infinity.
LEMMA DblOnCurve ==
  ASSUME NEW x \in Int, NEW y \in Int, NEW z \in Int, Equation(x, y, z),
         DblX(x, y) \in Int, DblY(x, y) \in Int, DblZ(y, z) \in Int
  PROVE  Equation(DblX(x, y), DblY(x, y), DblZ(y, z))
<1> DEFINE l == y * y
           c == Cubic(x, z)
           w == 64 * (l * (l * l))
           L == DblY(x, y) * DblY(x, y)
           C == Cubic(DblX(x, y), DblZ(y, z))
<1>1. l \in Int /\ c \in Int /\ L \in Int /\ C \in Int
  <2>1. c \in Int /\ C \in Int
    BY CubicInt
  <2>2. QED
    BY <2>1
<1>2. L - C = w * (l - c)
  BY DblIdentity
<1>3. PICK m \in Int : l - c = q * m
  BY DEF Equation, Cong
<1> HIDE DEF l, c, L, C
<1>4. w \in Int
  BY <1>1
<1> HIDE DEF w
<1>5. w * (l - c) = q * (w * m) /\ w * m \in Int
  BY <1>3, <1>4, Modulus
<1>6. QED
  BY <1>2, <1>5 DEF L, C, Equation, Cong

ChS(u, h) == u * (h * h)
ChC(h) == h * (h * h)
ChX(u, h, r) == ((r * r) - (2 * ChS(u, h))) - ChC(h)
ChV(v, h) == v * ChC(h)
ChY(u, v, h, r) == (r * (ChS(u, h) - ChX(u, h, r))) - ChV(v, h)
ChZ(h, z) == h * z

\* What the code computes is what the polynomials say.
LEMMA ChordIs ==
  ASSUME NEW u \in F, NEW v \in F, NEW h \in F, NEW r \in F, NEW z \in F, Squares({h, r})
  PROVE  LET d == Chord(u, v, h, r, z)
         IN  /\ d = <<d[1], d[2], d[3]>> /\ d[1] \in F /\ d[2] \in F /\ d[3] \in F
             /\ ChX(u, h, r) \in Int /\ ChY(u, v, h, r) \in Int /\ ChZ(h, z) \in Int
             /\ ChS(u, h) \in Int /\ ChC(h) \in Int /\ ChV(v, h) \in Int
             /\ Cong(d[1], ChX(u, h, r)) /\ Cong(d[2], ChY(u, v, h, r)) /\ Cong(d[3], ChZ(h, z))
<1> DEFINE h2 == Square(h)
           s  == u ** h2
           ss == 2 ** s
           r2 == Square(r)
           h3 == Cubed(h)
           f  == r2 -- ss
           x3 == f -- h3
           l  == s -- x3
           rl == r ** l
           w  == v ** h3
           y3 == rl -- w
           z3 == h ** z
           d  == Chord(u, v, h, r, z)
<1>1. d = <<x3, y3, z3>>
  <2>1. Sqr(h) = h2 /\ Sqr(r) = r2
    BY DEF Squares, Square
  <2>2. QED
    BY <2>1 DEF Chord, Cube, Cubed
<1>2. /\ u \in Int /\ v \in Int /\ h \in Int /\ r \in Int /\ z \in Int
      /\ Cong(u, u) /\ Cong(v, v) /\ Cong(h, h) /\ Cong(r, r) /\ Cong(z, z)
  BY CongRefl DEF F
<1> HIDE DEF d
<1> DEFINE ih2 == h * h
           S == ChS(u, h)
           C == ChC(h)
           X == ChX(u, h, r)
           V == ChV(v, h)
<1>3. h2 \in Int /\ ih2 \in Int /\ Cong(h2, ih2)
  BY <1>2, SquareCong
<1>4. S = u * ih2 /\ C = h * ih2 /\ V = v * C
  BY DEF ChS, ChC, ChV
<1>5. X = ((r * r) - (2 * S)) - C /\ ChY(u, v, h, r) = (r * (S - X)) - V /\ ChZ(h, z) = h * z
  BY DEF ChX, ChY, ChZ
<1>6. h3 \in Int /\ h * ih2 \in Int /\ Cong(h3, h * ih2)
  BY <1>2, CubedCong
<1> HIDE DEF h2, ih2, h3, S, C, X, V
<1>7. C \in Int /\ Cong(h3, C)
  BY <1>4, <1>6
<1>8. s \in Int /\ S \in Int /\ Cong(s, S)
  BY <1>2, <1>3, <1>4, MulCong
<1> HIDE DEF s
<1> DEFINE iSS == 2 * S
           iR2 == r * r
<1>9. ss \in Int /\ iSS \in Int /\ Cong(ss, iSS)
  BY <1>8, Numerals, MulCong
<1>10. r2 \in Int /\ iR2 \in Int /\ Cong(r2, iR2)
  BY <1>2, SquareCong
<1>11. X = (iR2 - iSS) - C
  BY <1>5
<1> HIDE DEF ss, iSS, r2, iR2
<1> DEFINE if == iR2 - iSS
<1>12. f \in Int /\ if \in Int /\ Cong(f, if)
  BY <1>9, <1>10, SubCong
<1> HIDE DEF f, if
<1>13. X = if - C
  BY <1>11 DEF if
<1>14. x3 \in F /\ x3 \in Int /\ X \in Int /\ Cong(x3, X)
  BY <1>6, <1>7, <1>12, <1>13, SubCong
<1> HIDE DEF x3
<1> DEFINE iL == S - X
<1>15. l \in Int /\ iL \in Int /\ Cong(l, iL)
  BY <1>8, <1>14, SubCong
<1> HIDE DEF l, iL
<1> DEFINE iRL == r * iL
<1>16. rl \in Int /\ iRL \in Int /\ Cong(rl, iRL)
  BY <1>2, <1>15, MulCong
<1> HIDE DEF rl, iRL
<1>17. w \in Int /\ V \in Int /\ Cong(w, V)
  BY <1>2, <1>4, <1>6, <1>7, MulCong
<1> HIDE DEF w
<1>18. ChY(u, v, h, r) = iRL - V
  BY <1>5 DEF iRL, iL
<1>19. y3 \in F /\ ChY(u, v, h, r) \in Int /\ Cong(y3, ChY(u, v, h, r))
  BY <1>16, <1>17, <1>18, SubCong
<1> HIDE DEF y3
<1>20. z3 \in F /\ ChZ(h, z) \in Int /\ Cong(z3, ChZ(h, z))
  BY <1>2, <1>5, MulCong
<1> HIDE DEF z3
<1>21. d[1] = x3 /\ d[2] = y3 /\ d[3] = z3
  BY <1>1
<1>22. QED
  BY <1>1, <1>7, <1>8, <1>14, <1>17, <1>19, <1>20, <1>21 DEF d, S, C, V, X

\* The identity behind the sum by the chord.
LEMMA ChordIdentity ==
  ASSUME NEW u \in Int, NEW v \in Int, NEW h \in Int, NEW r \in Int, NEW z \in Int
  PROVE  (ChY(u, v, h, r) * ChY(u, v, h, r)) - Cubic(ChX(u, h, r), ChZ(h, z))
           = ((ChC(h) * ChC(h)) * ((v * v) - Cubic(u, z)))
             - ((ChC(h) * (ChS(u, h) - ChX(u, h, r)))
                * ((((v + r) * (v + r)) - Cubic(u + h, z)) - ((v * v) - Cubic(u, z))))
BY DEF ChX, ChY, ChZ, ChS, ChC, ChV, Cubic

\* The sum by the chord is on the curve if the two points are, over their
\* common Z.
LEMMA ChordOnCurve ==
  ASSUME NEW u \in Int, NEW v \in Int, NEW h \in Int, NEW r \in Int, NEW z \in Int,
         ChX(u, h, r) \in Int, ChY(u, v, h, r) \in Int, ChZ(h, z) \in Int,
         ChC(h) \in Int, ChS(u, h) \in Int,
         Equation(u, v, z), Equation(u + h, v + r, z)
  PROVE  Equation(ChX(u, h, r), ChY(u, v, h, r), ChZ(h, z))
<1> DEFINE c == ChC(h) * ChC(h)
           e == ChC(h) * (ChS(u, h) - ChX(u, h, r))
           d1 == (v * v) - Cubic(u, z)
           d2 == ((v + r) * (v + r)) - Cubic(u + h, z)
           D == (ChY(u, v, h, r) * ChY(u, v, h, r)) - Cubic(ChX(u, h, r), ChZ(h, z))
<1>1. D = (c * d1) - (e * (d2 - d1))
  BY ChordIdentity
<1>2. c \in Int /\ e \in Int
  OBVIOUS
<1>3. PICK m \in Int : d1 = q * m
  BY DEF Equation, Cong
<1>4. PICK n \in Int : d2 = q * n
  BY DEF Equation, Cong
<1> HIDE DEF c, e, d1, d2, D
<1>5. D = q * ((c * m) - (e * (n - m))) /\ (c * m) - (e * (n - m)) \in Int
  BY <1>1, <1>2, <1>3, <1>4, Modulus
<1>6. QED
  BY <1>5 DEF D, Equation, Cong

\* The same point over another Z.
LEMMA Scale ==
  ASSUME NEW x \in Int, NEW y \in Int, NEW z \in Int, NEW w \in Int, Equation(x, y, z)
  PROVE  /\ Equation(x * (w * w), y * (w * (w * w)), z * w)
         /\ x * (w * w) \in Int /\ y * (w * (w * w)) \in Int /\ z * w \in Int
<1> DEFINE D == ((y * (w * (w * w))) * (y * (w * (w * w)))) - Cubic(x * (w * w), z * w)
           d == (y * y) - Cubic(x, z)
           c == (w * (w * w)) * (w * (w * w))
<1>1. D = c * d
  BY DEF Cubic
<1>2. c \in Int
  OBVIOUS
<1>3. PICK m \in Int : d = q * m
  BY DEF Equation, Cong
<1> HIDE DEF c, d, D
<1>4. D = q * (c * m) /\ c * m \in Int
  BY <1>1, <1>2, <1>3, Modulus
<1>5. QED
  BY <1>4 DEF D, Equation, Cong

----------------------------------------------------------------------------
(***************************************************************************)
(* Affine coordinates.                                                     *)
(***************************************************************************)
\* The coordinates over z of the point with affine coordinates e and f
Over(x, y, z, e, f) == Cong(x, e * (z * z)) /\ Cong(y, f * (z * (z * z)))

\* A power of a number times that of its inverse.
LEMMA PowersCancel ==
  ASSUME NEW x \in Int, NEW z \in Int, NEW w \in Int, Cong(z * w, 1)
  PROVE  /\ Cong(((w * w) * x) * (z * z), x)
         /\ Cong(((w * (w * w)) * x) * (z * (z * z)), x)
<1> DEFINE m == z * w
           m2 == m * m
           m3 == m * m2
           l == ((w * w) * x) * (z * z)
           n == ((w * (w * w)) * x) * (z * (z * z))
<1>1. m \in Int /\ m2 \in Int /\ m3 \in Int
  OBVIOUS
<1>2. l = x * m2 /\ n = x * m3
  OBVIOUS
<1>3. Cong(m, 1)
  OBVIOUS
<1> HIDE DEF m, l, n
<1>4. Cong(m2, 1)
  <2>1. Cong(m * m, 1 * 1)
    BY <1>1, <1>3, Numerals, CongMul
  <2>2. QED
    BY <2>1
<1> HIDE DEF m2
<1>5. Cong(m3, 1)
  <2>1. Cong(m * m2, 1 * 1)
    BY <1>1, <1>3, <1>4, Numerals, CongMul
  <2>2. QED
    BY <2>1
<1> HIDE DEF m3
<1>6. Cong(x * m2, x * 1) /\ Cong(x * m3, x * 1)
  <2>1. Cong(x, x)
    BY CongRefl
  <2>2. QED
    BY <1>1, <1>4, <1>5, <2>1, Numerals, CongMul
<1>7. x * 1 = x
  OBVIOUS
<1>8. QED
  BY <1>2, <1>6, <1>7 DEF l, n

\* The affine coordinates are X and Y divided by powers of Z.
LEMMA AffineIs ==
  ASSUME NEW x \in F, NEW y \in F, NEW z \in F, z # 0
  PROVE  LET e == ToAffine(<<x, y, z>>)
         IN  /\ e = <<e[1], e[2]>> /\ e[1] \in F /\ e[2] \in F
             /\ Over(x, y, z, e[1], e[2])
             /\ Equation(x, y, z) => Equation(e[1], e[2], 1)
<1> DEFINE w == Reciprocal[z]
           w2 == Square(w)
           w3 == w ** w2
           e1 == w2 ** x
           e2 == w3 ** y
           e == ToAffine(<<x, y, z>>)
<1>1. e = <<e1, e2>>
  BY DEF ToAffine
<1>2. x \in Int /\ y \in Int /\ z \in Int /\ Cong(x, x) /\ Cong(y, y) /\ Cong(z, z)
  BY CongRefl DEF F
<1>3. w \in Int /\ Cong(z * w, 1) /\ z * w \in Int
  BY <1>2, InverseIs
<1> HIDE DEF e, w
<1>4. Cong(w, w)
  BY <1>3, CongRefl
<1> DEFINE iw2 == w * w
<1>5. w2 \in Int /\ iw2 \in Int /\ Cong(w2, iw2)
  BY <1>3, <1>4, SquareCong
<1> HIDE DEF w2, iw2
<1> DEFINE iw3 == w * iw2
<1>6. w3 \in Int /\ iw3 \in Int /\ Cong(w3, iw3)
  BY <1>3, <1>4, <1>5, MulCong
<1> HIDE DEF w3, iw3
<1> DEFINE i1 == iw2 * x
           i2 == iw3 * y
<1>7. e1 \in F /\ e1 \in Int /\ i1 \in Int /\ Cong(e1, i1)
  BY <1>2, <1>5, MulCong
<1>8. e2 \in F /\ e2 \in Int /\ i2 \in Int /\ Cong(e2, i2)
  BY <1>2, <1>6, MulCong
<1> HIDE DEF e1, e2
<1> DEFINE z2 == z * z
           z3 == z * z2
<1>9. z2 \in Int /\ z3 \in Int
  BY <1>2
<1>10. Cong(i1 * z2, x) /\ Cong(i2 * z3, y)
  BY <1>2, <1>3, PowersCancel DEF iw2, iw3
<1>11. i1 = x * (w * w) /\ i2 = y * (w * (w * w))
  BY <1>2, <1>3 DEF iw2, iw3
<1> HIDE DEF i1, i2, z2, z3
<1>12. Cong(x, e1 * z2)
  <2>1. Cong(i1, e1) /\ Cong(z2, z2)
    BY <1>7, <1>9, CongSym, CongRefl
  <2>2. Cong(i1 * z2, e1 * z2)
    BY <1>7, <1>9, <2>1, CongMul
  <2>3. i1 * z2 \in Int /\ e1 * z2 \in Int
    BY <1>7, <1>9
  <2>4. Cong(x, i1 * z2)
    BY <1>2, <1>10, <2>3, CongSym
  <2>5. QED
    BY <1>2, <2>2, <2>3, <2>4, CongTrans
<1>13. Cong(y, e2 * z3)
  <2>1. Cong(i2, e2) /\ Cong(z3, z3)
    BY <1>8, <1>9, CongSym, CongRefl
  <2>2. Cong(i2 * z3, e2 * z3)
    BY <1>8, <1>9, <2>1, CongMul
  <2>3. i2 * z3 \in Int /\ e2 * z3 \in Int
    BY <1>8, <1>9
  <2>4. Cong(y, i2 * z3)
    BY <1>2, <1>10, <2>3, CongSym
  <2>5. QED
    BY <1>2, <2>2, <2>3, <2>4, CongTrans
<1>14. Over(x, y, z, e1, e2)
  BY <1>12, <1>13 DEF Over, z2, z3
<1>15. ASSUME Equation(x, y, z) PROVE Equation(e1, e2, 1)
  <2>1. Equation(i1, i2, z * w)
    BY <1>2, <1>3, <1>11, <1>15, Scale
  <2>2. Cong(1, z * w)
    BY <1>3, Numerals, CongSym
  <2>3. QED
    BY <1>3, <1>7, <1>8, <2>1, <2>2, Numerals, EquationCong
<1>16. e[1] = e1 /\ e[2] = e2
  BY <1>1
<1>17. QED
  BY <1>1, <1>7, <1>8, <1>14, <1>15, <1>16 DEF e

\* There is only one point that has given coordinates over z.
LEMMA AffineUnique ==
  ASSUME NEW x \in F, NEW y \in F, NEW z \in F, z # 0, NEW e1 \in F, NEW e2 \in F,
         Over(x, y, z, e1, e2)
  PROVE  ToAffine(<<x, y, z>>) = <<e1, e2>>
<1> DEFINE e == ToAffine(<<x, y, z>>)
           f1 == e[1]
           f2 == e[2]
<1>1. e = <<f1, f2>> /\ f1 \in F /\ f2 \in F /\ Over(x, y, z, f1, f2)
  BY AffineIs
<1> HIDE DEF e, f1, f2
<1> DEFINE z2 == z * z
           z3 == z * z2
           m1 == e1 * z2
           m2 == e2 * z3
           n1 == f1 * z2
           n2 == f2 * z3
<1>2. x \in Int /\ y \in Int /\ z \in Int /\ e1 \in Int /\ e2 \in Int /\ f1 \in Int /\ f2 \in Int
  BY <1>1 DEF F
<1>3. /\ m1 \in Int /\ m2 \in Int /\ n1 \in Int /\ n2 \in Int
      /\ m1 = (e1 * z) * z /\ n1 = (f1 * z) * z
      /\ m2 = ((e2 * z) * z) * z /\ n2 = ((f2 * z) * z) * z
  BY <1>2
<1>4. Cong(x, m1) /\ Cong(x, n1) /\ Cong(y, m2) /\ Cong(y, n2)
  BY <1>1 DEF Over
<1> HIDE DEF z2, z3, m1, m2, n1, n2
<1>5. Cong(n1, m1) /\ Cong(n2, m2)
  <2>1. Cong(n1, x) /\ Cong(n2, y)
    BY <1>2, <1>3, <1>4, CongSym
  <2>2. QED
    BY <1>2, <1>3, <1>4, <2>1, CongTrans
<1> DEFINE u1 == e1 * z
           v1 == f1 * z
           u2 == e2 * z
           v2 == f2 * z
<1>6. u1 \in Int /\ v1 \in Int /\ u2 \in Int /\ v2 \in Int
  BY <1>2
<1>7. m1 = u1 * z /\ n1 = v1 * z /\ m2 = (u2 * z) * z /\ n2 = (v2 * z) * z
  BY <1>3
<1>8. ASSUME NEW c \in Int, NEW d \in Int, Cong(c * z, d * z) PROVE Cong(c, d)
  BY <1>8, CongCancel
<1>9. Cong(f1, e1)
  <2> HIDE DEF u1, v1
  <2>1. Cong(v1, u1)
    BY <1>5, <1>6, <1>7, <1>8
  <2>2. QED
    BY <1>2, <1>8, <2>1 DEF u1, v1
<1>10. Cong(f2, e2)
  <2> HIDE DEF u2, v2
  <2> DEFINE c == u2 * z
             d == v2 * z
  <2>1. c \in Int /\ d \in Int /\ m2 = c * z /\ n2 = d * z
    BY <1>2, <1>6, <1>7
  <2> HIDE DEF c, d
  <2>2. Cong(d, c)
    BY <1>5, <1>8, <2>1
  <2>3. Cong(v2, u2)
    BY <1>6, <1>8, <2>2 DEF c, d
  <2>4. QED
    BY <1>2, <1>8, <2>3 DEF u2, v2
<1>11. f1 = e1 /\ f2 = e2
  BY <1>1, <1>9, <1>10, CongEqual
<1>12. QED
  BY <1>1, <1>11 DEF e

\* Congruent coordinates belong to the same point.
LEMMA OverCong ==
  ASSUME NEW x \in Int, NEW y \in Int, NEW z \in Int, NEW e \in Int, NEW f \in Int,
         NEW u \in Int, NEW v \in Int, NEW w \in Int,
         Cong(x, u), Cong(y, v), Cong(z, w), Over(u, v, w, e, f)
  PROVE  Over(x, y, z, e, f)
<1> DEFINE w2 == w * w
           z2 == z * z
           w3 == w * w2
           z3 == z * z2
<1>1. Cong(w, z)
  BY CongSym
<1>2. w2 \in Int /\ z2 \in Int /\ Cong(w2, z2)
  BY <1>1, CongMul
<1>3. Cong(u, e * w2) /\ Cong(v, f * w3)
  BY DEF Over
<1> HIDE DEF w2, z2
<1>4. w3 \in Int /\ z3 \in Int /\ Cong(w3, z3)
  BY <1>1, <1>2, CongMul
<1> HIDE DEF w3, z3
<1>5. Cong(e, e) /\ Cong(f, f)
  BY CongRefl
<1> DEFINE ew == e * w2
           ez == e * z2
           fw == f * w3
           fz == f * z3
<1>6. ew \in Int /\ ez \in Int /\ Cong(ew, ez)
  BY <1>2, <1>5, CongMul
<1>7. fw \in Int /\ fz \in Int /\ Cong(fw, fz)
  BY <1>4, <1>5, CongMul
<1>8. Cong(u, ew) /\ Cong(v, fw)
  BY <1>3
<1> HIDE DEF ew, ez, fw, fz
<1>9. Cong(x, ew) /\ Cong(y, fw)
  BY <1>6, <1>7, <1>8, CongTrans
<1>10. Cong(x, ez) /\ Cong(y, fz)
  BY <1>6, <1>7, <1>9, CongTrans
<1>11. QED
  BY <1>10 DEF Over, ez, fz, z2, z3

\* The third point of the line of slope m through a point with affine
\* coordinates e1, e2 and another with abscissa f1, over z.
LEMMA LineOver ==
  ASSUME NEW m \in Int, NEW z \in Int, NEW e1 \in Int, NEW e2 \in Int, NEW f1 \in Int,
         NEW g1 \in Int, NEW g2 \in Int, NEW r \in Int, NEW s \in Int, NEW c \in Int, NEW v \in Int,
         Cong(r, m * z), Cong(s, e1 * (z * z)), Cong(c, (f1 - e1) * (z * z)),
         Cong(v, e2 * (z * (z * z))),
         Cong(g1, ((m * m) - e1) - f1), Cong(g2, (m * (e1 - g1)) - e2)
  PROVE  LET x == ((r * r) - (2 * s)) - c
         IN  Over(x, (r * (s - x)) - v, z, g1, g2)
<1> DEFINE z2 == z * z
           z3 == z * z2
           mz == m * z
           s1 == e1 * z2
           c1 == (f1 - e1) * z2
           v1 == e2 * z3
           h1 == ((m * m) - e1) - f1
           h2 == (m * (e1 - g1)) - e2
           rr == r * r
           r1 == mz * mz
           ss == 2 * s
           s2 == 2 * s1
           x == ((r * r) - (2 * s)) - c
<1>1. z2 \in Int /\ z3 \in Int /\ mz \in Int /\ s1 \in Int /\ c1 \in Int /\ v1 \in Int /\ h1 \in Int
      /\ h2 \in Int
  OBVIOUS
<1>2. Cong(r, mz) /\ Cong(s, s1) /\ Cong(c, c1) /\ Cong(v, v1) /\ Cong(g1, h1) /\ Cong(g2, h2)
  OBVIOUS
<1>3. r1 = (m * m) * z2 /\ x = (rr - ss) - c
  OBVIOUS
<1>4. (((m * m) * z2) - s2) - c1 = h1 * z2
  OBVIOUS
<1>5. (m * z) * ((e1 * z2) - (g1 * z2)) - (e2 * z3) = h2 * z3
  OBVIOUS
<1> HIDE DEF x, z2, z3, mz, s1, c1, v1, h1, h2
<1>6. rr \in Int /\ r1 \in Int /\ Cong(rr, r1)
  BY <1>1, <1>2, CongMul
<1>7. ss \in Int /\ s2 \in Int /\ Cong(ss, s2)
  BY <1>1, <1>2, Numerals, CongMul
<1> HIDE DEF rr, r1, ss, s2
<1> DEFINE d == rr - ss
           d1 == r1 - s2
<1>8. d \in Int /\ d1 \in Int /\ Cong(d, d1)
  BY <1>6, <1>7, CongSub
<1> HIDE DEF d, d1
<1> DEFINE x1 == d1 - c1
<1>9. x \in Int /\ x1 \in Int /\ Cong(x, x1)
  <2>1. x = d - c
    BY <1>3 DEF d
  <2>2. QED
    BY <1>1, <1>2, <1>8, <2>1, CongSub
<1> DEFINE hz == h1 * z2
           gz == g1 * z2
<1>10. x1 = hz
  BY <1>3, <1>4 DEF d1
<1>11. gz \in Int /\ hz \in Int /\ Cong(gz, hz)
  <2>1. Cong(z2, z2)
    BY <1>1, CongRefl
  <2>2. QED
    BY <1>1, <1>2, <2>1, CongMul
<1> HIDE DEF x1, hz, gz
<1>12. Cong(x, gz)
  <2>1. Cong(hz, gz)
    BY <1>11, CongSym
  <2>2. QED
    BY <1>9, <1>10, <1>11, <2>1, CongTrans
<1> DEFINE l == s - x
           l1 == s1 - gz
<1>13. l \in Int /\ l1 \in Int /\ Cong(l, l1)
  BY <1>1, <1>2, <1>9, <1>11, <1>12, CongSub
<1> HIDE DEF l, l1
<1> DEFINE rl == r * l
           rl1 == mz * l1
<1>14. rl \in Int /\ rl1 \in Int /\ Cong(rl, rl1)
  BY <1>1, <1>2, <1>13, CongMul
<1> HIDE DEF rl, rl1
<1> DEFINE y == rl - v
           y1 == rl1 - v1
<1>15. y \in Int /\ y1 \in Int /\ Cong(y, y1)
  BY <1>1, <1>2, <1>14, CongSub
<1> DEFINE hy == h2 * z3
           gy == g2 * z3
<1>16. y1 = hy
  BY <1>5 DEF rl1, mz, l1, s1, gz, v1
<1>17. gy \in Int /\ hy \in Int /\ Cong(gy, hy)
  <2>1. Cong(z3, z3)
    BY <1>1, CongRefl
  <2>2. QED
    BY <1>1, <1>2, <2>1, CongMul
<1> HIDE DEF y, y1, gy, hy
<1>18. Cong(y, gy)
  <2>1. Cong(hy, gy)
    BY <1>17, CongSym
  <2>2. QED
    BY <1>15, <1>16, <1>17, <2>1, CongTrans
<1>19. y = (r * (s - x)) - v
  BY DEF y, rl, l
<1>20. QED
  BY <1>12, <1>18, <1>19 DEF gz, gy, z2, z3, x, Over

\* Doubling follows the tangent.
LEMMA DblOver ==
  ASSUME NEW x \in Int, NEW y \in Int, NEW z \in Int, NEW e1 \in Int, NEW e2 \in Int,
         NEW m \in Int, NEW g1 \in Int, NEW g2 \in Int,
         DblM(x) \in Int, DblS(x, y) \in Int, DblV(y) \in Int,
         Over(x, y, z, e1, e2), Cong(m * (2 * e2), 3 * (e1 * e1)),
         Cong(g1, ((m * m) - e1) - e1), Cong(g2, (m * (e1 - g1)) - e2)
  PROVE  Over(DblX(x, y), DblY(x, y), DblZ(y, z), g1, g2)
<1> DEFINE z2 == z * z
           z3 == z * z2
           x1 == e1 * z2
           y1 == e2 * z3
           Z == DblZ(y, z)
<1>1. z2 \in Int /\ z3 \in Int /\ x1 \in Int /\ y1 \in Int /\ Z \in Int
  BY DEF DblZ
<1>2. Cong(x, x1) /\ Cong(y, y1)
  BY DEF Over
<1>3. Z = 2 * (z * y)
  BY DEF DblZ
<1>4. Cong(DblM(x), m * Z)
  <2> DEFINE z4 == z2 * z2
             xx == x * x
             xx1 == x1 * x1
             A == 3 * (e1 * e1)
             B == m * (2 * e2)
             c == m * (2 * z)
  <2>1. z4 \in Int /\ A \in Int /\ B \in Int /\ c \in Int /\ Cong(B, A)
    OBVIOUS
  <2>2. 3 * xx1 = A * z4
    BY <1>1
  <2>3. B * z4 = c * y1
    OBVIOUS
  <2>4. c * y = m * Z
    BY <1>3
  <2>5. DblM(x) = 3 * xx
    BY DEF DblM
  <2> HIDE DEF x1, y1, Z, z2, z3, z4, A, B, c
  <2>6. xx \in Int /\ xx1 \in Int /\ Cong(xx, xx1)
    BY <1>1, <1>2, CongMul
  <2> HIDE DEF xx, xx1
  <2> DEFINE t == 3 * xx
             t1 == 3 * xx1
  <2>7. t \in Int /\ t1 \in Int /\ Cong(t, t1)
    BY <2>6, Numerals, CongMul
  <2> DEFINE u == A * z4
             u1 == B * z4
  <2>8. u \in Int /\ u1 \in Int /\ Cong(u, u1)
    <3>1. Cong(A, B) /\ Cong(z4, z4)
      BY <2>1, CongSym, CongRefl
    <3>2. QED
      BY <2>1, <3>1, CongMul
  <2> DEFINE v == c * y1
             v1 == c * y
  <2>9. v \in Int /\ v1 \in Int /\ Cong(v, v1)
    <3>1. Cong(y1, y) /\ Cong(c, c)
      BY <1>1, <1>2, <2>1, CongSym, CongRefl
    <3>2. QED
      BY <1>1, <2>1, <3>1, CongMul
  <2> HIDE DEF t, t1, u, u1, v, v1
  <2>10. DblM(x) = t /\ t1 = u /\ u1 = v /\ v1 = m * Z
    BY <2>2, <2>3, <2>4, <2>5 DEF t, t1, u, u1, v, v1
  <2>11. Cong(t, u1)
    BY <2>7, <2>8, <2>10, CongTrans
  <2>12. Cong(t, v1)
    BY <2>7, <2>8, <2>9, <2>10, <2>11, CongTrans
  <2>13. QED
    BY <2>10, <2>12
<1>5. Cong(DblS(x, y), e1 * (Z * Z))
  <2> DEFINE c == (2 * y) * (2 * y)
             s == c * x
             s1 == c * x1
  <2>1. c \in Int /\ s = DblS(x, y)
    BY DEF DblS
  <2>2. s1 = e1 * (Z * Z)
    BY <1>3
  <2> HIDE DEF c, x1, Z
  <2>3. Cong(s, s1)
    <3>1. Cong(c, c)
      BY <2>1, CongRefl
    <3>2. QED
      BY <1>1, <1>2, <2>1, <3>1, CongMul
  <2>4. QED
    BY <2>1, <2>2, <2>3
<1>6. Cong(DblV(y), e2 * (Z * (Z * Z)))
  <2> DEFINE c == 8 * (y * (y * y))
             s == c * y
             s1 == c * y1
  <2>1. c \in Int /\ s = DblV(y)
    BY DEF DblV
  <2>2. s1 = e2 * (Z * (Z * Z))
    BY <1>3
  <2> HIDE DEF c, y1, Z
  <2>3. Cong(s, s1)
    <3>1. Cong(c, c)
      BY <2>1, CongRefl
    <3>2. QED
      BY <1>1, <1>2, <2>1, <3>1, CongMul
  <2>4. QED
    BY <2>1, <2>2, <2>3
<1> DEFINE f1 == e1
           o == 0
           r == DblM(x)
           s == DblS(x, y)
           v == DblV(y)
           X == ((r * r) - (2 * s)) - o
<1>7. f1 \in Int /\ o \in Int /\ Cong(o, (f1 - e1) * (Z * Z)) /\ Cong(g1, ((m * m) - e1) - f1)
  <2>1. (f1 - e1) * (Z * Z) = 0
    BY <1>1
  <2>2. QED
    BY <2>1, CongRefl
<1> HIDE DEF Z, f1, o
<1>8. Over(X, (r * (s - X)) - v, Z, g1, g2)
  BY <1>1, <1>4, <1>5, <1>6, <1>7, LineOver, ZenonT(60)
<1>9. X = DblX(x, y)
  BY DEF DblX, o
<1>10. (r * (s - X)) - v = DblY(x, y)
  <2>1. DblY(x, y) = ((s - X) * r) - v
    BY <1>9 DEF DblY
  <2>2. r \in Int /\ s \in Int /\ X \in Int
    BY <1>7
  <2> HIDE DEF r, s, X, v
  <2>3. (s - X) * r = r * (s - X)
    BY <2>2
  <2>4. QED
    BY <2>1, <2>3
<1>11. QED
  BY <1>8, <1>9, <1>10 DEF Z

\* The sum by the chord follows it.
LEMMA ChordOver ==
  ASSUME NEW u \in Int, NEW v \in Int, NEW h \in Int, NEW r \in Int, NEW z \in Int,
         NEW e1 \in Int, NEW e2 \in Int, NEW f1 \in Int, NEW f2 \in Int,
         NEW m \in Int, NEW g1 \in Int, NEW g2 \in Int,
         ChS(u, h) \in Int, ChC(h) \in Int, ChV(v, h) \in Int,
         Over(u, v, z, e1, e2), Over(h, r, z, f1 - e1, f2 - e2),
         Cong(m * (f1 - e1), f2 - e2),
         Cong(g1, ((m * m) - e1) - f1), Cong(g2, (m * (e1 - g1)) - e2)
  PROVE  Over(ChX(u, h, r), ChY(u, v, h, r), ChZ(h, z), g1, g2)
<1> DEFINE d1 == f1 - e1
           d2 == f2 - e2
           z2 == z * z
           z3 == z * z2
           u1 == e1 * z2
           v1 == e2 * z3
           h1 == d1 * z2
           r1 == d2 * z3
           Z == ChZ(h, z)
<1>1. /\ d1 \in Int /\ d2 \in Int /\ z2 \in Int /\ z3 \in Int /\ u1 \in Int /\ v1 \in Int
      /\ h1 \in Int /\ r1 \in Int /\ Z \in Int
  BY DEF ChZ
<1>2. Cong(u, u1) /\ Cong(v, v1) /\ Cong(h, h1) /\ Cong(r, r1) /\ Cong(m * d1, d2)
  BY DEF Over
<1>3. Z = h * z
  BY DEF ChZ
<1> HIDE DEF d1, d2
<1>4. Cong(r, m * Z)
  <2> DEFINE c == m * z
             l == m * d1
             s == l * z3
             s1 == c * h1
             s2 == c * h
  <2>1. c \in Int /\ l \in Int /\ s = s1 /\ s2 = m * Z
    BY <1>1, <1>3
  <2> HIDE DEF c, l, z3, h1, Z, r1
  <2>2. r1 = d2 * z3
    BY DEF r1
  <2>3. Cong(r1, s) /\ s \in Int
    <3>1. Cong(d2, l) /\ Cong(z3, z3)
      BY <1>1, <1>2, <2>1, CongSym, CongRefl DEF l
    <3>2. QED
      BY <1>1, <2>1, <2>2, <3>1, CongMul
  <2>4. Cong(s1, s2) /\ s1 \in Int /\ s2 \in Int
    <3>1. Cong(h1, h) /\ Cong(c, c)
      BY <1>1, <1>2, <2>1, CongSym, CongRefl
    <3>2. QED
      BY <1>1, <2>1, <3>1, CongMul
  <2> HIDE DEF s, s1, s2
  <2>5. Cong(r, s)
    BY <1>1, <1>2, <2>3, CongTrans
  <2>6. Cong(r, s2)
    BY <2>1, <2>3, <2>4, <2>5, CongTrans
  <2>7. QED
    BY <2>1, <2>6
<1>5. Cong(ChS(u, h), e1 * (Z * Z))
  <2> DEFINE c == h * h
             s == u * c
             s1 == u1 * c
  <2>1. c \in Int /\ s = ChS(u, h)
    BY DEF ChS
  <2>2. s1 = e1 * (Z * Z)
    BY <1>3
  <2> HIDE DEF c, u1, Z
  <2>3. Cong(s, s1)
    <3>1. Cong(c, c)
      BY <2>1, CongRefl
    <3>2. QED
      BY <1>1, <1>2, <2>1, <3>1, CongMul
  <2>4. QED
    BY <2>1, <2>2, <2>3
<1>6. Cong(ChC(h), d1 * (Z * Z))
  <2> DEFINE c == h * h
             s == h * c
             s1 == h1 * c
  <2>1. c \in Int /\ s = ChC(h)
    BY DEF ChC
  <2>2. s1 = d1 * (Z * Z)
    BY <1>1, <1>3
  <2> HIDE DEF c, h1, Z
  <2>3. Cong(s, s1)
    <3>1. Cong(c, c)
      BY <2>1, CongRefl
    <3>2. QED
      BY <1>1, <1>2, <2>1, <3>1, CongMul
  <2>4. QED
    BY <2>1, <2>2, <2>3
<1>7. Cong(ChV(v, h), e2 * (Z * (Z * Z)))
  <2> DEFINE c == h * (h * h)
             s == v * c
             s1 == v1 * c
  <2>1. c \in Int /\ s = ChV(v, h)
    BY DEF ChV, ChC
  <2>2. s1 = e2 * (Z * (Z * Z))
    BY <1>3
  <2> HIDE DEF c, v1, Z
  <2>3. Cong(s, s1)
    <3>1. Cong(c, c)
      BY <2>1, CongRefl
    <3>2. QED
      BY <1>1, <1>2, <2>1, <3>1, CongMul
  <2>4. QED
    BY <2>1, <2>2, <2>3
<1> DEFINE s == ChS(u, h)
           c == ChC(h)
           w == ChV(v, h)
           X == ((r * r) - (2 * s)) - c
<1>8. X = ChX(u, h, r)
  BY DEF ChX
<1>9. (r * (s - X)) - w = ChY(u, v, h, r)
  BY <1>8 DEF ChY
<1>10. /\ s \in Int /\ c \in Int /\ w \in Int
       /\ Cong(s, e1 * (Z * Z)) /\ Cong(c, (f1 - e1) * (Z * Z)) /\ Cong(w, e2 * (Z * (Z * Z)))
  BY <1>5, <1>6, <1>7 DEF d1
<1> HIDE DEF Z, s, c, w, z2, z3, u1, v1, h1, r1
<1>11. Over(X, (r * (s - X)) - w, Z, g1, g2)
  BY <1>1, <1>4, <1>10, LineOver, ZenonT(60)
<1>12. QED
  BY <1>8, <1>9, <1>11 DEF Z

\* A point over z is on the curve if its affine coordinates are.
LEMMA OverOnCurve ==
  ASSUME NEW x \in Int, NEW y \in Int, NEW z \in Int, NEW e \in Int, NEW f \in Int,
         Over(x, y, z, e, f), Equation(e, f, 1)
  PROVE  Equation(x, y, z)
<1> DEFINE u == e * (z * z)
           v == f * (z * (z * z))
<1>1. Equation(u, v, 1 * z) /\ u \in Int /\ v \in Int
  BY Numerals, Scale
<1>2. Cong(x, u) /\ Cong(y, v) /\ Cong(z, z) /\ 1 * z = z
  BY CongRefl DEF Over
<1> HIDE DEF u, v
<1>3. QED
  BY <1>1, <1>2, EquationCong

----------------------------------------------------------------------------
(***************************************************************************)
(* The affine group law.                                                   *)
(***************************************************************************)
\* A quotient in the field.
LEMMA Quotient ==
  ASSUME NEW x \in F, NEW y \in F, y # 0
  PROVE  /\ x ** Reciprocal[y] \in F /\ x ** Reciprocal[y] \in Int
         /\ Cong((x ** Reciprocal[y]) * y, x)
<1> DEFINE w == Reciprocal[y]
           m == x ** w
           n == x * w
           c == y * w
<1>1. x \in Int /\ y \in Int /\ w \in Int /\ Cong(c, 1) /\ c \in Int
  BY InverseIs DEF F
<1> HIDE DEF w
<1>2. m \in F /\ m \in Int /\ n \in Int /\ Cong(m, n)
  <2>1. x \in Int /\ w \in Int /\ Cong(x, x) /\ Cong(w, w)
    BY <1>1, CongRefl
  <2>2. QED
    BY <2>1, MulCong
<1>3. n * y = x * c /\ x * 1 = x
  BY <1>1
<1> HIDE DEF m, n, c
<1>4. Cong(m * y, n * y) /\ m * y \in Int /\ n * y \in Int
  <2>1. Cong(y, y)
    BY <1>1, CongRefl
  <2>2. QED
    BY <1>1, <1>2, <2>1, CongMul
<1>5. Cong(x * c, x * 1)
  <2>1. Cong(x, x)
    BY <1>1, CongRefl
  <2>2. QED
    BY <1>1, <2>1, Numerals, CongMul
<1>6. Cong(m * y, x)
  BY <1>1, <1>3, <1>4, <1>5, CongTrans
<1>7. QED
  BY <1>2, <1>6 DEF m, w

\* The third point of a line, as AffineAdd computes it.
LEMMA ThirdPoint ==
  ASSUME NEW m \in F, NEW e1 \in F, NEW e2 \in F, NEW f1 \in F
  PROVE  LET x == (Square(m) -- e1) -- f1
             y == (m ** (e1 -- x)) -- e2
         IN  /\ x \in F /\ y \in F
             /\ Cong(x, ((m * m) - e1) - f1) /\ Cong(y, (m * (e1 - x)) - e2)
<1> DEFINE s == Square(m)
           t == s -- e1
           x == t -- f1
           d == e1 -- x
           l == m ** d
           y == l -- e2
           is == m * m
           it == is - e1
           ix == it - f1
           id == e1 - x
           il == m * id
           iy == il - e2
<1>1. /\ m \in Int /\ e1 \in Int /\ e2 \in Int /\ f1 \in Int
      /\ Cong(m, m) /\ Cong(e1, e1) /\ Cong(e2, e2) /\ Cong(f1, f1)
  BY CongRefl DEF F
<1>2. s \in Int /\ is \in Int /\ Cong(s, is)
  BY <1>1, SquareCong
<1> HIDE DEF s, is
<1>3. t \in Int /\ it \in Int /\ Cong(t, it)
  BY <1>1, <1>2, SubCong
<1> HIDE DEF t, it
<1>4. x \in F /\ x \in Int /\ ix \in Int /\ Cong(x, ix)
  BY <1>1, <1>3, SubCong
<1> HIDE DEF x, ix
<1>5. d \in Int /\ id \in Int /\ Cong(d, id)
  BY <1>1, <1>4, SubIs
<1> HIDE DEF d, id
<1>6. l \in Int /\ il \in Int /\ Cong(l, il)
  BY <1>1, <1>5, MulCong
<1> HIDE DEF l, il
<1>7. y \in F /\ iy \in Int /\ Cong(y, iy)
  BY <1>1, <1>6, SubCong
<1> HIDE DEF y, iy
<1>8. QED
  BY <1>4, <1>7 DEF x, ix, it, is, t, s, y, iy, il, id, l, d

\* g is the third point of the line of slope m through e and one with
\* abscissa f1.
Third(m, e1, e2, f1, g1, g2) ==
  Cong(g1, ((m * m) - e1) - f1) /\ Cong(g2, (m * (e1 - g1)) - e2)

\* The sum of a point with itself.
LEMMA Tangent ==
  ASSUME NEW e1 \in F, NEW e2 \in F, (e2 + e2) % q # 0
  PROVE  \E m, g1, g2 \in F :
           /\ AffineAdd(<<e1, e2>>, <<e1, e2>>) = <<g1, g2>>
           /\ Cong(m * (2 * e2), 3 * (e1 * e1))
           /\ Third(m, e1, e2, e1, g1, g2)
<1> DEFINE n == 3 ** Square(e1)
           d == 2 ** e2
           m == n ** Reciprocal[d]
           g1 == (Square(m) -- e1) -- e1
           g2 == (m ** (e1 -- g1)) -- e2
           in == 3 * (e1 * e1)
           id == 2 * e2
<1>1. AffineAdd(<<e1, e2>>, <<e1, e2>>) = <<g1, g2>>
  BY DEF AffineAdd
<1>2. e1 \in Int /\ e2 \in Int /\ Cong(e1, e1) /\ Cong(e2, e2)
  BY CongRefl DEF F
<1>3. d \in F /\ d \in Int /\ id \in Int /\ Cong(d, id)
  BY <1>2, Numerals, MulCong
<1>4. d # 0
  <2>1. 2 * e2 = e2 + e2
    BY <1>2
  <2>2. QED
    BY <2>1 DEF **
<1>5. n \in F /\ n \in Int /\ in \in Int /\ Cong(n, in)
  <2> DEFINE s == Square(e1)
             is == e1 * e1
  <2>1. s \in Int /\ is \in Int /\ Cong(s, is)
    BY <1>2, SquareCong
  <2> HIDE DEF s, is
  <2>2. QED
    BY <2>1, Numerals, MulCong DEF s, is
<1> HIDE DEF n, d
<1>6. m \in F /\ m \in Int /\ Cong(m * d, n)
  BY <1>3, <1>4, <1>5, Quotient
<1> HIDE DEF m
<1>7. g1 \in F /\ g2 \in F /\ Third(m, e1, e2, e1, g1, g2)
  BY <1>6, ThirdPoint DEF Third
<1> HIDE DEF g1, g2, in, id
<1>8. Cong(m * id, in)
  <2> DEFINE md == m * d
             mi == m * id
  <2>1. md \in Int /\ mi \in Int /\ Cong(mi, md)
    <3>1. Cong(m, m) /\ Cong(id, d)
      BY <1>3, <1>6, CongRefl, CongSym
    <3>2. QED
      BY <1>3, <1>6, <3>1, CongMul
  <2>2. Cong(md, n)
    BY <1>6
  <2> HIDE DEF md, mi
  <2>3. Cong(mi, n)
    BY <1>5, <2>1, <2>2, CongTrans
  <2>4. Cong(mi, in)
    BY <1>5, <2>1, <2>3, CongTrans
  <2>5. QED
    BY <2>4 DEF mi
<1>9. QED
  BY <1>1, <1>6, <1>7, <1>8 DEF in, id

\* The sum of points with different abscissas.
LEMMA Secant ==
  ASSUME NEW e1 \in F, NEW e2 \in F, NEW f1 \in F, NEW f2 \in F, e1 # f1
  PROVE  \E m, g1, g2 \in F :
           /\ AffineAdd(<<e1, e2>>, <<f1, f2>>) = <<g1, g2>>
           /\ Cong(m * (f1 - e1), f2 - e2)
           /\ Third(m, e1, e2, f1, g1, g2)
<1> DEFINE n == f2 -- e2
           d == f1 -- e1
           m == n ** Reciprocal[d]
           g1 == (Square(m) -- e1) -- f1
           g2 == (m ** (e1 -- g1)) -- e2
           in == f2 - e2
           id == f1 - e1
<1>1. AffineAdd(<<e1, e2>>, <<f1, f2>>) = <<g1, g2>>
  BY DEF AffineAdd
<1>2. e1 \in Int /\ e2 \in Int /\ f1 \in Int /\ f2 \in Int
  BY DEF F
<1>3. d \in F /\ d \in Int /\ id \in Int /\ Cong(d, id)
  BY <1>2, SubIs
<1>4. d # 0
  BY SubZero
<1>5. n \in F /\ n \in Int /\ in \in Int /\ Cong(n, in)
  BY <1>2, SubIs
<1> HIDE DEF n, d
<1>6. m \in F /\ m \in Int /\ Cong(m * d, n)
  BY <1>3, <1>4, <1>5, Quotient
<1> HIDE DEF m
<1>7. g1 \in F /\ g2 \in F /\ Third(m, e1, e2, f1, g1, g2)
  BY <1>6, ThirdPoint DEF Third
<1> HIDE DEF g1, g2, in, id
<1>8. Cong(m * id, in)
  <2> DEFINE md == m * d
             mi == m * id
  <2>1. md \in Int /\ mi \in Int /\ Cong(mi, md)
    <3>1. Cong(m, m) /\ Cong(id, d)
      BY <1>3, <1>6, CongRefl, CongSym
    <3>2. QED
      BY <1>3, <1>6, <3>1, CongMul
  <2>2. Cong(md, n)
    BY <1>6
  <2> HIDE DEF md, mi
  <2>3. Cong(mi, n)
    BY <1>5, <2>1, <2>2, CongTrans
  <2>4. Cong(mi, in)
    BY <1>5, <2>1, <2>3, CongTrans
  <2>5. QED
    BY <2>4 DEF mi
<1>9. QED
  BY <1>1, <1>6, <1>7, <1>8 DEF in, id

\* Points of the curve with the same abscissa are equal or opposite.
LEMMA SameAbscissa ==
  ASSUME NEW e1 \in F, NEW e2 \in F, NEW f2 \in F, Equation(e1, e2, 1), Equation(e1, f2, 1)
  PROVE  e2 = f2 \/ (e2 + f2) % q = 0
<1> DEFINE s == e2 * e2
           t == f2 * f2
           c == Cubic(e1, 1)
<1>1. e1 \in Int /\ e2 \in Int /\ f2 \in Int /\ s \in Int /\ t \in Int /\ c \in Int
  BY CubicInt, Numerals DEF F
<1>2. Cong(s, c) /\ Cong(t, c)
  BY DEF Equation
<1>3. s - t = (e2 - f2) * (e2 + f2)
  BY <1>1
<1> HIDE DEF s, t, c
<1>4. Cong(s, t)
  BY <1>1, <1>2, CongSym, CongTrans
<1> DEFINE l == e2 - f2
           r == e2 + f2
           x == l % q
           y == r % q
<1>5. PICK m \in Int : l * r = q * m
  BY <1>3, <1>4 DEF Cong
<1>6. Cong(l * r, 0)
  BY <1>1, <1>5 DEF Cong
<1>7. l \in Int /\ r \in Int /\ e2 -- f2 = x
  BY <1>1 DEF --
<1> HIDE DEF l, r
<1>8. x \in F /\ x \in Int /\ Cong(x, l) /\ y \in F /\ y \in Int /\ Cong(y, r)
  BY <1>7, CongMod
<1>9. x = 0 <=> e2 = f2
  BY <1>7, SubZero
<1> HIDE DEF x, y
<1> DEFINE xy == x * y
           lr == l * r
<1>10. xy \in Int /\ lr \in Int /\ Cong(xy, lr) /\ Cong(lr, 0)
  BY <1>6, <1>7, <1>8, CongMul
<1> HIDE DEF lr, xy
<1>11. Cong(xy, 0)
  BY <1>10, Numerals, CongTrans
<1>12. x = 0 \/ y = 0
  BY <1>8, <1>11, NoZeroDivisors DEF xy
<1>13. QED
  BY <1>9, <1>12 DEF y, r

\* (0, 0), which stands for infinity, is not on the curve.
LEMMA OriginOff == ~Equation(0, 0, 1)
<1> SUFFICES ASSUME Equation(0, 0, 1) PROVE FALSE
  OBVIOUS
<1>1. Cubic(0, 1) = 7
  BY DEF Cubic
<1>2. Cong(0, 7)
  BY <1>1 DEF Equation
<1>3. 0 = 7
  BY <1>2, Numerals, CongEqual
<1>4. QED
  BY <1>3

----------------------------------------------------------------------------
(***************************************************************************)
(* Points brought to a common Z.                                           *)
(***************************************************************************)
\* The coordinates of a point over a multiple of its Z.
LEMMA Lift ==
  ASSUME NEW x \in F, NEW y \in F, NEW z \in F, NEW w \in F, NEW e \in F, NEW f \in F,
         Over(x, y, z, e, f)
  PROVE  /\ x ** Square(w) \in F /\ y ** Cubed(w) \in F /\ z ** w \in F
         /\ Over(x ** Square(w), y ** Cubed(w), z ** w, e, f)
<1> DEFINE w2 == Square(w)
           w3 == Cubed(w)
           u == x ** w2
           v == y ** w3
           t == z ** w
           iw2 == w * w
           iw3 == w * (w * w)
           x1 == e * (z * z)
           y1 == f * (z * (z * z))
           m == x1 * iw2
           n == y1 * iw3
           o == z * w
<1>1. /\ x \in Int /\ y \in Int /\ z \in Int /\ w \in Int /\ e \in Int /\ f \in Int
      /\ Cong(w, w) /\ Cong(z, z)
  BY CongRefl DEF F
<1>2. w2 \in Int /\ iw2 \in Int /\ Cong(w2, iw2)
  BY <1>1, SquareCong
<1>3. w3 \in Int /\ iw3 \in Int /\ Cong(w3, iw3)
  BY <1>1, CubedCong
<1>4. t \in F /\ t \in Int /\ o \in Int /\ Cong(t, o)
  BY <1>1, MulCong
<1>5. x1 \in Int /\ y1 \in Int /\ Cong(x, x1) /\ Cong(y, y1)
  BY <1>1 DEF Over
<1>6. m = e * (o * o) /\ n = f * (o * (o * o))
  BY <1>1
<1> HIDE DEF w2, w3, iw2, iw3, x1, y1, t, o
<1>7. u \in F /\ u \in Int /\ m \in Int /\ Cong(u, m)
  BY <1>1, <1>2, <1>5, MulCong
<1>8. v \in F /\ v \in Int /\ n \in Int /\ Cong(v, n)
  BY <1>1, <1>3, <1>5, MulCong
<1> HIDE DEF u, v, m, n
<1>9. Over(m, n, o, e, f)
  <2>1. Cong(m, m) /\ Cong(n, n)
    BY <1>7, <1>8, CongRefl
  <2>2. QED
    BY <1>6, <2>1 DEF Over
<1>10. Over(u, v, t, e, f)
  BY <1>1, <1>4, <1>7, <1>8, <1>9, OverCong
<1>11. QED
  BY <1>4, <1>7, <1>8, <1>10 DEF u, v, w2, w3, t

\* An affine point over Z.
LEMMA LiftAffine ==
  ASSUME NEW z \in F, NEW e \in F, NEW f \in F
  PROVE  /\ Square(z) ** e \in F /\ Cubed(z) ** f \in F
         /\ Over(Square(z) ** e, Cubed(z) ** f, z, e, f)
<1> DEFINE z2 == Square(z)
           z3 == Cubed(z)
           u == z2 ** e
           v == z3 ** f
           iz2 == z * z
           iz3 == z * (z * z)
           m == iz2 * e
           n == iz3 * f
<1>1. z \in Int /\ e \in Int /\ f \in Int /\ Cong(z, z) /\ Cong(e, e) /\ Cong(f, f)
  BY CongRefl DEF F
<1>2. z2 \in Int /\ iz2 \in Int /\ Cong(z2, iz2)
  BY <1>1, SquareCong
<1>3. z3 \in Int /\ iz3 \in Int /\ Cong(z3, iz3)
  BY <1>1, CubedCong
<1>4. m = e * (z * z) /\ n = f * (z * (z * z))
  BY <1>1
<1> HIDE DEF z2, z3, iz2, iz3
<1>5. u \in F /\ Cong(u, m)
  BY <1>1, <1>2, MulCong
<1>6. v \in F /\ Cong(v, n)
  BY <1>1, <1>3, MulCong
<1> HIDE DEF u, v, m, n
<1>7. QED
  BY <1>4, <1>5, <1>6 DEF Over, u, v, z2, z3

\* h and r are, over z, what the point (f1, f2) is apart from (e1, e2).
Apart(h, r, z, e1, e2, f1, f2) == Over(h, r, z, f1 - e1, f2 - e2)

\* Differences of coordinates over the same Z.
LEMMA OverSub ==
  ASSUME NEW u \in F, NEW v \in F, NEW x \in F, NEW y \in F, NEW z \in F,
         NEW e1 \in F, NEW e2 \in F, NEW f1 \in F, NEW f2 \in F,
         Over(u, v, z, e1, e2), Over(x, y, z, f1, f2)
  PROVE  x -- u \in F /\ y -- v \in F /\ Apart(x -- u, y -- v, z, e1, e2, f1, f2)
<1> DEFINE h == x -- u
           r == y -- v
           z2 == z * z
           z3 == z * (z * z)
           ie1 == e1 * z2
           ie2 == e2 * z3
           if1 == f1 * z2
           if2 == f2 * z3
           ih == if1 - ie1
           ir == if2 - ie2
<1>1. /\ u \in Int /\ v \in Int /\ x \in Int /\ y \in Int /\ z \in Int
      /\ e1 \in Int /\ e2 \in Int /\ f1 \in Int /\ f2 \in Int
  BY DEF F
<1>2. ie1 \in Int /\ ie2 \in Int /\ if1 \in Int /\ if2 \in Int
  BY <1>1
<1>3. Cong(u, ie1) /\ Cong(v, ie2) /\ Cong(x, if1) /\ Cong(y, if2)
  BY DEF Apart, Over
<1>4. ih = (f1 - e1) * z2 /\ ir = (f2 - e2) * z3
  BY <1>1
<1> HIDE DEF ie1, ie2, if1, if2, z2, z3
<1>5. h \in F /\ Cong(h, ih) /\ r \in F /\ Cong(r, ir)
  BY <1>1, <1>2, <1>3, SubCong
<1> HIDE DEF h, r, ih, ir
<1>6. QED
  BY <1>4, <1>5 DEF Apart, Over, h, r, z2, z3

\* Adding the differences again.
LEMMA OverAdd ==
  ASSUME NEW u \in Int, NEW v \in Int, NEW h \in Int, NEW r \in Int, NEW z \in Int,
         NEW e1 \in Int, NEW e2 \in Int, NEW f1 \in Int, NEW f2 \in Int,
         Over(u, v, z, e1, e2), Apart(h, r, z, e1, e2, f1, f2)
  PROVE  Over(u + h, v + r, z, f1, f2)
<1> DEFINE z2 == z * z
           z3 == z * (z * z)
           ie1 == e1 * z2
           ie2 == e2 * z3
           ih == (f1 - e1) * z2
           ir == (f2 - e2) * z3
<1>1. ie1 \in Int /\ ie2 \in Int /\ ih \in Int /\ ir \in Int
  OBVIOUS
<1>2. Cong(u, ie1) /\ Cong(v, ie2) /\ Cong(h, ih) /\ Cong(r, ir)
  BY DEF Apart, Over
<1>3. ie1 + ih = f1 * z2 /\ ie2 + ir = f2 * z3
  OBVIOUS
<1> HIDE DEF ie1, ie2, ih, ir, z2, z3
<1>4. Cong(u + h, ie1 + ih) /\ Cong(v + r, ie2 + ir)
  BY <1>1, <1>2, CongAdd
<1>5. QED
  BY <1>3, <1>4 DEF Apart, Over, z2, z3

\* A factor that is a product of residues that are not 0 can be cancelled.
LEMMA DifferenceZero ==
  ASSUME NEW h, NEW r, NEW z, NEW e1, NEW e2, NEW f1, NEW f2,
         Apart(h, r, z, e1, e2, f1, f2), z # 0,
         h \in F, r \in F, z \in F, e1 \in F, e2 \in F, f1 \in F, f2 \in F
  PROVE  (h = 0 <=> e1 = f1) /\ (r = 0 <=> e2 = f2)
<1> DEFINE z2 == z * z
           z3 == z * (z * z)
           ih == (f1 - e1) * z2
           ir == (f2 - e2) * z3
<1>1. /\ h \in Int /\ r \in Int /\ z \in Int
      /\ e1 \in Int /\ e2 \in Int /\ f1 \in Int /\ f2 \in Int
  BY DEF F
<1>2. z2 \in Int /\ z3 \in Int /\ ih \in Int /\ ir \in Int
  BY <1>1
<1>3. Cong(h, ih) /\ Cong(r, ir)
  BY DEF Apart, Over
<1>4. ASSUME NEW c \in Int, NEW d \in Int, Cong(c * z, d * z) PROVE Cong(c, d)
  BY <1>4, CongCancel
<1>5. ASSUME h = 0 PROVE e1 = f1
  <2> DEFINE c == f1 * z
             d == e1 * z
  <2>1. ih = (c * z) - (d * z) /\ c \in Int /\ d \in Int
    BY <1>1
  <2>2. Cong(c * z, d * z)
    <3>1. Cong(ih, 0)
      BY <1>2, <1>3, <1>5, Numerals, CongSym
    <3> HIDE DEF ih, c, d
    <3>2. QED
      BY <2>1, <3>1 DEF Cong
  <2>3. Cong(c, d)
    <3> HIDE DEF c, d
    <3>1. QED
      BY <1>4, <2>1, <2>2
  <2>4. Cong(f1, e1)
    BY <1>1, <1>4, <2>3
  <2>5. QED
    BY <2>4, CongEqual
<1>6. ASSUME r = 0 PROVE e2 = f2
  <2> DEFINE c1 == f2 * z
             d1 == e2 * z
             c == c1 * z
             d == d1 * z
  <2>1. ir = (c * z) - (d * z) /\ c1 \in Int /\ d1 \in Int /\ c \in Int /\ d \in Int
    BY <1>1
  <2>2. Cong(c * z, d * z)
    <3>1. Cong(ir, 0)
      BY <1>2, <1>3, <1>6, Numerals, CongSym
    <3> HIDE DEF ir, c, d
    <3>2. QED
      BY <2>1, <3>1 DEF Cong
  <2>3. Cong(c, d)
    <3> HIDE DEF c, d
    <3>1. QED
      BY <1>4, <2>1, <2>2
  <2>4. Cong(c1, d1)
    <3> HIDE DEF c1, d1
    <3>1. QED
      BY <1>4, <2>1, <2>3
  <2>5. Cong(f2, e2)
    BY <1>1, <1>4, <2>4
  <2>6. QED
    BY <2>5, CongEqual
<1>7. ASSUME e1 = f1 PROVE h = 0
  <2>1. ih = 0
    BY <1>1, <1>2, <1>7
  <2>2. QED
    BY <1>3, <2>1, CongZero
<1>8. ASSUME e2 = f2 PROVE r = 0
  <2>1. ir = 0
    BY <1>1, <1>2, <1>8
  <2>2. QED
    BY <1>3, <2>1, CongZero
<1>9. QED
  BY <1>5, <1>6, <1>7, <1>8

----------------------------------------------------------------------------
(***************************************************************************)
(* What the routines compute of points on the curve.                       *)
(***************************************************************************)
OnCurve(p) == p \in Triples /\ Equation(p[1], p[2], p[3])

AffinePoints == {e \in F \X F : Equation(e[1], e[2], 1)}

\* Affine coordinates, (0, 0) for infinity
AffineOf(p) == IF IsInfinity(p) THEN <<0, 0>> ELSE ToAffine(p)

\* The field's form of the equation.
LEMMA OnTheCurveIs ==
  ASSUME NEW p \in Triples
  PROVE  /\ p[1] \in F /\ p[2] \in F /\ p[3] \in F /\ p = <<p[1], p[2], p[3]>>
         /\ OnTheCurve(p) <=> OnCurve(p)
<1>1. p[1] \in F /\ p[2] \in F /\ p[3] \in F /\ p = <<p[1], p[2], p[3]>>
  BY DEF Triples
<1>2. OnTheCurve(p) <=> Equation(p[1], p[2], p[3])
  BY <1>1, EquationIs DEF OnTheCurve
<1>3. QED
  BY <1>1, <1>2 DEF OnCurve

\* The code's test, of reduced coordinates.
LEMMA IsOnCurveIs ==
  ASSUME NEW p \in Triples, OnCurveExact(p)
  PROVE  IsOnCurve(p) <=> IsInfinity(p) \/ OnCurve(p)
<1>1. CASE IsInfinity(p)
  BY <1>1 DEF IsOnCurve
<1>2. CASE ~IsInfinity(p)
  <2>1. Squares({p[1], p[2], p[3], Cube(p[3])})
    BY <1>2 DEF OnCurveExact
  <2>2. Sqr(p[1]) = Square(p[1]) /\ Sqr(p[2]) = Square(p[2]) /\ Sqr(p[3]) = Square(p[3])
    BY <2>1 DEF Squares, Square
  <2>3. Cube(p[1]) = Cubed(p[1]) /\ Cube(p[3]) = Cubed(p[3])
    BY <2>2 DEF Cube, Cubed
  <2>4. Sqr(Cube(p[3])) = Square(Cubed(p[3]))
    BY <2>1, <2>3 DEF Squares, Square
  <2>5. IsOnCurve(p) <=> OnTheCurve(p)
    BY <1>2, <2>2, <2>3, <2>4 DEF IsOnCurve, OnTheCurve
  <2>6. QED
    BY <1>2, <2>5, OnTheCurveIs
<1>3. QED
  BY <1>1, <1>2

\* A finite point of the curve has affine coordinates on it.
LEMMA AffineOnCurve ==
  ASSUME NEW p, OnCurve(p), ~IsInfinity(p)
  PROVE  LET e == AffineOf(p)
         IN  /\ e \in AffinePoints /\ e # <<0, 0>> /\ e = ToAffine(p)
             /\ e = <<e[1], e[2]>> /\ e[1] \in F /\ e[2] \in F /\ Equation(e[1], e[2], 1)
             /\ Over(p[1], p[2], p[3], e[1], e[2])
<1>1. /\ p[1] \in F /\ p[2] \in F /\ p[3] \in F /\ p = <<p[1], p[2], p[3]>> /\ p[3] # 0
      /\ Equation(p[1], p[2], p[3])
  BY DEF OnCurve, Triples, IsInfinity
<1> DEFINE e == ToAffine(p)
<1>2. /\ e = <<e[1], e[2]>> /\ e[1] \in F /\ e[2] \in F
      /\ Over(p[1], p[2], p[3], e[1], e[2]) /\ Equation(e[1], e[2], 1)
  BY <1>1, AffineIs
<1>3. AffineOf(p) = e
  BY DEF AffineOf
<1> HIDE DEF e
<1>4. e \in F \X F
  BY <1>2
<1>5. e # <<0, 0>>
  BY <1>2, OriginOff
<1>6. QED
  BY <1>2, <1>3, <1>4, <1>5 DEF AffinePoints, e

\* A finite point is determined by its affine coordinates over its Z.
LEMMA AffineOfIs ==
  ASSUME NEW x \in F, NEW y \in F, NEW z \in F, z # 0, NEW e \in F, NEW f \in F,
         Over(x, y, z, e, f)
  PROVE  AffineOf(<<x, y, z>>) = <<e, f>>
<1>1. ToAffine(<<x, y, z>>) = <<e, f>>
  BY AffineUnique
<1>2. <<x, y, z>>[3] = z
  OBVIOUS
<1>3. QED
  BY <1>1, <1>2 DEF AffineOf, IsInfinity

\* Zero is on the curve.
LEMMA ZeroOnCurve == OnCurve(Zero) /\ IsInfinity(Zero)
<1>1. Cubic(0, 0) = 0 /\ 0 * 0 = 0
  BY DEF Cubic
<1>2. Equation(0, 0, 0)
  BY <1>1, Numerals DEF Equation
<1>3. QED
  BY <1>2, Numerals DEF Zero, OnCurve, Triples, IsInfinity

\* Doubling stays on the curve and adds the point to itself, infinity
\* included, and a point of order two if there is one.
LEMMA DblRight ==
  ASSUME NEW p, OnCurve(p), DblExact(p)
  PROVE  LET d == JacobianDbl(p)
         IN  /\ OnCurve(d)
             /\ IsInfinity(p) => IsInfinity(d)
             /\ ~IsInfinity(p) => AffineOf(d) = AffineAdd(AffineOf(p), AffineOf(p))
<1> DEFINE x == p[1]
           y == p[2]
           z == p[3]
           d == JacobianDbl(p)
           d1 == d[1]
           d2 == d[2]
           d3 == d[3]
<1>1. x \in F /\ y \in F /\ z \in F /\ p = <<x, y, z>> /\ Equation(x, y, z)
  BY DEF OnCurve, Triples
<1>2. IsInfinity(p) <=> z = 0
  BY DEF IsInfinity
<1>3. IsInfinity(d) <=> d3 = 0
  BY DEF IsInfinity
<1>4. d3 = 2 ** (z ** y)
  BY DEF JacobianDbl
<1>5. d = <<d1, d2, d3>> /\ d1 \in F /\ d2 \in F /\ d3 \in F
  BY <1>1, DblIs
<1>6. /\ DblX(x, y) \in Int /\ DblY(x, y) \in Int /\ DblZ(y, z) \in Int
      /\ DblM(x) \in Int /\ DblS(x, y) \in Int /\ DblV(y) \in Int
  BY <1>1, DblIs
<1>7. Cong(d1, DblX(x, y)) /\ Cong(d2, DblY(x, y)) /\ Cong(d3, DblZ(y, z))
  BY <1>1, DblIs
<1> HIDE DEF x, y, z, d, d1, d2, d3
<1>8. /\ x \in Int /\ y \in Int /\ z \in Int /\ d1 \in Int /\ d2 \in Int /\ d3 \in Int
      /\ z ** y \in F
  BY <1>1, <1>5, MulIs DEF F
<1>9. OnCurve(d)
  <2>1. Equation(DblX(x, y), DblY(x, y), DblZ(y, z))
    BY <1>1, <1>6, <1>8, DblOnCurve
  <2>2. Equation(d1, d2, d3)
    BY <1>6, <1>7, <1>8, <2>1, EquationCong
  <2>3. d \in Triples
    BY <1>5 DEF Triples
  <2>4. QED
    BY <2>2, <2>3 DEF OnCurve, d1, d2, d3
<1>10. d3 = 0 <=> z = 0 \/ y = 0
  <2> DEFINE zy == z ** y
  <2>1. zy = 0 <=> z = 0 \/ y = 0
    BY <1>1, MulNotZero
  <2>2. zy \in F /\ d3 = 2 ** zy
    BY <1>4, <1>8
  <2> HIDE DEF zy
  <2>3. 2 ** zy = 0 <=> 2 = 0 \/ zy = 0
    BY <2>2, Numerals, MulNotZero
  <2>4. QED
    BY <2>1, <2>2, <2>3
<1>11. ASSUME ~IsInfinity(p) PROVE AffineOf(d) = AffineAdd(AffineOf(p), AffineOf(p))
  <2> DEFINE e == AffineOf(p)
             e1 == e[1]
             e2 == e[2]
  <2>1. e = <<e1, e2>> /\ e1 \in F /\ e2 \in F /\ Equation(e1, e2, 1)
    BY <1>11, AffineOnCurve
  <2>2. Over(x, y, z, e1, e2) /\ z # 0
    BY <1>2, <1>11, AffineOnCurve DEF x, y, z
  <2> HIDE DEF e, e1, e2
  <2>3. e1 \in Int /\ e2 \in Int /\ 2 * e2 = e2 + e2 /\ 2 * 0 = 0
    BY <2>1 DEF F
  <2>4. y = 0 <=> e2 = 0
    <3>1. ASSUME y = 0 PROVE e2 = 0
      <4>1. Over(x, y, z, e1, 0)
        <5>1. 0 * (z * (z * z)) = 0
          BY <1>8
        <5>2. QED
          BY <2>2, <3>1, <5>1, Numerals DEF Over
      <4>2. AffineOf(<<x, y, z>>) = <<e1, 0>>
        BY <1>1, <2>1, <2>2, <4>1, Numerals, AffineOfIs
      <4>3. AffineOf(<<x, y, z>>) = <<e1, e2>>
        BY <1>1, <2>1, <2>2, AffineOfIs
      <4>4. QED
        BY <4>2, <4>3
    <3>2. ASSUME e2 = 0 PROVE y = 0
      <4>1. e2 * (z * (z * z)) = 0
        BY <1>8, <3>2
      <4>2. QED
        BY <1>1, <2>2, <4>1, CongZero DEF Over
    <3>3. QED
      BY <3>1, <3>2
  <2>5. (e2 + e2) % q = 0 <=> e2 = 0
    <3>1. (e2 + e2) % q = 2 ** e2
      BY <2>3 DEF **
    <3>2. QED
      BY <2>1, <3>1, Numerals, MulNotZero
  <2>6. CASE y = 0
    <3>1. AffineAdd(e, e) = <<0, 0>>
      BY <2>1, <2>4, <2>5, <2>6 DEF AffineAdd
    <3>2. AffineOf(d) = <<0, 0>>
      BY <1>3, <1>10, <2>6 DEF AffineOf
    <3>3. QED
      BY <3>1, <3>2 DEF e
  <2>7. CASE y # 0
    <3>1. PICK m, g1, g2 \in F :
             /\ AffineAdd(<<e1, e2>>, <<e1, e2>>) = <<g1, g2>>
             /\ Cong(m * (2 * e2), 3 * (e1 * e1))
             /\ Third(m, e1, e2, e1, g1, g2)
      BY <2>1, <2>4, <2>5, <2>7, Tangent
    <3>2. m \in Int /\ g1 \in Int /\ g2 \in Int
      BY DEF F
    <3>3. Over(DblX(x, y), DblY(x, y), DblZ(y, z), g1, g2)
      BY <1>6, <1>8, <2>2, <2>3, <3>1, <3>2, DblOver DEF Third
    <3>4. Over(d1, d2, d3, g1, g2)
      BY <1>6, <1>7, <1>8, <3>2, <3>3, OverCong
    <3>5. AffineOf(<<d1, d2, d3>>) = <<g1, g2>>
      BY <1>5, <1>10, <2>2, <2>7, <3>4, AffineOfIs
    <3>6. QED
      BY <1>5, <2>1, <3>1, <3>5 DEF e
  <2>8. QED
    BY <2>6, <2>7
<1>12. QED
  BY <1>2, <1>3, <1>9, <1>10, <1>11 DEF d

\* The sum by the chord, over the common Z of two points, stays on the curve;
\* it is the sum if the points have different abscissas, and infinity if not.
LEMMA ChordRight ==
  ASSUME NEW u, NEW v, NEW h, NEW r, NEW z, NEW e1, NEW e2, NEW f1, NEW f2,
         Over(u, v, z, e1, e2), Apart(h, r, z, e1, e2, f1, f2), z # 0,
         u \in F, v \in F, h \in F, r \in F, z \in F,
         e1 \in F, e2 \in F, f1 \in F, f2 \in F,
         Equation(e1, e2, 1), Equation(f1, f2, 1), Squares({h, r})
  PROVE  LET d == Chord(u, v, h, r, z)
         IN  /\ OnCurve(d)
             /\ IsInfinity(d) <=> h = 0
             /\ h # 0 => AffineOf(d) = AffineAdd(<<e1, e2>>, <<f1, f2>>)
<1> DEFINE d == Chord(u, v, h, r, z)
           d1 == d[1]
           d2 == d[2]
           d3 == d[3]
<1>1. d = <<d1, d2, d3>> /\ d1 \in F /\ d2 \in F /\ d3 \in F
  BY ChordIs
<1>2. /\ ChX(u, h, r) \in Int /\ ChY(u, v, h, r) \in Int /\ ChZ(h, z) \in Int
      /\ ChS(u, h) \in Int /\ ChC(h) \in Int /\ ChV(v, h) \in Int
  BY ChordIs, ZenonT(60)
<1>3. Cong(d1, ChX(u, h, r)) /\ Cong(d2, ChY(u, v, h, r)) /\ Cong(d3, ChZ(h, z))
  BY ChordIs
<1>4. d3 = h ** z
  BY DEF Chord
<1>5. IsInfinity(d) <=> d3 = 0
  BY DEF IsInfinity
<1> HIDE DEF d, d1, d2, d3
<1>6. /\ u \in Int /\ v \in Int /\ h \in Int /\ r \in Int /\ z \in Int
      /\ e1 \in Int /\ e2 \in Int /\ f1 \in Int /\ f2 \in Int
      /\ d1 \in Int /\ d2 \in Int /\ d3 \in Int
  BY <1>1 DEF F
<1>7. d3 = 0 <=> h = 0
  BY <1>4, MulNotZero
<1>8. OnCurve(d)
  <2>1. Equation(u, v, z)
    BY <1>6, OverOnCurve
  <2>2. Equation(u + h, v + r, z)
    <3>1. Over(u + h, v + r, z, f1, f2)
      BY <1>6, OverAdd
    <3>2. u + h \in Int /\ v + r \in Int
      BY <1>6
    <3>3. QED
      BY <1>6, <3>1, <3>2, OverOnCurve
  <2>3. Equation(ChX(u, h, r), ChY(u, v, h, r), ChZ(h, z))
    BY <1>2, <1>6, <2>1, <2>2, ChordOnCurve
  <2>4. Equation(d1, d2, d3)
    BY <1>2, <1>3, <1>6, <2>3, EquationCong
  <2>5. d \in Triples
    BY <1>1 DEF Triples
  <2>6. QED
    BY <2>4, <2>5 DEF OnCurve, d1, d2, d3
<1>9. ASSUME h # 0 PROVE AffineOf(d) = AffineAdd(<<e1, e2>>, <<f1, f2>>)
  <2>1. e1 # f1
    <3>1. h = 0 <=> e1 = f1
      BY DifferenceZero
    <3>2. QED
      BY <1>9, <3>1
  <2>2. PICK m, g1, g2 \in F :
           /\ AffineAdd(<<e1, e2>>, <<f1, f2>>) = <<g1, g2>>
           /\ Cong(m * (f1 - e1), f2 - e2)
           /\ Third(m, e1, e2, f1, g1, g2)
    BY <2>1, Secant
  <2>3. m \in Int /\ g1 \in Int /\ g2 \in Int
    BY DEF F
  <2>4. Over(ChX(u, h, r), ChY(u, v, h, r), ChZ(h, z), g1, g2)
    BY <1>2, <1>6, <2>2, <2>3, ChordOver DEF Third, Apart
  <2>5. Over(d1, d2, d3, g1, g2)
    BY <1>2, <1>3, <1>6, <2>3, <2>4, OverCong
  <2>6. AffineOf(<<d1, d2, d3>>) = <<g1, g2>>
    BY <1>1, <1>7, <1>9, <2>5, AffineOfIs
  <2>7. QED
    BY <1>1, <2>2, <2>6
<1>10. QED
  BY <1>5, <1>7, <1>8, <1>9 DEF d

\* Exact squares of the Zs.
LEMMA OverIs ==
  ASSUME NEW p1, NEW p2, Squares({p1[3], p2[3]})
  PROVE  /\ XOver(p1, p2) = p1[1] ** Square(p2[3]) /\ YOver(p1, p2) = p1[2] ** Cubed(p2[3])
         /\ XOver(p2, p1) = p2[1] ** Square(p1[3]) /\ YOver(p2, p1) = p2[2] ** Cubed(p1[3])
<1>1. Sqr(p1[3]) = Square(p1[3]) /\ Sqr(p2[3]) = Square(p2[3])
  BY DEF Squares, Square
<1>2. QED
  BY <1>1 DEF XOver, YOver, Cube, Cubed

\* The coordinates of two finite points of the curve over their common Z, as
\* the addition and the comparison compute them.
LEMMA CommonZ ==
  ASSUME NEW p1, NEW p2, OnCurve(p1), OnCurve(p2), ~IsInfinity(p1), ~IsInfinity(p2)
  PROVE  LET e  == AffineOf(p1)
             f  == AffineOf(p2)
             z  == p1[3] ** p2[3]
             U1 == p1[1] ** Square(p2[3])
             S1 == p1[2] ** Cubed(p2[3])
             U2 == p2[1] ** Square(p1[3])
             S2 == p2[2] ** Cubed(p1[3])
         IN  /\ U1 \in F /\ S1 \in F /\ U2 \in F /\ S2 \in F /\ z \in F /\ z # 0
             /\ Over(U1, S1, z, e[1], e[2]) /\ Over(U2, S2, z, f[1], f[2])
<1> DEFINE e  == AffineOf(p1)
           f  == AffineOf(p2)
           e1 == e[1]
           e2 == e[2]
           f1 == f[1]
           f2 == f[2]
           x1 == p1[1]
           y1 == p1[2]
           z1 == p1[3]
           x2 == p2[1]
           y2 == p2[2]
           z2 == p2[3]
<1>1. x1 \in F /\ y1 \in F /\ z1 \in F /\ x2 \in F /\ y2 \in F /\ z2 \in F /\ z1 # 0 /\ z2 # 0
  BY DEF OnCurve, Triples, IsInfinity
<1>2. e1 \in F /\ e2 \in F /\ Over(x1, y1, z1, e1, e2)
  BY AffineOnCurve
<1>3. f1 \in F /\ f2 \in F /\ Over(x2, y2, z2, f1, f2)
  BY AffineOnCurve
<1> HIDE DEF e, f, e1, e2, f1, f2, x1, y1, z1, x2, y2, z2
<1>4. z1 ** z2 = z2 ** z1
  <2>1. z1 * z2 = z2 * z1
    BY <1>1 DEF F
  <2>2. QED
    BY <2>1 DEF **
<1>5. /\ x1 ** Square(z2) \in F /\ y1 ** Cubed(z2) \in F /\ z1 ** z2 \in F
      /\ Over(x1 ** Square(z2), y1 ** Cubed(z2), z1 ** z2, e1, e2)
  BY <1>1, <1>2, Lift
<1>6. /\ x2 ** Square(z1) \in F /\ y2 ** Cubed(z1) \in F
      /\ Over(x2 ** Square(z1), y2 ** Cubed(z1), z2 ** z1, f1, f2)
  BY <1>1, <1>3, Lift
<1>7. z1 ** z2 # 0
  BY <1>1, MulNotZero
<1>8. QED
  BY <1>4, <1>5, <1>6, <1>7 DEF e, f, e1, e2, f1, f2, x1, y1, z1, x2, y2, z2

\* Addition is complete: it stays on the curve, infinity is neutral, and
\* finite points are added by the group law, equal and opposite ones too.
LEMMA JacobianAddRight ==
  ASSUME NEW p1, NEW p2, OnCurve(p1), OnCurve(p2), AddExact(p1, p2)
  PROVE  LET d == JacobianAdd(p1, p2)
         IN  /\ OnCurve(d)
             /\ IsInfinity(p2) => d = p1
             /\ IsInfinity(p1) /\ ~IsInfinity(p2) => d = p2
             /\ ~IsInfinity(p1) /\ ~IsInfinity(p2) =>
                  AffineOf(d) = AffineAdd(AffineOf(p1), AffineOf(p2))
<1> DEFINE U1 == p1[1] ** Square(p2[3])
           S1 == p1[2] ** Cubed(p2[3])
           U2 == p2[1] ** Square(p1[3])
           S2 == p2[2] ** Cubed(p1[3])
           H == U2 -- U1
           R == S2 -- S1
           Z == p1[3] ** p2[3]
           d == JacobianAdd(p1, p2)
<1>1. /\ IsInfinity(p2) => d = p1
      /\ IsInfinity(p1) /\ ~IsInfinity(p2) => d = p2
  BY DEF JacobianAdd
<1>2. ASSUME ~IsInfinity(p1), ~IsInfinity(p2)
      PROVE  /\ d = IF H = 0 THEN IF R = 0 THEN JacobianDbl(p1) ELSE Zero ELSE Chord(U1, S1, H, R, Z)
             /\ H # 0 => Squares({H, R})
             /\ H = 0 /\ R = 0 => DblExact(p1)
  <2>1. /\ XOver(p1, p2) = U1 /\ YOver(p1, p2) = S1
        /\ XOver(p2, p1) = U2 /\ YOver(p2, p1) = S2
    BY <1>2, OverIs DEF AddExact
  <2>2. QED
    BY <1>2, <2>1 DEF JacobianAdd, AddExact
<1> HIDE DEF d
<1>3. CASE IsInfinity(p2)
  <2>1. d = p1
    BY <1>1, <1>3
  <2>2. QED
    BY <1>3, <2>1 DEF d
<1>4. CASE IsInfinity(p1) /\ ~IsInfinity(p2)
  <2>1. d = p2
    BY <1>1, <1>4
  <2>2. QED
    BY <1>4, <2>1 DEF d
<1>5. CASE ~IsInfinity(p1) /\ ~IsInfinity(p2)
  <2> DEFINE e  == AffineOf(p1)
             f  == AffineOf(p2)
             e1 == e[1]
             e2 == e[2]
             f1 == f[1]
             f2 == f[2]
  <2>1. e = <<e1, e2>> /\ e1 \in F /\ e2 \in F /\ Equation(e1, e2, 1)
    BY <1>5, AffineOnCurve
  <2>2. f = <<f1, f2>> /\ f1 \in F /\ f2 \in F /\ Equation(f1, f2, 1)
    BY <1>5, AffineOnCurve
  <2>3. /\ U1 \in F /\ S1 \in F /\ U2 \in F /\ S2 \in F /\ Z \in F /\ Z # 0
        /\ Over(U1, S1, Z, e1, e2) /\ Over(U2, S2, Z, f1, f2)
    BY <1>5, CommonZ
  <2>4. /\ d = IF H = 0 THEN IF R = 0 THEN JacobianDbl(p1) ELSE Zero ELSE Chord(U1, S1, H, R, Z)
        /\ H # 0 => Squares({H, R})
        /\ H = 0 /\ R = 0 => DblExact(p1)
    BY <1>2, <1>5
  <2> HIDE DEF e, f, e1, e2, f1, f2, U1, S1, U2, S2, Z
  <2>5. H \in F /\ R \in F /\ Apart(H, R, Z, e1, e2, f1, f2)
    BY <2>1, <2>2, <2>3, OverSub
  <2> HIDE DEF H, R
  <2>6. (H = 0 <=> e1 = f1) /\ (R = 0 <=> e2 = f2)
    BY <2>1, <2>2, <2>3, <2>5, DifferenceZero
  <2>7. CASE H # 0
    <3>1. /\ OnCurve(Chord(U1, S1, H, R, Z))
          /\ AffineOf(Chord(U1, S1, H, R, Z)) = AffineAdd(<<e1, e2>>, <<f1, f2>>)
      BY <2>1, <2>2, <2>3, <2>4, <2>5, <2>7, ChordRight
    <3>2. QED
      BY <1>5, <2>1, <2>2, <2>4, <2>7, <3>1 DEF d, e, f
  <2>8. CASE H = 0 /\ R = 0
    <3>1. OnCurve(JacobianDbl(p1)) /\ AffineOf(JacobianDbl(p1)) = AffineAdd(e, e)
      BY <1>5, <2>4, <2>8, DblRight DEF e
    <3>2. e = f
      BY <2>1, <2>2, <2>6, <2>8
    <3>3. QED
      BY <1>5, <2>4, <2>8, <3>1, <3>2 DEF d, e, f
  <2>9. CASE H = 0 /\ R # 0
    <3>1. e1 = f1 /\ (e2 + f2) % q = 0
      BY <2>1, <2>2, <2>6, <2>9, SameAbscissa
    <3>2. AffineAdd(e, f) = <<0, 0>>
      BY <2>1, <2>2, <3>1 DEF AffineAdd
    <3>3. AffineOf(Zero) = <<0, 0>> /\ OnCurve(Zero)
      BY ZeroOnCurve DEF AffineOf
    <3>4. QED
      BY <1>5, <2>4, <2>9, <3>2, <3>3 DEF d, e, f
  <2>10. QED
    BY <2>7, <2>8, <2>9
<1>6. QED
  BY <1>3, <1>4, <1>5

\* Addition of an affine point stays on the curve; it is complete but for
\* equal points, of which it makes infinity.
LEMMA AddAffineRight ==
  ASSUME NEW p, NEW e \in AffinePoints, OnCurve(p), AddAffineExact(p, e)
  PROVE  LET d == JacobianAddAffine(p, e)
         IN  /\ OnCurve(d)
             /\ IsInfinity(p) => ~IsInfinity(d) /\ AffineOf(d) = e
             /\ ~IsInfinity(p) =>
                  AffineOf(d) = IF AffineOf(p) = e THEN <<0, 0>> ELSE AffineAdd(AffineOf(p), e)
<1> DEFINE f1 == e[1]
           f2 == e[2]
           x == p[1]
           y == p[2]
           z == p[3]
           u == Square(z) ** f1
           v == Cubed(z) ** f2
           H == u -- x
           R == v -- y
           d == JacobianAddAffine(p, e)
<1>1. e = <<f1, f2>> /\ f1 \in F /\ f2 \in F /\ Equation(f1, f2, 1)
  BY DEF AffinePoints
<1>2. x \in F /\ y \in F /\ z \in F /\ (IsInfinity(p) <=> z = 0)
  BY DEF OnCurve, Triples, IsInfinity
<1>3. e # <<0, 0>>
  BY <1>1, OriginOff
<1>4. /\ IsInfinity(p) => d = <<f1, f2, 1>>
      /\ ~IsInfinity(p) => d = Chord(x, y, H, R, z) /\ Squares({H, R})
  <2>1. IsInfinity(p) => d = <<f1, f2, 1>>
    BY <1>3 DEF JacobianAddAffine
  <2>2. ASSUME ~IsInfinity(p) PROVE d = Chord(x, y, H, R, z) /\ Squares({H, R})
    <3>1. Squares({z, (Sqr(z) ** f1) -- x, (Cube(z) ** f2) -- y})
      BY <1>3, <2>2 DEF AddAffineExact
    <3>2. Sqr(z) = Square(z)
      BY <3>1 DEF Squares, Square
    <3>3. (Sqr(z) ** f1) -- x = H /\ (Cube(z) ** f2) -- y = R
      BY <3>2 DEF Cube, Cubed
    <3>4. Squares({H, R})
      BY <3>1, <3>3 DEF Squares
    <3>5. QED
      BY <1>3, <2>2, <3>3, <3>4 DEF JacobianAddAffine
  <2>3. QED
    BY <2>1, <2>2
<1> HIDE DEF d, f1, f2
<1>5. CASE IsInfinity(p)
  <2>1. d = <<f1, f2, 1>>
    BY <1>4, <1>5
  <2>2. OnCurve(d)
    BY <1>1, <2>1, Numerals DEF OnCurve, Triples
  <2>3. Over(f1, f2, 1, f1, f2)
    <3>1. f1 \in Int /\ f2 \in Int /\ f1 * (1 * 1) = f1 /\ f2 * (1 * (1 * 1)) = f2
      BY <1>1 DEF F
    <3>2. QED
      BY <3>1, CongRefl DEF Over
  <2>4. AffineOf(d) = <<f1, f2>>
    BY <1>1, <2>1, <2>3, Numerals, AffineOfIs
  <2>5. ~IsInfinity(d)
    BY <2>1 DEF IsInfinity
  <2>6. QED
    BY <1>1, <1>5, <2>2, <2>4, <2>5 DEF d
<1>6. CASE ~IsInfinity(p)
  <2> DEFINE a1 == AffineOf(p)[1]
             a2 == AffineOf(p)[2]
  <2>1. /\ AffineOf(p) = <<a1, a2>> /\ a1 \in F /\ a2 \in F /\ Equation(a1, a2, 1)
        /\ Over(x, y, z, a1, a2)
    BY <1>6, AffineOnCurve
  <2>2. u \in F /\ v \in F /\ Over(u, v, z, f1, f2)
    BY <1>1, <1>2, LiftAffine
  <2>3. d = Chord(x, y, H, R, z) /\ Squares({H, R}) /\ z # 0
    BY <1>2, <1>4, <1>6
  <2> HIDE DEF a1, a2, u, v, x, y, z
  <2>4. H \in F /\ R \in F /\ Apart(H, R, z, a1, a2, f1, f2)
    BY <1>1, <1>2, <2>1, <2>2, OverSub
  <2> HIDE DEF H, R
  <2>5. (H = 0 <=> a1 = f1) /\ (R = 0 <=> a2 = f2)
    BY <1>1, <1>2, <2>1, <2>3, <2>4, DifferenceZero
  <2>6. /\ OnCurve(d)
        /\ IsInfinity(d) <=> H = 0
        /\ H # 0 => AffineOf(d) = AffineAdd(<<a1, a2>>, <<f1, f2>>)
    BY <1>1, <1>2, <2>1, <2>3, <2>4, ChordRight
  <2>7. CASE H # 0
    <3>1. AffineOf(p) # e
      BY <1>1, <2>1, <2>5, <2>7
    <3>2. QED
      BY <1>1, <1>6, <2>1, <2>6, <2>7, <3>1 DEF d
  <2>8. CASE H = 0
    <3>1. AffineOf(d) = <<0, 0>>
      BY <2>6, <2>8 DEF AffineOf
    <3>2. ASSUME AffineOf(p) # e PROVE AffineAdd(AffineOf(p), e) = <<0, 0>>
      <4>1. a1 = f1 /\ a2 # f2
        BY <1>1, <2>1, <2>5, <2>8, <3>2
      <4>2. (a2 + f2) % q = 0
        BY <1>1, <2>1, <4>1, SameAbscissa
      <4>3. QED
        BY <1>1, <2>1, <4>1, <4>2 DEF AffineAdd
    <3>3. QED
      BY <1>6, <2>6, <3>1, <3>2 DEF d
  <2>9. QED
    BY <2>7, <2>8
<1>7. QED
  BY <1>5, <1>6

\* Comparison is equality of affine coordinates, whatever the Zs.
LEMMA CmpRight ==
  ASSUME NEW p1, NEW p2, OnCurve(p1), OnCurve(p2), CmpExact(p1, p2)
  PROVE  PointCmp(p1, p2) <=> AffineOf(p1) = AffineOf(p2)
<1>1. CASE IsInfinity(p1) /\ IsInfinity(p2)
  BY <1>1 DEF PointCmp, AffineOf
<1>2. CASE IsInfinity(p1) /\ ~IsInfinity(p2)
  <2>1. AffineOf(p1) = <<0, 0>> /\ AffineOf(p2) # <<0, 0>>
    BY <1>2, AffineOnCurve DEF AffineOf
  <2>2. QED
    BY <1>2, <2>1 DEF PointCmp
<1>3. CASE ~IsInfinity(p1) /\ IsInfinity(p2)
  <2>1. AffineOf(p2) = <<0, 0>> /\ AffineOf(p1) # <<0, 0>>
    BY <1>3, AffineOnCurve DEF AffineOf
  <2>2. QED
    BY <1>3, <2>1 DEF PointCmp
<1>4. CASE ~IsInfinity(p1) /\ ~IsInfinity(p2)
  <2> DEFINE e  == AffineOf(p1)
             f  == AffineOf(p2)
             e1 == e[1]
             e2 == e[2]
             f1 == f[1]
             f2 == f[2]
             Z  == p1[3] ** p2[3]
             U1 == p1[1] ** Square(p2[3])
             S1 == p1[2] ** Cubed(p2[3])
             U2 == p2[1] ** Square(p1[3])
             S2 == p2[2] ** Cubed(p1[3])
             H == U2 -- U1
             R == S2 -- S1
  <2>1. e = <<e1, e2>> /\ e1 \in F /\ e2 \in F
    BY <1>4, AffineOnCurve
  <2>2. f = <<f1, f2>> /\ f1 \in F /\ f2 \in F
    BY <1>4, AffineOnCurve
  <2>3. /\ U1 \in F /\ S1 \in F /\ U2 \in F /\ S2 \in F /\ Z \in F /\ Z # 0
        /\ Over(U1, S1, Z, e1, e2) /\ Over(U2, S2, Z, f1, f2)
    BY <1>4, CommonZ
  <2>4. PointCmp(p1, p2) <=> U1 = U2 /\ S1 = S2
    BY <1>4, OverIs DEF PointCmp, CmpExact
  <2> HIDE DEF e, f, e1, e2, f1, f2, U1, S1, U2, S2, Z
  <2>5. H \in F /\ R \in F /\ Apart(H, R, Z, e1, e2, f1, f2)
    BY <2>1, <2>2, <2>3, OverSub
  <2>6. (H = 0 <=> U2 = U1) /\ (R = 0 <=> S2 = S1)
    BY <2>3, SubZero
  <2> HIDE DEF H, R
  <2>7. (H = 0 <=> e1 = f1) /\ (R = 0 <=> e2 = f2)
    BY <2>1, <2>2, <2>3, <2>5, DifferenceZero
  <2>8. PointCmp(p1, p2) <=> e = f
    BY <2>1, <2>2, <2>4, <2>6, <2>7
  <2>9. QED
    BY <2>8 DEF e, f
<1>5. QED
  BY <1>1, <1>2, <1>3, <1>4

\* get_affine of a point whose Z is inverted rightly, and whose quotients are
\* converted rightly, by X and Y over powers of Z.
LEMMA GetAffineIs ==
  ASSUME NEW p \in Triples, ~IsInfinity(p), GetAffineExact(p)
  PROVE  GetAffine(p) = ToAffine(p)
<1> DEFINE z == p[3]
           v == ModInverse[z]
           w == Reciprocal[z]
<1>1. p[1] \in F /\ p[2] \in F /\ z \in F /\ z # 0 /\ z \in 1..q - 1
  BY DEF Triples, IsInfinity, F
<1>2. v \in F /\ z ** v = 1 /\ Sqr(v) = Square(v)
  BY <1>1, MontAssumption DEF GetAffineExact, Squares, Square
<1>3. w \in F /\ Cong(z * w, 1)
  BY <1>1, InverseIs
<1>4. GetAffine(p) = <<FromMont[Sqr(v) ** p[1]], FromMont[(v ** Sqr(v)) ** p[2]]>>
  BY DEF GetAffine
<1>5. FromMont[Sqr(v) ** p[1]] = Sqr(v) ** p[1] /\ FromMont[(v ** Sqr(v)) ** p[2]] = (v ** Sqr(v)) ** p[2]
  BY DEF GetAffineExact
<1>6. ToAffine(p) = <<Square(w) ** p[1], (w ** Square(w)) ** p[2]>>
  BY DEF ToAffine
<1> HIDE DEF z, v, w
<1>7. v = w
  <2>1. v \in Int /\ w \in Int /\ z \in Int /\ v * z = z * v /\ w * z = z * w
    BY <1>1, <1>2, <1>3 DEF F
  <2>2. Cong(1, z * v) /\ Cong(1, z * w) /\ z * v \in Int /\ z * w \in Int
    BY <1>2, <1>3, <2>1, MulIs, CongSym, Numerals
  <2>3. Cong(z * v, z * w)
    <3>1. Cong(z * v, 1)
      BY <2>2, Numerals, CongSym
    <3>2. QED
      BY <2>2, <3>1, Numerals, CongTrans
  <2>4. Cong(v, w)
    BY <1>1, <2>1, <2>3, CongCancel
  <2>5. QED
    BY <1>2, <1>3, <2>4, CongEqual
<1>8. QED
  BY <1>2, <1>4, <1>5, <1>6, <1>7

----------------------------------------------------------------------------
(***************************************************************************)
(* Typing: whatever sqr_mont, from_mont and mod_inverse return, the        *)
(* results are triples of reduced coordinates.                             *)
(***************************************************************************)
\* Products, differences and squares, and so the sum by the chord.
LEMMA FieldTypes ==
  /\ \A x, y \in F : x ** y \in F /\ x -- y \in F
  /\ \A x \in F : Sqr(x) \in F /\ Cube(x) \in F
  /\ 2 \in F /\ 3 \in F /\ 0 \in F /\ 1 \in F
<1>1. \A x, y \in F : x ** y \in F /\ x -- y \in F
  BY MulIs, SubIs DEF F
<1>2. \A x \in F : Sqr(x) \in F
  BY MontAssumption DEF Sqr
<1>3. \A x \in F : Cube(x) \in F
  BY <1>1, <1>2 DEF Cube
<1>4. QED
  BY <1>1, <1>2, <1>3, Modulus DEF F

\* The chord's sum of reduced numbers is reduced.
LEMMA ChordTypes ==
  ASSUME NEW u \in F, NEW v \in F, NEW h \in F, NEW r \in F, NEW z \in F
  PROVE  Chord(u, v, h, r, z) \in Triples
<1> DEFINE x3 == (Sqr(r) -- (2 ** (u ** Sqr(h)))) -- Cube(h)
<1>1. Sqr(r) \in F /\ Sqr(h) \in F /\ Cube(h) \in F /\ u ** Sqr(h) \in F /\ v ** Cube(h) \in F
  BY FieldTypes
<1>2. 2 ** (u ** Sqr(h)) \in F
  BY <1>1, FieldTypes
<1>3. Sqr(r) -- (2 ** (u ** Sqr(h))) \in F
  BY <1>1, <1>2, FieldTypes
<1>4. x3 \in F
  BY <1>1, <1>3, FieldTypes
<1>5. Chord(u, v, h, r, z)
        = <<x3, (r ** ((u ** Sqr(h)) -- x3)) -- (v ** Cube(h)), h ** z>>
  BY DEF Chord
<1> HIDE DEF x3
<1>6. r ** ((u ** Sqr(h)) -- x3) \in F
  BY <1>1, <1>4, FieldTypes
<1>7. (r ** ((u ** Sqr(h)) -- x3)) -- (v ** Cube(h)) \in F /\ h ** z \in F
  BY <1>1, <1>6, FieldTypes
<1>8. QED
  BY <1>4, <1>5, <1>7 DEF Triples

\* So is the double of a triple,
LEMMA DblTypes ==
  ASSUME NEW p \in Triples
  PROVE  JacobianDbl(p) \in Triples
<1> DEFINE x == p[1]
           y == p[2]
           z == p[3]
           y2 == Sqr(2 ** y)
           m == 3 ** Sqr(x)
           s == y2 ** x
           x3 == Sqr(m) -- (2 ** s)
<1>1. JacobianDbl(p) = <<x3, ((s -- x3) ** m) -- Half(Sqr(y2)), 2 ** (z ** y)>>
  BY DEF JacobianDbl
<1>2. x \in F /\ y \in F /\ z \in F
  BY DEF Triples
<1>3. y2 \in F /\ m \in F /\ z ** y \in F
  BY <1>2, FieldTypes
<1> HIDE DEF y2, m
<1>4. s \in F /\ Sqr(m) \in F /\ Sqr(y2) \in F /\ 2 ** (z ** y) \in F
  BY <1>2, <1>3, FieldTypes
<1> HIDE DEF s, x, y, z
<1>5. x3 \in F
  <2>1. 2 ** s \in F
    BY <1>4, FieldTypes
  <2>2. QED
    BY <1>4, <2>1, FieldTypes
<1> HIDE DEF x3
<1>6. Half(Sqr(y2)) \in F
  BY <1>4, Modulus DEF Half, F
<1>7. ((s -- x3) ** m) -- Half(Sqr(y2)) \in F
  <2>1. s -- x3 \in F
    BY <1>4, <1>5, FieldTypes
  <2>2. (s -- x3) ** m \in F
    BY <1>3, <2>1, FieldTypes
  <2>3. QED
    BY <1>6, <2>2, FieldTypes
<1>8. QED
  BY <1>1, <1>4, <1>5, <1>7 DEF Triples

\* the sum of two,
LEMMA AddTypes ==
  ASSUME NEW p1 \in Triples, NEW p2 \in Triples
  PROVE  JacobianAdd(p1, p2) \in Triples
<1> DEFINE u1 == XOver(p1, p2)
           s1 == YOver(p1, p2)
           h  == XOver(p2, p1) -- u1
           r  == YOver(p2, p1) -- s1
           z  == p1[3] ** p2[3]
<1>1. /\ p1[1] \in F /\ p1[2] \in F /\ p1[3] \in F
      /\ p2[1] \in F /\ p2[2] \in F /\ p2[3] \in F
  BY DEF Triples
<1>2. /\ Sqr(p1[3]) \in F /\ Cube(p1[3]) \in F
      /\ Sqr(p2[3]) \in F /\ Cube(p2[3]) \in F
  BY <1>1, FieldTypes
<1>3. u1 \in F /\ s1 \in F /\ XOver(p2, p1) \in F /\ YOver(p2, p1) \in F /\ z \in F
  BY <1>1, <1>2, FieldTypes DEF XOver, YOver
<1>4. JacobianAdd(p1, p2) \in {JacobianDbl(p1), Zero, p1, p2, Chord(u1, s1, h, r, z)}
  BY DEF JacobianAdd
<1> HIDE DEF u1, s1, z
<1>5. h \in F /\ r \in F
  BY <1>3, FieldTypes
<1> HIDE DEF h, r
<1>6. Chord(u1, s1, h, r, z) \in Triples
  BY <1>3, <1>5, ChordTypes
<1>7. JacobianDbl(p1) \in Triples
  BY DblTypes
<1>8. Zero \in Triples
  BY FieldTypes DEF Zero, Triples
<1>9. QED
  BY <1>4, <1>6, <1>7, <1>8

\* the sum of a triple and an affine point,
LEMMA AddAffineTypes ==
  ASSUME NEW p \in Triples, NEW e \in F \X F
  PROVE  JacobianAddAffine(p, e) \in Triples
<1> DEFINE h == (Sqr(p[3]) ** e[1]) -- p[1]
           r == (Cube(p[3]) ** e[2]) -- p[2]
<1>1. p[1] \in F /\ p[2] \in F /\ p[3] \in F /\ e[1] \in F /\ e[2] \in F
  BY DEF Triples
<1>2. Sqr(p[3]) ** e[1] \in F /\ Cube(p[3]) ** e[2] \in F
  BY <1>1, FieldTypes
<1>3. h \in F /\ r \in F
  BY <1>1, <1>2, FieldTypes
<1>4. JacobianAddAffine(p, e) \in {p, <<e[1], e[2], 1>>, Chord(p[1], p[2], h, r, p[3])}
  BY DEF JacobianAddAffine
<1> HIDE DEF h, r
<1>5. Chord(p[1], p[2], h, r, p[3]) \in Triples
  BY <1>1, <1>3, ChordTypes
<1>6. <<e[1], e[2], 1>> \in Triples
  BY <1>1, FieldTypes DEF Triples
<1>7. QED
  BY <1>4, <1>5, <1>6

\* and the affine coordinates, also as a triple with a Z of 1.
LEMMA GetAffineTypes ==
  ASSUME NEW p \in Triples, ~IsInfinity(p)
  PROVE  LET e == GetAffine(p)
         IN  e \in F \X F /\ <<e[1], e[2], 1>> \in Triples
<1> DEFINE v == ModInverse[p[3]]
           x == Sqr(v) ** p[1]
           y == (v ** Sqr(v)) ** p[2]
<1>1. p[1] \in F /\ p[2] \in F /\ p[3] \in 1..q - 1
  BY DEF Triples, IsInfinity, F
<1>2. GetAffine(p) = <<FromMont[x], FromMont[y]>>
  BY DEF GetAffine
<1>3. v \in F
  BY <1>1, MontAssumption
<1> HIDE DEF v
<1>4. Sqr(v) \in F
  BY <1>3, FieldTypes
<1>5. v ** Sqr(v) \in F
  BY <1>3, <1>4, FieldTypes
<1>6. x \in F /\ y \in F
  BY <1>1, <1>4, <1>5, FieldTypes
<1> HIDE DEF x, y
<1>7. FromMont[x] \in F /\ FromMont[y] \in F
  BY <1>6, MontAssumption
<1>8. QED
  BY <1>2, <1>7, FieldTypes DEF Triples

----------------------------------------------------------------------------
(***************************************************************************)
(* The inductive invariant: as long as no call has come upon an operand    *)
(* that is squared or converted wrongly, b is on the curve, and a is       *)
(* unless set_affine has refused it.  For infinity that is more than the   *)
(* code's test says: X and Y are then not arbitrary.                       *)
(***************************************************************************)
IInv ==
  /\ TypeOK
  /\ exact => OnCurve(b) /\ (OnCurve(a) \/ Refused)

\* A point the caller goes on with is on the curve.
LEMMA UsableOnCurve ==
  ASSUME IInv, exact, ~Refused
  PROVE  OnCurve(a) /\ OnCurve(b)
BY DEF IInv

\* An affine point over a Z of 1.
LEMMA OverOne ==
  ASSUME NEW x \in F, NEW y \in F
  PROVE  /\ <<x, y, 1>> \in Triples /\ ~IsInfinity(<<x, y, 1>>)
         /\ OnCurveExact(<<x, y, 1>>) => (IsOnCurve(<<x, y, 1>>) <=> OnCurve(<<x, y, 1>>))
         /\ OnTheCurve(<<x, y, 1>>) <=> OnCurve(<<x, y, 1>>)
         /\ OnCurve(<<x, y, 1>>) <=> <<x, y>> \in AffinePoints
         /\ AffineOf(<<x, y, 1>>) = <<x, y>>
<1> DEFINE p == <<x, y, 1>>
<1>1. p \in Triples /\ ~IsInfinity(p) /\ p[1] = x /\ p[2] = y /\ p[3] = 1
  BY Numerals DEF Triples, IsInfinity
<1>2. OnCurveExact(p) => (IsOnCurve(p) <=> OnCurve(p))
  BY <1>1, IsOnCurveIs
<1>3. OnTheCurve(p) <=> OnCurve(p)
  BY <1>1, OnTheCurveIs
<1>4. OnCurve(p) <=> <<x, y>> \in AffinePoints
  BY <1>1 DEF OnCurve, AffinePoints
<1>5. Over(x, y, 1, x, y)
  <2>1. x \in Int /\ y \in Int /\ x * (1 * 1) = x /\ y * (1 * (1 * 1)) = y
    BY DEF F
  <2>2. QED
    BY <2>1, CongRefl DEF Over
<1>6. AffineOf(p) = <<x, y>>
  BY <1>5, Numerals, AffineOfIs
<1>7. QED
  BY <1>1, <1>2, <1>3, <1>4, <1>6

\* The invariant holds at first.
LEMMA InitIInv == Init => IInv
<1> SUFFICES ASSUME Init PROVE IInv
  OBVIOUS
<1>1. a = Zero /\ b = Zero /\ op = "none" /\ ret = "none" /\ exact = TRUE
  BY DEF Init
<1>2. OnCurve(Zero) /\ Zero \in Triples
  BY ZeroOnCurve DEF OnCurve
<1>3. QED
  BY <1>1, <1>2 DEF IInv, TypeOK

\* The calls' exactness is a truth value.
LEMMA ExactTypes ==
  /\ \A p : DblExact(p) \in BOOLEAN /\ OnCurveExact(p) \in BOOLEAN /\ GetAffineExact(p) \in BOOLEAN
  /\ \A p1, p2 : AddExact(p1, p2) \in BOOLEAN /\ CmpExact(p1, p2) \in BOOLEAN
  /\ \A p, e : AddAffineExact(p, e) \in BOOLEAN
BY DEF DblExact, OnCurveExact, GetAffineExact, AddExact, CmpExact, AddAffineExact, Squares

\* What the addition of b's affine coordinates to a yields.
LEMMA AddAffineInPlaceRight ==
  ASSUME OnCurve(a), OnCurve(b)
  PROVE  LET e == IF IsInfinity(b) THEN <<0, 0>> ELSE GetAffine(b)
             d == JacobianAddAffine(a, e)
         IN  AddAffineExact(a, e) /\ (IsInfinity(b) \/ GetAffineExact(b)) =>
               /\ OnCurve(d)
               /\ IsInfinity(b) => d = a
               /\ ~IsInfinity(b) /\ IsInfinity(a) => ~IsInfinity(d) /\ AffineOf(d) = AffineOf(b)
               /\ ~IsInfinity(b) /\ ~IsInfinity(a) =>
                    AffineOf(d) = IF AffineOf(a) = AffineOf(b) THEN <<0, 0>>
                                  ELSE AffineAdd(AffineOf(a), AffineOf(b))
<1>1. CASE IsInfinity(b)
  <2>1. JacobianAddAffine(a, <<0, 0>>) = a
    BY DEF JacobianAddAffine
  <2>2. QED
    BY <1>1, <2>1
<1>2. CASE ~IsInfinity(b) /\ ~GetAffineExact(b)
  BY <1>2
<1>3. CASE ~IsInfinity(b) /\ GetAffineExact(b)
  <2> DEFINE e == AffineOf(b)
  <2>1. e \in AffinePoints /\ ToAffine(b) = e /\ b \in Triples
    BY <1>3, AffineOnCurve DEF OnCurve
  <2>2. GetAffine(b) = e
    BY <1>3, <2>1, GetAffineIs
  <2> HIDE DEF e
  <2>3. AddAffineExact(a, e) =>
          LET d == JacobianAddAffine(a, e)
          IN  /\ OnCurve(d)
              /\ IsInfinity(a) => ~IsInfinity(d) /\ AffineOf(d) = e
              /\ ~IsInfinity(a) =>
                   AffineOf(d) = IF AffineOf(a) = e THEN <<0, 0>> ELSE AffineAdd(AffineOf(a), e)
    BY <2>1, AddAffineRight
  <2>4. QED
    BY <1>3, <2>2, <2>3 DEF e
<1>4. QED
  BY <1>1, <1>2, <1>3

\* Affine coordinates that are filled in again are of the same point.
LEMMA NormaliseRight ==
  ASSUME NEW p, OnCurve(p), ~IsInfinity(p), GetAffineExact(p)
  PROVE  LET e == GetAffine(p)
             d == <<e[1], e[2], 1>>
         IN  OnCurve(d) /\ ~IsInfinity(d) /\ AffineOf(d) = AffineOf(p)
<1> DEFINE e == ToAffine(p)
<1>1. e \in AffinePoints /\ e = <<e[1], e[2]>> /\ e[1] \in F /\ e[2] \in F /\ AffineOf(p) = e
  BY AffineOnCurve
<1>2. GetAffine(p) = e
  BY GetAffineIs DEF OnCurve
<1> HIDE DEF e
<1>3. QED
  BY <1>1, <1>2, OverOne DEF e

\* Each step keeps the types.
LEMMA NextTypes == TypeOK /\ [Next]_vars => TypeOK'
<1> SUFFICES ASSUME TypeOK, [Next]_vars PROVE TypeOK'
  OBVIOUS
<1> USE DEF Call, TypeOK
<1>1. ASSUME NEW x \in F, NEW y \in F, SetAffine(x, y) PROVE TypeOK'
  <2>1. a' = <<x, y, 1>> /\ b' = b /\ exact' = OnCurveExact(a') /\ op' = "set_affine" /\ ret' \in {"OK", "ERR"}
    BY <1>1 DEF SetAffine, FillIn
  <2>2. QED
    BY <2>1, OverOne, ExactTypes
<1>2. CASE Copy
  BY <1>2 DEF Copy
<1>3. CASE PointDblInPlace
  BY <1>3, DblTypes, ExactTypes DEF PointDblInPlace
<1>4. CASE PointAddInPlace
  BY <1>4, AddTypes, ExactTypes DEF PointAddInPlace
<1>5. CASE PointAddAffineInPlace
  <2> DEFINE e == IF IsInfinity(b) THEN <<0, 0>> ELSE GetAffine(b)
  <2>1. /\ a' = JacobianAddAffine(a, e) /\ b' = b /\ op' = "add_affine" /\ ret' = "none"
        /\ exact' = (AddAffineExact(a, e) /\ (IsInfinity(b) \/ GetAffineExact(b)))
    BY <1>5 DEF PointAddAffineInPlace
  <2>2. e \in F \X F
    BY GetAffineTypes, FieldTypes
  <2> HIDE DEF e
  <2>3. a' \in Triples
    BY <2>1, <2>2, AddAffineTypes
  <2>4. exact' \in BOOLEAN
    BY <2>1
  <2>5. QED
    BY <2>1, <2>3, <2>4
<1>6. CASE Compare
  BY <1>6, ExactTypes DEF Compare
<1>7. CASE Normalise
  <2>1. CASE IsInfinity(a)
    BY <1>7, <2>1 DEF Normalise
  <2>2. CASE ~IsInfinity(a)
    <3>1. /\ a' = <<GetAffine(a)[1], GetAffine(a)[2], 1>> /\ b' = b
          /\ exact' = (GetAffineExact(a) /\ OnCurveExact(a'))
          /\ op' = "normalise" /\ ret' \in {"OK", "ERR"}
      BY <1>7, <2>2 DEF Normalise, FillIn
    <3>2. a' \in Triples
      BY <2>2, <3>1, GetAffineTypes
    <3>3. exact' \in BOOLEAN
      BY <3>1
    <3>4. QED
      BY <3>1, <3>2, <3>3
  <2>3. QED
    BY <2>1, <2>2
<1>8. CASE Stopped \/ UNCHANGED vars
  BY <1>8 DEF Stopped, vars
<1>9. QED
  BY <1>1, <1>2, <1>3, <1>4, <1>5, <1>6, <1>7, <1>8 DEF Next

\* Each step keeps the invariant: an exact call's result is on the curve.
LEMMA NextIInv == IInv /\ [Next]_vars => IInv'
<1> SUFFICES ASSUME IInv, [Next]_vars, exact' PROVE OnCurve(b)' /\ (OnCurve(a)' \/ Refused')
  BY NextTypes DEF IInv
<1>1. ASSUME NEW x \in F, NEW y \in F, SetAffine(x, y) PROVE OnCurve(b)' /\ (OnCurve(a)' \/ Refused')
  <2>1. /\ exact /\ a' = <<x, y, 1>> /\ b' = b /\ OnCurveExact(a')
        /\ op' = "set_affine" /\ ret' = IF IsOnCurve(a') THEN "OK" ELSE "ERR"
    BY <1>1 DEF SetAffine, FillIn, Call
  <2>2. IsOnCurve(a') <=> OnCurve(a')
    BY <2>1, OverOne
  <2>3. QED
    BY <2>1, <2>2 DEF IInv, Refused, OnCurve
<1>2. CASE Copy
  BY <1>2, UsableOnCurve DEF Copy, Call
<1>3. CASE PointDblInPlace
  <2>1. OnCurve(a) /\ OnCurve(b) /\ a' = JacobianDbl(a) /\ b' = b /\ DblExact(a)
    BY <1>3, UsableOnCurve DEF PointDblInPlace, Call
  <2>2. OnCurve(JacobianDbl(a))
    BY <2>1, DblRight
  <2>3. QED
    BY <2>1, <2>2
<1>4. CASE PointAddInPlace
  <2>1. OnCurve(a) /\ OnCurve(b) /\ a' = JacobianAdd(a, b) /\ b' = b /\ AddExact(a, b)
    BY <1>4, UsableOnCurve DEF PointAddInPlace, Call
  <2>2. OnCurve(JacobianAdd(a, b))
    BY <2>1, JacobianAddRight
  <2>3. QED
    BY <2>1, <2>2
<1>5. CASE PointAddAffineInPlace
  <2> DEFINE e == IF IsInfinity(b) THEN <<0, 0>> ELSE GetAffine(b)
  <2>1. /\ OnCurve(a) /\ OnCurve(b) /\ b' = b /\ a' = JacobianAddAffine(a, e)
        /\ AddAffineExact(a, e) /\ (IsInfinity(b) \/ GetAffineExact(b))
    BY <1>5, UsableOnCurve DEF PointAddAffineInPlace, Call
  <2>2. OnCurve(a')
    BY <2>1, AddAffineInPlaceRight
  <2>3. QED
    BY <2>1, <2>2
<1>6. CASE Compare
  BY <1>6, UsableOnCurve DEF Compare, Call
<1>7. CASE Normalise
  <2>1. OnCurve(a) /\ OnCurve(b) /\ b' = b
    BY <1>7, UsableOnCurve DEF Normalise, Call, FillIn
  <2>2. CASE IsInfinity(a)
    BY <1>7, <2>1, <2>2 DEF Normalise
  <2>3. CASE ~IsInfinity(a)
    <3>1. a' = <<GetAffine(a)[1], GetAffine(a)[2], 1>> /\ GetAffineExact(a)
      BY <1>7, <2>3 DEF Normalise, FillIn, Call
    <3>2. OnCurve(a')
      BY <2>1, <2>3, <3>1, NormaliseRight
    <3>3. QED
      BY <2>1, <3>2
  <2>4. QED
    BY <2>2, <2>3
<1>8. CASE Stopped \/ UNCHANGED vars
  BY <1>8 DEF Stopped, vars, IInv, Refused
<1>9. QED
  BY <1>1, <1>2, <1>3, <1>4, <1>5, <1>6, <1>7, <1>8 DEF Next

\* The invariant is what StaysOnCurve says.
LEMMA IInvStays == IInv => StaysOnCurve
<1>1. \A p : OnCurve(p) => OnTheCurve(p)
  BY OnTheCurveIs DEF OnCurve
<1>2. QED
  BY <1>1 DEF IInv, StaysOnCurve

\* As long as no operand is squared or converted wrongly every point that a
\* caller holds satisfies the curve's equation, infinity too, over any field
\* of odd prime order and whatever the three routines return of the operands
\* they are wrong for (secp256k1-x86_64.pl:1781-2581, secp256k1.c:652-664).
THEOREM StaysOnCurveHolds == Spec => []StaysOnCurve
<1>1. Spec => []IInv
  BY InitIInv, NextIInv, PTL DEF Spec
<1>2. QED
  BY <1>1, IInvStays, PTL

----------------------------------------------------------------------------
(***************************************************************************)
(* Logarithms.                                                             *)
(***************************************************************************)
\* A set of naturals that is not empty has a least element.
LEMMA LeastElement ==
  ASSUME NEW S, S \subseteq Nat, S # {}
  PROVE  \E n \in S : \A m \in S : n <= m
<1> DEFINE Less == {ss \in Nat \X Nat : ss[1] < ss[2]}
<1>1. IsWellFoundedOn(Less, Nat)
  BY NatLessThanWellFounded DEF OpToRel
<1>2. PICK n \in S : \A m \in S : ~ (<<m, n>> \in Less)
  BY <1>1, WFMin
<1>3. ASSUME NEW m \in S PROVE n <= m
  <2>1. m \in Nat /\ n \in Nat
    BY <1>3
  <2>2. ~ (<<m, n>> \in Less)
    BY <1>2, <1>3
  <2>3. ASSUME m < n PROVE <<m, n>> \in Less
    BY <2>1, <2>3
  <2>4. QED
    BY <2>1, <2>2, <2>3
<1>4. QED
  BY <1>3

\* A set of naturals with 0 and the successor of each member is Nat.
LEMMA Induction ==
  ASSUME NEW S, 0 \in S, \A n \in Nat : n \in S => n + 1 \in S
  PROVE  Nat \subseteq S
<1> SUFFICES ASSUME ~ (Nat \subseteq S) PROVE FALSE
  OBVIOUS
<1> DEFINE Missing == Nat \ S
<1>1. Missing # {} /\ Missing \subseteq Nat
  OBVIOUS
<1>2. PICK n \in Missing : \A m \in Missing : n <= m
  BY <1>1, LeastElement
<1>3. n \in Nat /\ n # 0 /\ n - 1 \in Nat /\ (n - 1) + 1 = n
  BY <1>1
<1>4. n - 1 \in S
  BY <1>2, <1>3
<1>5. QED
  BY <1>2, <1>3, <1>4

\* The multiples of G up to the n-th.
MultiplesTo(f, n) ==
  f = [k \in 0..n |->
        IF k = 0 THEN <<0, 0>> ELSE IF k = 1 THEN <<Gx, Gy>> ELSE AffineAdd(f[k - 1], <<Gx, Gy>>)]

\* There are such functions, of every length.
LEMMA MultiplesExist == \A n \in Nat : \E f : MultiplesTo(f, n)
<1> DEFINE S == {n \in Nat : \E f : MultiplesTo(f, n)}
           Sum(e) == AffineAdd(e, <<Gx, Gy>>)
           Value(f, k) == IF k = 0 THEN <<0, 0>> ELSE IF k = 1 THEN <<Gx, Gy>> ELSE Sum(f[k - 1])
<1>1. \A f, n : MultiplesTo(f, n) <=> f = [k \in 0..n |-> Value(f, k)]
  BY DEF MultiplesTo
<1> HIDE DEF Sum
<1>2. 0 \in S
  <2> DEFINE f == [k \in 0..0 |-> <<0, 0>>]
  <2>1. f = [k \in 0..0 |-> Value(f, k)]
    OBVIOUS
  <2>2. QED
    BY <1>1, <2>1
<1>3. ASSUME NEW m \in Nat, m \in S PROVE m + 1 \in S
  <2>1. PICK f : MultiplesTo(f, m)
    BY <1>3
  <2>2. \A k \in 0..m : f[k] = Value(f, k)
    BY <1>1, <2>1
  <2> DEFINE g == [k \in 0..m + 1 |->
                    IF k = m + 1 THEN IF k = 1 THEN <<Gx, Gy>> ELSE Sum(f[m]) ELSE f[k]]
  <2>3. ASSUME NEW k \in 0..m + 1 PROVE g[k] = Value(g, k)
    <3>1. CASE k = m + 1
      <4>1. k # 0 /\ k - 1 = m /\ m \in 0..m + 1 /\ m # m + 1
        BY <3>1
      <4>2. g[m] = f[m] /\ g[k] = IF k = 1 THEN <<Gx, Gy>> ELSE Sum(f[m])
        BY <3>1, <4>1
      <4>3. QED
        BY <4>1, <4>2
    <3>2. CASE k # m + 1
      <4>1. k \in 0..m /\ g[k] = f[k]
        BY <3>2
      <4>2. ASSUME k # 0 PROVE g[k - 1] = f[k - 1]
        <5>1. k - 1 \in 0..m + 1 /\ k - 1 # m + 1
          BY <4>1, <4>2
        <5>2. QED
          BY <5>1
      <4>3. QED
        BY <2>2, <4>1, <4>2
    <3>3. QED
      BY <3>1, <3>2
  <2>4. g = [k \in 0..m + 1 |-> Value(g, k)]
    BY <2>3
  <2>5. MultiplesTo(g, m + 1)
    <3> HIDE DEF g
    <3>1. QED
      BY <1>1, <2>4
  <2>6. QED
    BY <2>5
<1> HIDE DEF S
<1>4. Nat \subseteq S
  BY <1>2, <1>3, Induction
<1>5. QED
  BY <1>4 DEF S

\* The order of the group.
LEMMA Order == N \in Nat /\ N > 2
BY OrderAssumption

\* Multiple is defined by its recursion: it begins with infinity.
LEMMA MultipleZero == Multiple[0] = <<0, 0>>
<1>1. N - 1 \in Nat
  BY Order
<1>2. \E f : MultiplesTo(f, N - 1)
  BY <1>1, MultiplesExist
<1>3. Multiple = CHOOSE f : MultiplesTo(f, N - 1)
  BY DEF Multiple, MultiplesTo
<1>4. MultiplesTo(Multiple, N - 1)
  BY <1>2, <1>3
<1>5. 0 \in 0..N - 1
  BY <1>1
<1>6. QED
  BY <1>4, <1>5 DEF MultiplesTo

\* The group as the assumption describes it.
LEMMA Group ==
  /\ {Multiple[k] : k \in 1..N - 1} = AffinePoints
  /\ \A k, l \in 1..N - 1 :
       /\ AffineAdd(Multiple[k], Multiple[l]) = Multiple[PointAdd(k, l)]
       /\ Multiple[k] = Multiple[l] => k = l
<1>1. ASSUME NEW e \in F \X F PROVE OnTheCurve(<<e[1], e[2], 1>>) <=> e \in AffinePoints
  <2>1. e[1] \in F /\ e[2] \in F /\ e = <<e[1], e[2]>>
    OBVIOUS
  <2>2. QED
    BY <2>1, OverOne
<1>2. {e \in F \X F : OnTheCurve(<<e[1], e[2], 1>>)} = AffinePoints
  BY <1>1 DEF AffinePoints
<1>3. QED
  BY <1>2, GroupAssumption

\* The logarithm of infinity is 0, that of another point of the curve the one
\* number whose multiple of G it is.
LEMMA LogIs ==
  ASSUME NEW p, OnCurve(p)
  PROVE  /\ Log(p) \in Points
         /\ IsInfinity(p) <=> Log(p) = 0
         /\ ~IsInfinity(p) => Log(p) \in 1..N - 1 /\ AffineOf(p) = Multiple[Log(p)]
<1>1. CASE IsInfinity(p)
  BY <1>1, Order DEF Log, Points
<1>2. CASE ~IsInfinity(p)
  <2> DEFINE e == AffineOf(p)
  <2>1. e \in AffinePoints /\ ToAffine(p) = e
    BY <1>2, AffineOnCurve
  <2>2. OnTheCurve(p)
    BY OnTheCurveIs DEF OnCurve
  <2>3. Log(p) = AffineLog[e]
    BY <1>2, <2>1, <2>2 DEF Log
  <2> HIDE DEF e
  <2>4. PICK k \in 1..N - 1 : Multiple[k] = e
    BY <2>1, Group
  <2>5. AffineLog[e] = CHOOSE l \in 1..N - 1 : Multiple[l] = e
    BY <2>1, Group DEF AffineLog
  <2>6. AffineLog[e] \in 1..N - 1 /\ Multiple[AffineLog[e]] = e
    BY <2>4, <2>5
  <2>7. \A l \in 1..N - 1 : l \in Points /\ l # 0
    BY Order DEF Points
  <2>8. QED
    BY <1>2, <2>3, <2>6, <2>7 DEF e
<1>3. QED
  BY <1>1, <1>2

\* A point whose affine coordinates are a multiple of G, or (0, 0)
LEMMA LogOf ==
  ASSUME NEW p, NEW m, OnCurve(p), m \in Points, AffineOf(p) = Multiple[m]
  PROVE  Log(p) = m
<1>1. CASE IsInfinity(p)
  <2>1. AffineOf(p) = <<0, 0>> /\ Log(p) = 0
    BY <1>1, LogIs DEF AffineOf
  <2>2. ASSUME m # 0 PROVE FALSE
    <3>1. m \in 1..N - 1
      BY <2>2, Order DEF Points
    <3>2. Multiple[m] \in AffinePoints
      BY <3>1, Group
    <3>3. Equation(0, 0, 1)
      BY <2>1, <3>2 DEF AffinePoints
    <3>4. QED
      BY <3>3, OriginOff
  <2>3. QED
    BY <2>1, <2>2
<1>2. CASE ~IsInfinity(p)
  <2>1. Log(p) \in 1..N - 1 /\ AffineOf(p) = Multiple[Log(p)] /\ AffineOf(p) # <<0, 0>>
    BY <1>2, LogIs, AffineOnCurve
  <2>2. m # 0
    BY <2>1, MultipleZero
  <2>3. m \in 1..N - 1
    BY <2>2, Order DEF Points
  <2>4. QED
    BY <2>1, <2>3, Group
<1>3. QED
  BY <1>1, <1>2

\* Points of the curve are equal, whatever their Zs, if their logarithms are.
LEMMA SameLog ==
  ASSUME NEW p1, NEW p2, OnCurve(p1), OnCurve(p2)
  PROVE  Log(p1) = Log(p2) <=> AffineOf(p1) = AffineOf(p2)
<1>1. ASSUME Log(p1) = Log(p2) PROVE AffineOf(p1) = AffineOf(p2)
  <2>1. CASE Log(p1) = 0
    BY <1>1, <2>1, LogIs DEF AffineOf
  <2>2. CASE Log(p1) # 0
    BY <1>1, <2>2, LogIs
  <2>3. QED
    BY <2>1, <2>2
<1>2. ASSUME AffineOf(p1) = AffineOf(p2) PROVE Log(p1) = Log(p2)
  <2>1. Log(p2) \in Points
    BY LogIs
  <2>2. AffineOf(p2) = Multiple[Log(p2)]
    <3>1. CASE IsInfinity(p2)
      BY <3>1, LogIs, MultipleZero DEF AffineOf
    <3>2. CASE ~IsInfinity(p2)
      BY <3>2, LogIs
    <3>3. QED
      BY <3>1, <3>2
  <2>3. QED
    BY <1>2, <2>1, <2>2, LogOf
<1>3. QED
  BY <1>1, <1>2

\* A sum of points by the group law.
LEMMA LogSum ==
  ASSUME NEW p1, NEW p2, NEW d, OnCurve(p1), OnCurve(p2), OnCurve(d),
         ~IsInfinity(p1), ~IsInfinity(p2), AffineOf(d) = AffineAdd(AffineOf(p1), AffineOf(p2))
  PROVE  Log(d) = PointAdd(Log(p1), Log(p2))
<1> DEFINE k == Log(p1)
           l == Log(p2)
<1>1. k \in 1..N - 1 /\ AffineOf(p1) = Multiple[k]
  BY LogIs
<1>2. l \in 1..N - 1 /\ AffineOf(p2) = Multiple[l]
  BY LogIs
<1> HIDE DEF k, l
<1>3. AffineOf(d) = Multiple[PointAdd(k, l)]
  BY <1>1, <1>2, Group
<1>4. PointAdd(k, l) \in Points
  <2>1. k + l \in Int /\ N \in Nat /\ N > 0
    BY <1>1, <1>2, Order
  <2>2. (k + l) % N \in 0..N - 1
    BY <2>1
  <2>3. QED
    BY <2>2 DEF PointAdd, Points
<1>5. QED
  BY <1>3, <1>4, LogOf DEF k, l

\* Adding 0.
LEMMA AddNothing ==
  ASSUME NEW k \in Points
  PROVE  PointAdd(k, 0) = k /\ PointAdd(0, k) = k /\ PointAdd(k, k) = PointDbl(k)
<1>1. k \in Int /\ k + 0 = k /\ 0 + k = k /\ k + k = 2 * k /\ k % N = k
  BY Order DEF Points
<1>2. QED
  BY <1>1 DEF PointAdd, PointDbl

\* Doubling and complete addition, infinity included.
LEMMA LogDbl ==
  ASSUME NEW p, OnCurve(p), DblExact(p)
  PROVE  OnCurve(JacobianDbl(p)) /\ Log(JacobianDbl(p)) = PointDbl(Log(p))
<1> DEFINE d == JacobianDbl(p)
<1>1. /\ OnCurve(d)
      /\ IsInfinity(p) => IsInfinity(d)
      /\ ~IsInfinity(p) => AffineOf(d) = AffineAdd(AffineOf(p), AffineOf(p))
  BY DblRight
<1> HIDE DEF d
<1>2. Log(p) \in Points
  BY LogIs
<1>3. CASE IsInfinity(p)
  <2>1. Log(p) = 0 /\ Log(d) = 0
    BY <1>1, <1>3, LogIs
  <2>2. QED
    BY <1>1, <1>2, <2>1, AddNothing DEF d
<1>4. CASE ~IsInfinity(p)
  <2>1. Log(d) = PointAdd(Log(p), Log(p))
    BY <1>1, <1>4, LogSum
  <2>2. QED
    BY <1>1, <1>2, <2>1, AddNothing DEF d
<1>5. QED
  BY <1>3, <1>4

\* Complete addition, infinity included.
LEMMA LogAdd ==
  ASSUME NEW p1, NEW p2, OnCurve(p1), OnCurve(p2), AddExact(p1, p2)
  PROVE  /\ OnCurve(JacobianAdd(p1, p2))
         /\ Log(JacobianAdd(p1, p2)) = PointAdd(Log(p1), Log(p2))
<1> DEFINE d == JacobianAdd(p1, p2)
<1>1. /\ OnCurve(d)
      /\ IsInfinity(p2) => d = p1
      /\ IsInfinity(p1) /\ ~IsInfinity(p2) => d = p2
      /\ ~IsInfinity(p1) /\ ~IsInfinity(p2) =>
           AffineOf(d) = AffineAdd(AffineOf(p1), AffineOf(p2))
  BY JacobianAddRight
<1> HIDE DEF d
<1>2. Log(p1) \in Points /\ Log(p2) \in Points
  BY LogIs
<1>3. CASE IsInfinity(p2)
  <2>1. Log(p2) = 0 /\ d = p1
    BY <1>1, <1>3, LogIs
  <2>2. QED
    BY <1>1, <1>2, <2>1, AddNothing DEF d
<1>4. CASE IsInfinity(p1) /\ ~IsInfinity(p2)
  <2>1. Log(p1) = 0 /\ d = p2
    BY <1>1, <1>4, LogIs
  <2>2. QED
    BY <1>1, <1>2, <2>1, AddNothing DEF d
<1>5. CASE ~IsInfinity(p1) /\ ~IsInfinity(p2)
  <2>1. Log(d) = PointAdd(Log(p1), Log(p2))
    BY <1>1, <1>5, LogSum
  <2>2. QED
    BY <1>1, <2>1 DEF d
<1>6. QED
  BY <1>3, <1>4, <1>5

\* The addition that cannot double; with infinity it is complete.
LEMMA LogAddAffine ==
  ASSUME OnCurve(a), OnCurve(b)
  PROVE  LET e == IF IsInfinity(b) THEN <<0, 0>> ELSE GetAffine(b)
             d == JacobianAddAffine(a, e)
         IN  AddAffineExact(a, e) /\ (IsInfinity(b) \/ GetAffineExact(b)) =>
               OnCurve(d) /\ Log(d) = PointAddAffine(Log(a), Log(b))
<1> DEFINE c == IF IsInfinity(b) THEN <<0, 0>> ELSE GetAffine(b)
           d == JacobianAddAffine(a, c)
<1> SUFFICES ASSUME AddAffineExact(a, c), IsInfinity(b) \/ GetAffineExact(b)
             PROVE  OnCurve(d) /\ Log(d) = PointAddAffine(Log(a), Log(b))
  OBVIOUS
<1>1. /\ OnCurve(d)
      /\ IsInfinity(b) => d = a
      /\ ~IsInfinity(b) /\ IsInfinity(a) => ~IsInfinity(d) /\ AffineOf(d) = AffineOf(b)
      /\ ~IsInfinity(b) /\ ~IsInfinity(a) =>
           AffineOf(d) = IF AffineOf(a) = AffineOf(b) THEN <<0, 0>>
                         ELSE AffineAdd(AffineOf(a), AffineOf(b))
  BY AddAffineInPlaceRight
<1> HIDE DEF d
<1>2. Log(a) \in Points /\ Log(b) \in Points
  BY LogIs
<1>3. PointAddAffine(Log(a), Log(b)) =
        IF Log(a) = Log(b) THEN 0 ELSE PointAdd(Log(a), Log(b))
  BY DEF PointAddAffine, PointAdd, Infinity
<1>4. CASE IsInfinity(b)
  <2>1. Log(b) = 0 /\ d = a
    BY <1>1, <1>4, LogIs
  <2>2. PointAdd(Log(a), 0) = Log(a)
    BY <1>2, AddNothing
  <2>3. QED
    BY <1>1, <1>3, <2>1, <2>2 DEF d
<1>5. CASE ~IsInfinity(b) /\ IsInfinity(a)
  <2>1. Log(a) = 0 /\ Log(b) # 0
    BY <1>5, LogIs
  <2>2. Log(d) = Log(b)
    BY <1>1, <1>5, SameLog
  <2>3. PointAdd(0, Log(b)) = Log(b)
    BY <1>2, AddNothing
  <2>4. QED
    BY <1>1, <1>3, <2>1, <2>2, <2>3 DEF d
<1>6. CASE ~IsInfinity(b) /\ ~IsInfinity(a)
  <2>1. AffineOf(a) = AffineOf(b) <=> Log(a) = Log(b)
    BY SameLog
  <2>2. CASE Log(a) = Log(b)
    <3>1. AffineOf(d) = Multiple[0] /\ 0 \in Points
      BY <1>1, <1>6, <2>1, <2>2, MultipleZero, Order DEF Points
    <3>2. Log(d) = 0
      BY <1>1, <3>1, LogOf
    <3>3. QED
      BY <1>1, <1>3, <2>2, <3>2 DEF d
  <2>3. CASE Log(a) # Log(b)
    <3>1. AffineOf(d) = AffineAdd(AffineOf(a), AffineOf(b))
      BY <1>1, <1>6, <2>1, <2>3
    <3>2. Log(d) = PointAdd(Log(a), Log(b))
      BY <1>1, <1>6, <3>1, LogSum
    <3>3. QED
      BY <1>1, <1>3, <2>3, <3>2 DEF d
  <2>4. QED
    BY <2>2, <2>3
<1>7. QED
  BY <1>4, <1>5, <1>6

\* Coordinates off the curve have no logarithm.
LEMMA LogRefused ==
  ASSUME NEW x \in F, NEW y \in F, ~OnCurve(<<x, y, 1>>)
  PROVE  Log(<<x, y, 1>>) = -1
BY OverOne DEF Log

\* A point the caller goes on with has one.
LEMMA LogUsable ==
  ASSUME NEW p, OnCurve(p)
  PROVE  Log(p) # -1
<1>1. Log(p) \in Points
  BY LogIs
<1>2. QED
  BY <1>1 DEF Points

----------------------------------------------------------------------------
(***************************************************************************)
(* The refinement.                                                         *)
(***************************************************************************)
\* The initial states are initial states of the machine.
LEMMA InitMaps == Init => Machine!Init
<1> SUFFICES ASSUME Init PROVE Machine!Init
  OBVIOUS
<1>1. Log(Zero) = 0
  BY ZeroOnCurve, LogIs
<1>2. QED
  BY <1>1 DEF Init, Machine!Init, Machine!Infinity

\* Each step is a step of the machine, or none.
LEMMA StepMaps == IInv /\ [Next]_vars => [Machine!Next]_(Machine!vars)
<1> SUFFICES ASSUME IInv, [Next]_vars PROVE [Machine!Next]_(Machine!vars)
  OBVIOUS
<1>0. CASE ~exact'
  BY <1>0 DEF Machine!Next
<1>1. ASSUME NEW x \in F, NEW y \in F, SetAffine(x, y), exact' PROVE Machine!Next
  <2>1. a' = <<x, y, 1>> /\ b' = b /\ op' = "set_affine" /\ exact /\ OnCurveExact(a')
    BY <1>1 DEF SetAffine, FillIn, Call
  <2>2. ret' = IF IsOnCurve(a') THEN "OK" ELSE "ERR"
    BY <1>1 DEF SetAffine, Call
  <2>3. IsOnCurve(a') <=> OnCurve(a')
    BY <2>1, OverOne
  <2>4. CASE IsOnCurve(a')
    <3>1. OnCurve(a') /\ ~IsInfinity(a')
      BY <2>1, <2>3, <2>4, OverOne
    <3>2. Log(a') \in Points \ {0}
      BY <3>1, LogIs
    <3>3. Machine!Set
      BY <1>1, <2>1, <2>2, <2>4, <3>2
         DEF Machine!Set, Machine!Call, Machine!Points, Machine!Infinity, Points
    <3>4. QED
      BY <1>1, <2>1, <3>3 DEF Machine!Next, Machine!Promised
  <2>5. CASE ~IsOnCurve(a')
    <3>1. Log(a') = -1
      BY <2>1, <2>3, <2>5, LogRefused
    <3>2. Machine!SetFails
      BY <1>1, <2>1, <2>2, <2>5, <3>1 DEF Machine!SetFails, Machine!Call, Machine!NotAPoint
    <3>3. QED
      BY <1>1, <2>1, <3>2 DEF Machine!Next, Machine!Promised
  <2>6. QED
    BY <2>4, <2>5
<1>2. CASE Copy /\ exact'
  <2>1. OnCurve(a) /\ a' = a /\ b' = a /\ op' = "copy" /\ ret' = "OK" /\ exact /\ exact'
    BY <1>2, UsableOnCurve DEF Copy, Call
  <2>2. Log(a) # -1
    BY <2>1, LogUsable
  <2>3. Machine!Keep
    BY <2>1, <2>2 DEF Machine!Keep, Machine!Call, Machine!NotAPoint
  <2>4. QED
    BY <2>1, <2>3 DEF Machine!Next, Machine!Promised
<1>3. CASE PointDblInPlace /\ exact'
  <2>1. /\ OnCurve(a) /\ a' = JacobianDbl(a) /\ b' = b /\ op' = "dbl" /\ ret' = "none"
        /\ exact /\ exact' /\ DblExact(a)
    BY <1>3, UsableOnCurve DEF PointDblInPlace, Call
  <2>2. Log(a) # -1 /\ Log(a') = PointDbl(Log(a))
    BY <2>1, LogUsable, LogDbl
  <2>3. Machine!Dbl
    BY <2>1, <2>2 DEF Machine!Dbl, Machine!Call, Machine!NotAPoint, Machine!PointDbl, PointDbl
  <2>4. QED
    BY <2>1, <2>3 DEF Machine!Next, Machine!Promised
<1>4. CASE PointAddInPlace /\ exact'
  <2>1. /\ OnCurve(a) /\ OnCurve(b) /\ a' = JacobianAdd(a, b) /\ b' = b
        /\ op' = "add" /\ ret' = "none" /\ exact /\ exact' /\ AddExact(a, b)
    BY <1>4, UsableOnCurve DEF PointAddInPlace, Call
  <2>2. Log(a) # -1 /\ Log(a') = PointAdd(Log(a), Log(b))
    BY <2>1, LogUsable, LogAdd
  <2>3. Machine!Add
    BY <2>1, <2>2 DEF Machine!Add, Machine!Call, Machine!NotAPoint, Machine!PointAdd, PointAdd
  <2>4. QED
    BY <2>1, <2>3 DEF Machine!Next, Machine!Promised
<1>5. CASE PointAddAffineInPlace /\ exact'
  <2> DEFINE e == IF IsInfinity(b) THEN <<0, 0>> ELSE GetAffine(b)
  <2>1. /\ OnCurve(a) /\ OnCurve(b) /\ b' = b /\ op' = "add_affine" /\ ret' = "none"
        /\ a' = JacobianAddAffine(a, e) /\ exact /\ exact'
        /\ AddAffineExact(a, e) /\ (IsInfinity(b) \/ GetAffineExact(b))
    BY <1>5, UsableOnCurve DEF PointAddAffineInPlace, Call
  <2>2. Log(a) # -1 /\ Log(a') = PointAddAffine(Log(a), Log(b))
    BY <2>1, LogUsable, LogAddAffine
  <2>3. Machine!AddAffine
    BY <2>1, <2>2 DEF Machine!AddAffine, Machine!Call, Machine!NotAPoint,
                      Machine!PointAddAffine, Machine!Infinity, PointAddAffine, Infinity
  <2>4. QED
    BY <2>1, <2>3 DEF Machine!Next, Machine!Promised
<1>6. CASE Compare /\ exact'
  <2>1. /\ OnCurve(a) /\ OnCurve(b) /\ a' = a /\ b' = b /\ op' = "cmp"
        /\ ret' = IF PointCmp(a, b) THEN "equal" ELSE "different"
        /\ exact /\ exact' /\ CmpExact(a, b)
    BY <1>6, UsableOnCurve DEF Compare, Call
  <2>2. Log(a) # -1 /\ (PointCmp(a, b) <=> Log(a) = Log(b))
    BY <2>1, LogUsable, CmpRight, SameLog
  <2>3. Machine!Cmp
    BY <2>1, <2>2 DEF Machine!Cmp, Machine!Call, Machine!NotAPoint
  <2>4. QED
    BY <2>1, <2>3 DEF Machine!Next, Machine!Promised
<1>7. CASE Normalise /\ exact'
  <2>1. OnCurve(a) /\ Log(a) # -1 /\ op' = "normalise" /\ b' = b /\ exact /\ exact'
    BY <1>7, UsableOnCurve, LogUsable DEF Normalise, Call, FillIn
  <2>2. ret' = (IF IsInfinity(a) THEN "ERR" ELSE "OK") /\ Log(a') = Log(a)
    <3>1. CASE IsInfinity(a)
      BY <1>7, <3>1 DEF Normalise, Call
    <3>2. CASE ~IsInfinity(a)
      <4>1. /\ a' = <<GetAffine(a)[1], GetAffine(a)[2], 1>>
            /\ ret' = IF IsOnCurve(a') THEN "OK" ELSE "ERR"
            /\ GetAffineExact(a) /\ OnCurveExact(a')
        BY <1>7, <3>2 DEF Normalise, FillIn, Call
      <4>2. OnCurve(a') /\ AffineOf(a') = AffineOf(a)
        BY <2>1, <3>2, <4>1, NormaliseRight
      <4>3. IsOnCurve(a')
        BY <4>1, <4>2, IsOnCurveIs DEF OnCurve
      <4>4. Log(a') = Log(a)
        BY <2>1, <4>2, SameLog
      <4>5. QED
        BY <3>2, <4>1, <4>3, <4>4
    <3>3. QED
      BY <3>1, <3>2
  <2>3. IsInfinity(a) <=> Log(a) = 0
    BY <2>1, LogIs
  <2>4. Machine!Normalise
    BY <2>1, <2>2, <2>3 DEF Machine!Normalise, Machine!Call, Machine!NotAPoint, Machine!Infinity
  <2>5. QED
    BY <2>1, <2>4 DEF Machine!Next, Machine!Promised
<1>8. CASE Stopped \/ UNCHANGED vars
  BY <1>8 DEF Stopped, vars, Machine!vars
<1>9. QED
  BY <1>0, <1>1, <1>2, <1>3, <1>4, <1>5, <1>6, <1>7, <1>8 DEF Next

\* The routines do what PointMachine says: doubling and addition are complete,
\* addition of an affine point is except for equal points, comparison is that
\* of points whatever their Zs, conversion keeps the point, and exactly the
\* coordinates on the curve are accepted; all this up to the first call that
\* comes upon an operand that sqr_mont, from_mont or mod_inverse is wrong for
\* (secp256k1-x86_64.pl:1781-2581, secp256k1.c:159-227, 623-664).
THEOREM Refinement == Spec => ImplementsPointMachine
<1>1. Spec => []IInv
  BY InitIInv, NextIInv, PTL DEF Spec
<1>2. QED
  BY <1>1, InitMaps, StepMaps, PTL DEF Spec, ImplementsPointMachine, Machine!Spec
=============================================================================
