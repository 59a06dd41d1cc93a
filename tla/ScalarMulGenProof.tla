------------------------- MODULE ScalarMulGenProof --------------------------
(***************************************************************************)
(* Proofs about ScalarMulGen, for any clients that take turns, any width,  *)
(* any order of the shape that WidthAssumption describes and any scalars:  *)
(* the table is right, complete when OK is returned and never lost, and    *)
(* the product is right, for which the addition that cannot double must    *)
(* never meet equal points.                                                *)
(***************************************************************************)
EXTENDS ScalarMulGen, TLAPS, WellFoundedInduction

----------------------------------------------------------------------------
(***************************************************************************)
(* Quotients and remainders.                                               *)
(***************************************************************************)
\* What \div and % are.
LEMMA DivMod ==
  ASSUME NEW x \in Int, NEW m \in Nat, m > 0
  PROVE  /\ x \div m \in Int
         /\ x % m \in 0..m - 1
         /\ x = (m * (x \div m)) + (x % m)
OBVIOUS

\* A multiple of m that is less than m away from 0 is 0.
LEMMA SmallMultiple ==
  ASSUME NEW q \in Int, NEW m \in Nat, m > 0, NEW d \in Int, d = m * q, d < m, -m < d
  PROVE  q = 0
OBVIOUS

\* Quotient and remainder are unique.
LEMMA DivModUnique ==
  ASSUME NEW x \in Int, NEW m \in Nat, m > 0, NEW q \in Int, NEW r \in 0..m - 1, x = (m * q) + r
  PROVE  x \div m = q /\ x % m = r
<1>1. /\ x \div m \in Int
      /\ x % m \in 0..m - 1
      /\ x = (m * (x \div m)) + (x % m)
  BY DivMod
<1> DEFINE u == x \div m
           v == x % m
<1> HIDE DEF u, v
<1>2. m * (u - q) = r - v /\ u - q \in Int
  BY <1>1 DEF u, v
<1>3. u - q = 0
  BY <1>1, <1>2, SmallMultiple DEF u, v
<1>4. u = q /\ r = v
  BY <1>1, <1>2, <1>3 DEF u, v
<1>5. QED
  BY <1>4 DEF u, v

\* Dividing twice.
LEMMA DivDiv ==
  ASSUME NEW x \in Nat, NEW m \in Nat, m > 0, NEW n \in Nat, n > 0
  PROVE  (x \div m) \div n = x \div (n * m)
<1> DEFINE q == x \div m
           r == x % m
           u == q \div n
           v == q % n
<1>1. q \in Int /\ r \in 0..m - 1 /\ x = (m * q) + r
  BY DivMod
<1>2. u \in Int /\ v \in 0..n - 1 /\ q = (n * u) + v
  BY <1>1, DivMod
<1> HIDE DEF q, r, u, v
<1>3. x = ((n * m) * u) + ((m * v) + r)
  <2>1. m * q = ((n * m) * u) + (m * v)
    BY <1>2
  <2>2. QED
    BY <1>1, <1>2, <2>1
<1>4. n * m \in Nat /\ n * m > 0 /\ (m * v) + r \in 0..(n * m) - 1
  <2>1. m * (n - 1 - v) \in Nat /\ m * (n - 1 - v) = (n * m) - m - (m * v)
    BY <1>2
  <2>2. n * m \in Nat /\ n * m > 0 /\ m * v \in Nat
    BY <1>2
  <2>3. QED
    BY <1>1, <2>1, <2>2
<1> DEFINE d == n * m
           e == (m * v) + r
<1>5. d \in Nat /\ d > 0 /\ e \in 0..d - 1 /\ x = (d * u) + e
  BY <1>3, <1>4
<1> HIDE DEF d, e
<1>6. x \div d = u
  BY <1>2, <1>5, DivModUnique
<1>7. QED
  BY <1>6 DEF d, u, q

----------------------------------------------------------------------------
(***************************************************************************)
(* Powers of two.                                                          *)
(***************************************************************************)
\* A set of naturals that is not empty has a least element.
LEMMA LeastElement ==
  ASSUME NEW S, S \subseteq Nat, S # {}
  PROVE  \E n \in S : \A m \in S : n <= m
<1> DEFINE Less == {ss \in Nat \X Nat : ss[1] < ss[2]}
<1>1. IsWellFoundedOn(Less, Nat)
  BY NatLessThanWellFounded DEF OpToRel
<1>2. PICK n \in S : \A m \in S : ~ (<<m, n>> \in Less)
  BY <1>1, WFMin
<1>3. ASSUME NEW m \in S PROVE n <= m
  <2>1. m \in Nat /\ n \in Nat
    BY <1>3
  <2>2. ~ (<<m, n>> \in Less)
    BY <1>2, <1>3
  <2>3. ASSUME m < n PROVE <<m, n>> \in Less
    BY <2>1, <2>3
  <2>4. QED
    BY <2>1, <2>2, <2>3
<1>4. QED
  BY <1>3

\* A set of naturals with 0 and the successor of each member is Nat: the
\* induction of the proofs below.
LEMMA Induction ==
  ASSUME NEW S, 0 \in S, \A n \in Nat : n \in S => n + 1 \in S
  PROVE  Nat \subseteq S
<1> SUFFICES ASSUME ~ (Nat \subseteq S) PROVE FALSE
  OBVIOUS
<1> DEFINE Missing == Nat \ S
<1>1. Missing # {} /\ Missing \subseteq Nat
  OBVIOUS
<1>2. PICK n \in Missing : \A m \in Missing : n <= m
  BY <1>1, LeastElement
<1>3. n \in Nat /\ n # 0 /\ n - 1 \in Nat /\ (n - 1) + 1 = n
  BY <1>1
<1>4. n - 1 \in S
  BY <1>2, <1>3
<1>5. QED
  BY <1>2, <1>3, <1>4

\* The powers up to the n-th.
Doubles(f, n) ==
  f \in [0..n -> Nat] /\ f[0] = 1 /\ \A m \in 0..n - 1 : f[m + 1] = 2 * f[m]

\* There are such finite sequences of powers, of every length.
LEMMA DoublesExist ==
  ASSUME NEW n \in Nat
  PROVE  \E f \in [0..n -> Nat] : Doubles(f, n)
<1> DEFINE S == {m \in Nat : \E f \in [0..m -> Nat] : Doubles(f, m)}
<1>1. 0 \in S
  <2> DEFINE f == [x \in 0..0 |-> 1]
  <2>1. f \in [0..0 -> Nat] /\ Doubles(f, 0)
    BY DEF Doubles
  <2>2. QED
    BY <2>1
<1>2. ASSUME NEW m \in Nat, m \in S PROVE m + 1 \in S
  <2>1. PICK f \in [0..m -> Nat] : Doubles(f, m)
    BY <1>2
  <2> DEFINE g == [x \in 0..m + 1 |-> IF x = m + 1 THEN 2 * f[m] ELSE f[x]]
  <2>2. g \in [0..m + 1 -> Nat]
    OBVIOUS
  <2>3. ASSUME NEW x \in 0..(m + 1) - 1 PROVE g[x + 1] = 2 * g[x]
    <3>1. CASE x = m
      BY <3>1
    <3>2. CASE x # m
      <4>1. x \in 0..m - 1 /\ x + 1 # m + 1 /\ x + 1 \in 0..m + 1
        BY <3>2
      <4>2. g[x + 1] = f[x + 1] /\ g[x] = f[x]
        BY <4>1
      <4>3. QED
        BY <2>1, <4>1, <4>2 DEF Doubles
    <3>3. QED
      BY <3>1, <3>2
  <2>4. Doubles(g, m + 1)
    BY <2>1, <2>2, <2>3 DEF Doubles
  <2>5. QED
    BY <2>2, <2>4, SMTT(60)
<1> HIDE DEF S
<1>3. Nat \subseteq S
  BY <1>1, <1>2, Induction
<1>4. QED
  BY <1>3 DEF S

\* Two of them agree.
LEMMA DoublesAgree ==
  ASSUME NEW f, NEW g, NEW n \in Nat, NEW m \in Nat, Doubles(f, n), Doubles(g, m)
  PROVE  \A x \in Nat : x <= n /\ x <= m => f[x] = g[x]
<1> DEFINE S == {x \in Nat : x <= n /\ x <= m => f[x] = g[x]}
<1>1. 0 \in S
  BY DEF Doubles
<1>2. ASSUME NEW x \in Nat, x \in S PROVE x + 1 \in S
  BY <1>2 DEF Doubles
<1> HIDE DEF S
<1>3. Nat \subseteq S
  BY <1>1, <1>2, Induction
<1>4. QED
  BY <1>3 DEF S

\* The recursive definition has a solution: TwoTo is what it says.
LEMMA TwoToDef ==
  TwoTo = [n \in Nat |-> IF n = 0 THEN 1 ELSE 2 * TwoTo[n - 1]]
<1> DEFINE Powers(n) == CHOOSE f \in [0..n -> Nat] : Doubles(f, n)
           F == [n \in Nat |-> Powers(n)[n]]
           Body(f) == [n \in Nat |-> IF n = 0 THEN 1 ELSE 2 * f[n - 1]]
<1>1. \A n \in Nat : Doubles(Powers(n), n)
  BY DoublesExist
<1> HIDE DEF Powers
<1>2. ASSUME NEW n \in Nat PROVE F[n] = Body(F)[n]
  <2>1. CASE n = 0
    BY <1>1, <2>1 DEF Doubles
  <2>2. CASE n # 0
    <3>1. n - 1 \in Nat /\ (n - 1) + 1 = n /\ n - 1 \in 0..n - 1 /\ n - 1 <= n
      BY <2>2
    <3>2. Doubles(Powers(n), n) /\ Doubles(Powers(n - 1), n - 1)
      BY <1>1, <3>1
    <3>3. Powers(n)[n] = 2 * Powers(n)[n - 1]
      BY <3>1, <3>2 DEF Doubles
    <3>4. Powers(n)[n - 1] = Powers(n - 1)[n - 1]
      BY <3>1, <3>2, DoublesAgree
    <3>5. QED
      BY <2>2, <3>1, <3>3, <3>4
  <2>3. QED
    BY <2>1, <2>2
<1>3. F = Body(F)
  BY <1>2
<1>4. TwoTo = CHOOSE f : f = Body(f)
  BY DEF TwoTo
<1> HIDE DEF F
<1>5. TwoTo = Body(TwoTo)
  BY <1>3, <1>4
<1>6. QED
  BY <1>5

\* The powers are positive numbers, each twice the one before.
LEMMA Powers ==
  /\ TwoTo[0] = 1
  /\ \A n \in Nat : TwoTo[n] \in Nat /\ TwoTo[n] > 0 /\ TwoTo[n + 1] = 2 * TwoTo[n]
<1>1. TwoTo[0] = 1
  BY TwoToDef
<1>2. ASSUME NEW n \in Nat PROVE TwoTo[n + 1] = 2 * TwoTo[n]
  <2>1. n + 1 \in Nat /\ n + 1 # 0 /\ (n + 1) - 1 = n
    OBVIOUS
  <2>2. TwoTo[n + 1] = 2 * TwoTo[(n + 1) - 1]
    BY <2>1, TwoToDef
  <2>3. QED
    BY <2>1, <2>2
<1> DEFINE S == {n \in Nat : TwoTo[n] \in Nat /\ TwoTo[n] > 0}
<1>3. 0 \in S
  BY <1>1
<1>4. ASSUME NEW n \in Nat, n \in S PROVE n + 1 \in S
  BY <1>2, <1>4
<1> HIDE DEF S
<1>5. Nat \subseteq S
  BY <1>3, <1>4, Induction
<1>6. QED
  BY <1>1, <1>2, <1>5 DEF S

\* Powers a few places apart.
LEMMA PowersApart ==
  ASSUME NEW n \in Nat
  PROVE  /\ TwoTo[n + 2] = 4 * TwoTo[n]
         /\ TwoTo[n + 3] = 8 * TwoTo[n]
         /\ TwoTo[n + 4] = 16 * TwoTo[n]
         /\ TwoTo[n + 5] = 32 * TwoTo[n]
         /\ TwoTo[n + 6] = 64 * TwoTo[n]
         /\ TwoTo[n + 7] = 128 * TwoTo[n]
         /\ TwoTo[n + 8] = 256 * TwoTo[n]
<1>1. \A m \in Nat : TwoTo[m + 1] = 2 * TwoTo[m] /\ TwoTo[m] \in Nat
  BY Powers
<1>2. /\ (n + 1) + 1 = n + 2 /\ (n + 2) + 1 = n + 3 /\ (n + 3) + 1 = n + 4
      /\ (n + 4) + 1 = n + 5 /\ (n + 5) + 1 = n + 6 /\ (n + 6) + 1 = n + 7
      /\ (n + 7) + 1 = n + 8
  OBVIOUS
<1> DEFINE x == TwoTo[n]
<1>3. x \in Nat /\ TwoTo[n + 1] = 2 * x
  BY <1>1
<1>4. TwoTo[(n + 1) + 1] = 2 * TwoTo[n + 1] /\ TwoTo[(n + 2) + 1] = 2 * TwoTo[n + 2]
  BY <1>1
<1>5. TwoTo[(n + 3) + 1] = 2 * TwoTo[n + 3] /\ TwoTo[(n + 4) + 1] = 2 * TwoTo[n + 4]
  BY <1>1
<1>6. TwoTo[(n + 5) + 1] = 2 * TwoTo[n + 5] /\ TwoTo[(n + 6) + 1] = 2 * TwoTo[n + 6]
  BY <1>1
<1>7. TwoTo[(n + 7) + 1] = 2 * TwoTo[n + 7]
  BY <1>1
<1> HIDE DEF x
<1>8. TwoTo[n + 2] = 4 * x /\ TwoTo[n + 3] = 8 * x
  BY <1>2, <1>3, <1>4
<1>9. TwoTo[n + 4] = 16 * x /\ TwoTo[n + 5] = 32 * x
  BY <1>2, <1>3, <1>5, <1>8
<1>10. TwoTo[n + 6] = 64 * x /\ TwoTo[n + 7] = 128 * x
  BY <1>2, <1>3, <1>6, <1>9
<1>11. TwoTo[n + 8] = 256 * x
  BY <1>2, <1>3, <1>7, <1>10
<1>12. QED
  BY <1>8, <1>9, <1>10, <1>11 DEF x

\* The first powers.
LEMMA SmallPowers ==
  /\ TwoTo[0] = 1 /\ TwoTo[1] = 2 /\ TwoTo[6] = 64 /\ TwoTo[7] = 128 /\ TwoTo[8] = 256
<1>1. /\ TwoTo[0 + 6] = 64 * TwoTo[0] /\ TwoTo[0 + 7] = 128 * TwoTo[0]
      /\ TwoTo[0 + 8] = 256 * TwoTo[0] /\ TwoTo[0 + 1] = 2 * TwoTo[0] /\ TwoTo[0] = 1
  BY PowersApart, Powers, SMTT(60)
<1>2. QED
  BY <1>1

\* The powers grow.
LEMMA PowersGrow ==
  ASSUME NEW n \in Nat, NEW m \in Nat, n <= m
  PROVE  TwoTo[n] <= TwoTo[m]
<1> DEFINE S == {x \in Nat : TwoTo[n] <= TwoTo[n + x]}
<1>1. 0 \in S
  BY Powers
<1>2. ASSUME NEW x \in Nat, x \in S PROVE x + 1 \in S
  <2>1. TwoTo[n + x] \in Nat /\ TwoTo[(n + x) + 1] = 2 * TwoTo[n + x] /\ TwoTo[n] \in Nat
    BY Powers
  <2>2. (n + x) + 1 = n + (x + 1)
    OBVIOUS
  <2>3. QED
    BY <1>2, <2>1, <2>2
<1> HIDE DEF S
<1>3. Nat \subseteq S
  BY <1>1, <1>2, Induction
<1>4. m - n \in Nat /\ n + (m - n) = m
  OBVIOUS
<1>5. QED
  BY <1>3, <1>4 DEF S

----------------------------------------------------------------------------
(***************************************************************************)
(* Shifts and windows.                                                     *)
(***************************************************************************)
\* A number shifted right.
Shr(x, n) == x \div TwoTo[n]

\* Shifting further divides further.
LEMMA ShrMore ==
  ASSUME NEW x \in Nat, NEW n \in Nat
  PROVE  /\ Shr(x, n) \in Nat
         /\ Shr(x, n + 1) = Shr(x, n) \div 2
         /\ Shr(x, n + 2) = Shr(x, n) \div 4
         /\ Shr(x, n + 3) = Shr(x, n) \div 8
         /\ Shr(x, n + 4) = Shr(x, n) \div 16
         /\ Shr(x, n + 5) = Shr(x, n) \div 32
         /\ Shr(x, n + 6) = Shr(x, n) \div 64
         /\ Shr(x, n + 7) = Shr(x, n) \div 128
         /\ Shr(x, n + 8) = Shr(x, n) \div 256
<1> DEFINE m == TwoTo[n]
<1>1. m \in Nat /\ m > 0
  BY Powers
<1>2. /\ TwoTo[n + 1] = 2 * m /\ TwoTo[n + 2] = 4 * m /\ TwoTo[n + 3] = 8 * m
      /\ TwoTo[n + 4] = 16 * m /\ TwoTo[n + 5] = 32 * m /\ TwoTo[n + 6] = 64 * m
      /\ TwoTo[n + 7] = 128 * m /\ TwoTo[n + 8] = 256 * m
  BY Powers, PowersApart
<1> HIDE DEF m
<1>3. \A d \in Nat : d > 0 => (x \div m) \div d = x \div (d * m)
  BY <1>1, DivDiv
<1>4. x \div m \in Nat
  BY <1>1
<1>5. Shr(x, n) = x \div m
  BY DEF Shr, m
<1>6. QED
  BY <1>2, <1>3, <1>4, <1>5 DEF Shr

\* A number below a power of two has no bits from there on.
LEMMA ShrNothing ==
  ASSUME NEW n \in Nat, NEW m \in Nat, n <= m, NEW x \in Nat, x < TwoTo[n]
  PROVE  Shr(x, m) = 0
<1>1. x < TwoTo[m] /\ TwoTo[m] \in Nat /\ TwoTo[n] \in Nat
  BY PowersGrow, Powers
<1>2. x = (TwoTo[m] * 0) + x /\ x \in 0..TwoTo[m] - 1
  BY <1>1
<1>3. x \div TwoTo[m] = 0
  BY <1>1, <1>2, DivModUnique
<1>4. QED
  BY <1>3 DEF Shr

\* Two neighbouring bytes of a number.
LEMMA TwoBytes ==
  ASSUME NEW a \in Nat
  PROVE  (a % 256) + 256 * ((a \div 256) % 256) = a % 65536
OBVIOUS

\* Eight bits at any offset within a byte lie in two bytes.
LEMMA EightBits ==
  ASSUME NEW a \in Nat
  PROVE  /\ ((a % 65536) \div 1) % 256 = a % 256
         /\ ((a % 65536) \div 2) % 256 = (a \div 2) % 256
         /\ ((a % 65536) \div 4) % 256 = (a \div 4) % 256
         /\ ((a % 65536) \div 8) % 256 = (a \div 8) % 256
         /\ ((a % 65536) \div 16) % 256 = (a \div 16) % 256
         /\ ((a % 65536) \div 32) % 256 = (a \div 32) % 256
         /\ ((a % 65536) \div 64) % 256 = (a \div 64) % 256
         /\ ((a % 65536) \div 128) % 256 = (a \div 128) % 256
<1>1. ((a % 65536) \div 1) % 256 = a % 256
  OBVIOUS
<1>2. ((a % 65536) \div 2) % 256 = (a \div 2) % 256
  OBVIOUS
<1>3. ((a % 65536) \div 4) % 256 = (a \div 4) % 256
  OBVIOUS
<1>4. ((a % 65536) \div 8) % 256 = (a \div 8) % 256
  OBVIOUS
<1>5. ((a % 65536) \div 16) % 256 = (a \div 16) % 256
  OBVIOUS
<1>6. ((a % 65536) \div 32) % 256 = (a \div 32) % 256
  OBVIOUS
<1>7. ((a % 65536) \div 64) % 256 = (a \div 64) % 256
  OBVIOUS
<1>8. ((a % 65536) \div 128) % 256 = (a \div 128) % 256
  OBVIOUS
<1>9. QED
  BY <1>1, <1>2, <1>3, <1>4, <1>5, <1>6, <1>7, <1>8

\* A byte and a bit position in it.
LEMMA ByteAndBit ==
  ASSUME NEW x \in Nat
  PROVE  /\ x \div 8 \in Nat /\ x % 8 \in 0..7
         /\ x = 8 * (x \div 8) + (x % 8)
OBVIOUS

\* The window at bit position x is the eight bits from x - 1 on, whichever
\* two bytes they straddle (secp256k1.c:453-455).
LEMMA WindowIsShift ==
  ASSUME NEW x \in Nat, x >= 1, s \in Nat
  PROVE  Window(x) = Shr(s, x - 1) % 256
<1> DEFINE q == (x - 1) \div 8
           m == (x - 1) % 8
           b == 8 * q
           a == Shr(s, b)
<1>1. x - 1 \in Nat
  OBVIOUS
<1>2. q \in Nat /\ m \in 0..7 /\ x - 1 = 8 * q + m
  BY <1>1, ByteAndBit
<1>3. Window(x) = ((Byte(q) + 256 * Byte(q + 1)) \div Pow2[m + 1]) % 256
  BY DEF Window
<1> HIDE DEF q, m
<1>0. b \in Nat
  BY <1>2
<1>5. 8 * (q + 1) = b + 8 /\ x - 1 = b + m /\ b + 0 = b /\ 8 * q = b
  BY <1>2
<1> HIDE DEF b
<1>4. /\ a \in Nat
      /\ Shr(s, b + 1) = a \div 2
      /\ Shr(s, b + 2) = a \div 4
      /\ Shr(s, b + 3) = a \div 8
      /\ Shr(s, b + 4) = a \div 16
      /\ Shr(s, b + 5) = a \div 32
      /\ Shr(s, b + 6) = a \div 64
      /\ Shr(s, b + 7) = a \div 128
      /\ Shr(s, b + 8) = a \div 256
  BY <1>0, ShrMore
<1>6. Byte(q) = a % 256 /\ Byte(q + 1) = (a \div 256) % 256
  BY <1>4, <1>5 DEF Byte, Shr
<1> HIDE DEF a
<1>7. Byte(q) + 256 * Byte(q + 1) = a % 65536
  BY <1>4, <1>6, TwoBytes
<1>8. /\ ((a % 65536) \div 1) % 256 = a % 256
      /\ ((a % 65536) \div 2) % 256 = (a \div 2) % 256
      /\ ((a % 65536) \div 4) % 256 = (a \div 4) % 256
      /\ ((a % 65536) \div 8) % 256 = (a \div 8) % 256
      /\ ((a % 65536) \div 16) % 256 = (a \div 16) % 256
      /\ ((a % 65536) \div 32) % 256 = (a \div 32) % 256
      /\ ((a % 65536) \div 64) % 256 = (a \div 64) % 256
      /\ ((a % 65536) \div 128) % 256 = (a \div 128) % 256
  BY <1>4, EightBits
<1>9. /\ Pow2[1] = 1 /\ Pow2[2] = 2 /\ Pow2[3] = 4 /\ Pow2[4] = 8
      /\ Pow2[5] = 16 /\ Pow2[6] = 32 /\ Pow2[7] = 64 /\ Pow2[8] = 128
  BY DEF Pow2
<1> DEFINE Bits8(y) == (y \div Pow2[m + 1]) % 256
<1>10. Bits8(a % 65536) = Shr(s, b + m) % 256
  <2>1. CASE m = 0
    BY <1>5, <1>8, <1>9, <2>1 DEF a
  <2>2. CASE m = 1
    BY <1>4, <1>8, <1>9, <2>2
  <2>3. CASE m = 2
    BY <1>4, <1>8, <1>9, <2>3
  <2>4. CASE m = 3
    BY <1>4, <1>8, <1>9, <2>4
  <2>5. CASE m = 4
    BY <1>4, <1>8, <1>9, <2>5
  <2>6. CASE m = 5
    BY <1>4, <1>8, <1>9, <2>6
  <2>7. CASE m = 6
    BY <1>4, <1>8, <1>9, <2>7
  <2>8. CASE m = 7
    BY <1>4, <1>8, <1>9, <2>8
  <2>9. QED
    BY <1>2, <2>1, <2>2, <2>3, <2>4, <2>5, <2>6, <2>7, <2>8
<1>11. QED
  BY <1>3, <1>5, <1>7, <1>10

----------------------------------------------------------------------------
(***************************************************************************)
(* Signed digits.                                                          *)
(***************************************************************************)
\* A window read as a signed digit.
Digit(w) == ((w + 1) \div 2) - 128 * (w \div 128)

\* The digit of a byte, which is what BoothW7 says of magnitude and sign
\* (secp256k1.c:242-252).
LEMMA BoothIsDigit ==
  ASSUME NEW w \in 0..255
  PROVE  /\ BoothW7(w) \in Nat
         /\ BoothW7(w) \div 2 \in 0..64
         /\ BoothW7(w) > 1 <=> BoothW7(w) \div 2 # 0
         /\ BoothW7(w) % 2 = 0 => Digit(w) = BoothW7(w) \div 2
         /\ BoothW7(w) % 2 = 1 => Digit(w) = -(BoothW7(w) \div 2)
         /\ BoothW7(w) % 2 \in {0, 1}
<1> DEFINE b == BoothW7(w)
<1>1. CASE w < 128
  <2>1. b = 2 * ((w \div 2) + (w % 2)) /\ w \div 128 = 0
    BY <1>1 DEF BoothW7
  <2>2. b \div 2 = (w + 1) \div 2 /\ b % 2 = 0 /\ b \div 2 \in 0..64 /\ b \in Nat
    BY <1>1, <2>1
  <2>3. Digit(w) = b \div 2
    BY <2>1, <2>2 DEF Digit
  <2> HIDE DEF b
  <2>4. b > 1 <=> b \div 2 # 0
    BY <2>2
  <2>5. QED
    BY <2>2, <2>3, <2>4 DEF b
<1>2. CASE w >= 128
  <2>1. b = 2 * (((255 - w) \div 2) + ((255 - w) % 2)) + 1 /\ w \div 128 = 1
    BY <1>2 DEF BoothW7
  <2>2. b \div 2 = (256 - w) \div 2 /\ b % 2 = 1 /\ b \div 2 \in 0..64 /\ b \in Nat
    BY <1>2, <2>1
  <2>3. Digit(w) = -(b \div 2)
    <3>1. ((w + 1) \div 2) - 128 = -((256 - w) \div 2)
      BY <1>2
    <3>2. QED
      BY <3>1, <2>1, <2>2 DEF Digit
  <2> HIDE DEF b
  <2>4. b > 1 <=> b \div 2 # 0
    BY <2>2
  <2>5. QED
    BY <2>2, <2>3, <2>4 DEF b
<1>3. QED
  BY <1>1, <1>2

\* A digit's range.
LEMMA DigitRange ==
  ASSUME NEW w \in 0..255
  PROVE  Digit(w) \in Int /\ -64 <= Digit(w) /\ Digit(w) <= 64
BY DEF Digit

\* Horner's rule: 128 times the rounded upper part, plus the signed digit of
\* the eight bits below, is the rounded longer part.
LEMMA Horner ==
  ASSUME NEW u \in Nat
  PROVE  128 * (((u \div 128) + 1) \div 2) + Digit(u % 256) = (u + 1) \div 2
BY DEF Digit

\* The first window: a zero bit is shifted in below the scalar.
LEMMA HornerFirst ==
  ASSUME NEW n \in Nat
  PROVE  /\ 128 * (((n \div 64) + 1) \div 2) + Digit((2 * n) % 256) = n
         /\ (2 * (n % 256)) % 256 = (2 * n) % 256
BY DEF Digit

----------------------------------------------------------------------------
(***************************************************************************)
(* Points as remainders.                                                   *)
(***************************************************************************)
\* The order.
LEMMA Order == N \in Nat /\ N > 2 /\ N % 2 = 1
BY OrderAssumption

\* Numbers that differ by a multiple have one remainder.
LEMMA ModShift ==
  ASSUME NEW x \in Int, NEW q \in Int, NEW m \in Nat, m > 0
  PROVE  (x + (m * q)) % m = x % m
<1> DEFINE u == x \div m
           v == x % m
<1>1. u \in Int /\ v \in 0..m - 1 /\ x = (m * u) + v
  BY DivMod
<1> HIDE DEF u, v
<1>2. x + (m * q) = (m * (u + q)) + v /\ u + q \in Int
  BY <1>1
<1> DEFINE y == x + (m * q)
           h == u + q
<1>3. y \in Int /\ h \in Int /\ y = (m * h) + v
  BY <1>1, <1>2
<1> HIDE DEF y, h
<1>4. y % m = v
  BY <1>1, <1>3, DivModUnique
<1>5. QED
  BY <1>4 DEF y, v

\* The remainder of a sum of remainders.
LEMMA ModSum ==
  ASSUME NEW x \in Int, NEW y \in Int, NEW m \in Nat, m > 0
  PROVE  ((x % m) + (y % m)) % m = (x + y) % m
<1> DEFINE u == x \div m
           v == x % m
           h == y \div m
           z == y % m
<1>1. u \in Int /\ v \in Int /\ x = (m * u) + v /\ h \in Int /\ z \in Int /\ y = (m * h) + z
  BY DivMod
<1> HIDE DEF u, v, h, z
<1>2. x + y = (v + z) + (m * (u + h)) /\ u + h \in Int /\ v + z \in Int
  BY <1>1
<1>3. ((v + z) + (m * (u + h))) % m = (v + z) % m
  BY <1>2, ModShift
<1>4. (v + z) % m = (x + y) % m
  BY <1>2, <1>3
<1>5. QED
  BY <1>4 DEF v, z

\* The remainder of a multiple of a remainder.
LEMMA ModTimes ==
  ASSUME NEW x \in Int, NEW c \in Int, NEW m \in Nat, m > 0
  PROVE  (c * (x % m)) % m = (c * x) % m
<1> DEFINE u == x \div m
           v == x % m
<1>1. u \in Int /\ v \in Int /\ x = (m * u) + v
  BY DivMod
<1> HIDE DEF u, v
<1>2. c * x = (c * v) + (m * (c * u)) /\ c * u \in Int /\ c * v \in Int
  BY <1>1
<1>3. ((c * v) + (m * (c * u))) % m = (c * v) % m
  BY <1>2, ModShift
<1>4. (c * v) % m = (c * x) % m
  BY <1>2, <1>3
<1>5. QED
  BY <1>4 DEF v

\* The remainder of the negated number.
LEMMA ModMinus ==
  ASSUME NEW x \in Int, NEW m \in Nat, m > 0
  PROVE  (m - (x % m)) % m = (-x) % m
<1> DEFINE u == x \div m
           v == x % m
<1>1. u \in Int /\ v \in Int /\ x = (m * u) + v
  BY DivMod
<1> HIDE DEF u, v
<1>2. m - v = (-x) + (m * (u + 1)) /\ u + 1 \in Int /\ -x \in Int
  BY <1>1
<1>3. ((-x) + (m * (u + 1))) % m = (-x) % m
  BY <1>2, ModShift
<1>4. (m - v) % m = (-x) % m
  BY <1>2, <1>3
<1>5. QED
  BY <1>4 DEF v

\* Numbers with one remainder differ by a multiple.
LEMMA EqualRemainders ==
  ASSUME NEW x \in Int, NEW y \in Int, NEW m \in Nat, m > 0, x % m = y % m
  PROVE  \E q \in Int : x - y = m * q
<1> DEFINE u == x \div m
           h == y \div m
           v == x % m
<1>1. u \in Int /\ v \in Int /\ x = (m * u) + v /\ h \in Int /\ y = (m * h) + v
  BY DivMod
<1> HIDE DEF u, v, h
<1>2. x - y = m * (u - h) /\ u - h \in Int
  BY <1>1
<1>3. QED
  BY <1>2

\* The routines' results are points.
LEMMA PointsClosed ==
  /\ \A x \in Int : x % N \in Points
  /\ Infinity \in Points /\ G \in Points
  /\ \A x \in Points, y \in Points : PointAddAffine(x, y) \in Points
<1>1. N \in Nat /\ N > 2
  BY Order
<1>2. \A x \in Int : x % N \in 0..N - 1
  BY <1>1
<1>3. QED
  BY <1>1, <1>2 DEF Points, Infinity, G, PointAddAffine

\* An addition of different points, or of infinite ones.
LEMMA AddRight ==
  ASSUME NEW x \in Int, NEW y \in Int, x % N # y % N \/ x % N = Infinity
  PROVE  PointAddAffine(x % N, y % N) = (x + y) % N
<1>1. N \in Nat /\ N > 2
  BY Order
<1>2. ((x % N) + (y % N)) % N = (x + y) % N
  BY <1>1, ModSum
<1>3. CASE x % N # y % N
  BY <1>2, <1>3 DEF PointAddAffine
<1>4. CASE x % N = y % N
  <2>1. x % N = 0 /\ y % N = 0
    BY <1>4 DEF Infinity
  <2>2. (0 + 0) % N = 0
    BY <1>1
  <2>3. QED
    BY <1>2, <1>4, <2>1, <2>2 DEF PointAddAffine, Infinity
<1>5. QED
  BY <1>3, <1>4

\* Seven doublings.
LEMMA SevenDoublings ==
  ASSUME NEW x \in Int
  PROVE  Dbl7(x % N) = (128 * x) % N
<1>1. N \in Nat /\ N > 0
  BY Order
<1>2. ASSUME NEW y \in Int PROVE PointDbl(y % N) = (2 * y) % N
  BY <1>1, <1>2, ModTimes DEF PointDbl
<1>3. /\ PointDbl(x % N) = (2 * x) % N
      /\ PointDbl((2 * x) % N) = (4 * x) % N
      /\ PointDbl((4 * x) % N) = (8 * x) % N
      /\ PointDbl((8 * x) % N) = (16 * x) % N
      /\ PointDbl((16 * x) % N) = (32 * x) % N
      /\ PointDbl((32 * x) % N) = (64 * x) % N
      /\ PointDbl((64 * x) % N) = (128 * x) % N
  <2>1. /\ 2 * (2 * x) = 4 * x /\ 2 * (4 * x) = 8 * x /\ 2 * (8 * x) = 16 * x
        /\ 2 * (16 * x) = 32 * x /\ 2 * (32 * x) = 64 * x /\ 2 * (64 * x) = 128 * x
    OBVIOUS
  <2>2. /\ 2 * x \in Int /\ 4 * x \in Int /\ 8 * x \in Int /\ 16 * x \in Int
        /\ 32 * x \in Int /\ 64 * x \in Int
    OBVIOUS
  <2>3. /\ PointDbl(x % N) = (2 * x) % N
        /\ PointDbl((2 * x) % N) = (2 * (2 * x)) % N
        /\ PointDbl((4 * x) % N) = (2 * (4 * x)) % N
        /\ PointDbl((8 * x) % N) = (2 * (8 * x)) % N
        /\ PointDbl((16 * x) % N) = (2 * (16 * x)) % N
        /\ PointDbl((32 * x) % N) = (2 * (32 * x)) % N
        /\ PointDbl((64 * x) % N) = (2 * (64 * x)) % N
    BY <1>2, <2>2
  <2>4. QED
    BY <2>1, <2>3
<1>4. QED
  BY <1>3 DEF Dbl7

\* An odd order does not divide a power of two times a smaller number.
LEMMA EntryFinite ==
  ASSUME NEW w \in Nat, NEW x \in Nat, x > 0, x < N
  PROVE  TableEntry(w, x) # Infinity
<1>1. N \in Nat /\ N > 2 /\ N % 2 = 1
  BY Order
<1> DEFINE S == {n \in Nat : (x * TwoTo[n]) % N # 0}
<1>2. 0 \in S
  BY <1>1, Powers, SMTT(60)
<1>3. ASSUME NEW n \in Nat, n \in S PROVE n + 1 \in S
  <2> DEFINE y == x * TwoTo[n]
  <2>1. y \in Nat /\ x * TwoTo[n + 1] = 2 * y
    <3>1. TwoTo[n] \in Nat /\ TwoTo[n + 1] = 2 * TwoTo[n]
      BY Powers
    <3> DEFINE z == TwoTo[n]
    <3> HIDE DEF z
    <3>2. x * z \in Nat /\ x * (2 * z) = 2 * (x * z)
      BY <3>1 DEF z
    <3>3. QED
      BY <3>1, <3>2 DEF z
  <2>2. y % N # 0
    BY <1>3
  <2> HIDE DEF y
  <2>3. SUFFICES ASSUME (2 * y) % N = 0 PROVE FALSE
    BY <2>1
  <2> DEFINE q == (2 * y) \div N
  <2>4. q \in Int /\ 2 * y = N * q
    BY <1>1, <2>1, <2>3, DivMod
  <2> HIDE DEF q
  <2>5. N = (2 * (N \div 2)) + 1 /\ N \div 2 \in Int
    BY <1>1
  <2> DEFINE h == N \div 2
  <2>6. N = (2 * h) + 1 /\ h \in Int
    BY <2>5
  <2> HIDE DEF h
  <2>7. q = 2 * (y - (h * q))
    <3>1. N * q = (2 * (h * q)) + q /\ h * q \in Int
      BY <2>4, <2>6
    <3>2. QED
      BY <2>1, <2>4, <3>1
  <2> DEFINE g == y - (h * q)
  <2>8. g \in Int /\ q = 2 * g
    BY <2>1, <2>4, <2>6, <2>7
  <2> HIDE DEF g
  <2>9. N * q = 2 * (N * g) /\ N * g \in Int
    BY <1>1, <2>8
  <2>10. y = (N * g) + 0 /\ 0 \in 0..N - 1
    BY <1>1, <2>1, <2>4, <2>9
  <2>11. y % N = 0
    BY <1>1, <2>1, <2>8, <2>10, DivModUnique
  <2>12. QED
    BY <2>2, <2>11
<1> HIDE DEF S
<1>4. Nat \subseteq S
  BY <1>2, <1>3, Induction
<1>5. 7 * w \in S
  BY <1>4
<1>6. QED
  BY <1>5 DEF S, TableEntry, Infinity

\* The entries of a row follow each other by seven doublings.
LEMMA NextRow ==
  ASSUME NEW w \in Nat, NEW x \in Nat
  PROVE  /\ TableEntry(w, x) \in Points
         /\ Dbl7(TableEntry(w, x)) = TableEntry(w + 1, x)
<1> DEFINE y == TwoTo[7 * w]
<1>1. y \in Nat /\ TwoTo[7 * w + 7] = 128 * y /\ 7 * (w + 1) = 7 * w + 7
  <2>1. 7 * w \in Nat /\ 7 * (w + 1) = 7 * w + 7
    OBVIOUS
  <2>2. QED
    BY <2>1, Powers, PowersApart
<1>2. TableEntry(w, x) = (x * y) % N
  BY DEF TableEntry
<1>3. TableEntry(w + 1, x) = (x * (128 * y)) % N
  BY <1>1 DEF TableEntry
<1> HIDE DEF y
<1>4. x * y \in Int /\ x * (128 * y) = 128 * (x * y)
  BY <1>1
<1>5. Dbl7((x * y) % N) = (128 * (x * y)) % N /\ (x * y) % N \in Points
  BY <1>4, SevenDoublings, PointsClosed
<1>6. QED
  BY <1>2, <1>3, <1>4, <1>5

----------------------------------------------------------------------------
(***************************************************************************)
(* The accumulator.                                                        *)
(***************************************************************************)
\* The part of a number from bit x on, rounded by the bit below, and what the
\* number is without it.
Upper(n, x) == (Shr(n, x - 1) + 1) \div 2
Lower(n, x) == n - (TwoTo[x] * Upper(n, x))

\* The digit of a window adds up with what is below to what is below the next.
LEMMA LowerStep ==
  ASSUME NEW n \in Nat, NEW x \in Nat, x >= 1
  PROVE  /\ Lower(n, x) \in Int
         /\ Shr(n, x - 1) % 256 \in 0..255
         /\ Lower(n, x) + (Digit(Shr(n, x - 1) % 256) * TwoTo[x]) = Lower(n, x + 7)
<1> DEFINE u == Shr(n, x - 1)
           m == TwoTo[x]
           c == Upper(n, x)
           h == Upper(n, x + 7)
           d == Digit(u % 256)
<1>1. u \in Nat /\ Shr(n, (x - 1) + 7) = u \div 128
  <2>1. x - 1 \in Nat
    OBVIOUS
  <2>2. QED
    BY <2>1, ShrMore
<1>2. (x + 7) - 1 = (x - 1) + 7
  OBVIOUS
<1>3. h = ((u \div 128) + 1) \div 2 /\ c = (u + 1) \div 2
  BY <1>1, <1>2 DEF Upper
<1>4. m \in Nat /\ TwoTo[x + 7] = 128 * m
  BY Powers, PowersApart
<1>5. Lower(n, x) = n - (m * c) /\ Lower(n, x + 7) = n - ((128 * m) * h)
  BY <1>4 DEF Lower
<1> HIDE DEF u, m, c, h, d
<1>6. 128 * h + d = c
  BY <1>1, <1>3, Horner DEF d
<1>7. u % 256 \in 0..255
  BY <1>1
<1>8. c \in Int /\ h \in Int /\ d \in Int
  BY <1>1, <1>3, <1>7, DigitRange DEF d
<1>9. m * c = ((128 * m) * h) + (d * m)
  BY <1>4, <1>6, <1>8
<1>10. m * c \in Int /\ (128 * m) * h \in Int /\ d * m \in Int
  BY <1>4, <1>8
<1>11. Lower(n, x) + (d * m) = Lower(n, x + 7) /\ Lower(n, x) \in Int
  <2> DEFINE y == m * c
             z == (128 * m) * h
             v == d * m
  <2>1. y \in Int /\ z \in Int /\ v \in Int /\ y = z + v
    BY <1>9, <1>10
  <2>2. Lower(n, x) = n - y /\ Lower(n, x + 7) = n - z
    BY <1>5
  <2> HIDE DEF y, z, v
  <2>3. Lower(n, x) + v = Lower(n, x + 7) /\ Lower(n, x) \in Int
    BY <2>1, <2>2
  <2>4. QED
    BY <2>3 DEF v
<1>12. QED
  BY <1>7, <1>11 DEF u, m, d

\* The first digit is what is below bit 7.
LEMMA LowerFirst ==
  ASSUME NEW n \in Nat
  PROVE  Lower(n, 7) = Digit((2 * n) % 256)
<1>1. Shr(n, 0) = n
  BY Powers DEF Shr
<1>2. Shr(n, 6) = n \div 64
  BY SmallPowers DEF Shr
<1>3. TwoTo[7] = 128
  BY SmallPowers
<1>4. Upper(n, 7) = ((n \div 64) + 1) \div 2
  BY <1>2 DEF Upper
<1>5. (2 * n) % 256 \in 0..255
  OBVIOUS
<1>6. Digit((2 * n) % 256) \in Int
  BY <1>5, DigitRange
<1>7. 128 * (((n \div 64) + 1) \div 2) + Digit((2 * n) % 256) = n
  BY HornerFirst
<1>8. QED
  BY <1>3, <1>4, <1>6, <1>7 DEF Lower

\* What is below bit x is the remainder, or its difference to the power if the
\* bit below x is set; it is less than half the power away from 0.
LEMMA LowerIs ==
  ASSUME NEW n \in Nat, NEW x \in Nat, x >= 1
  PROVE  /\ Lower(n, x) = IF n % TwoTo[x] >= TwoTo[x - 1]
                          THEN (n % TwoTo[x]) - TwoTo[x] ELSE n % TwoTo[x]
         /\ -TwoTo[x - 1] <= Lower(n, x) /\ Lower(n, x) < TwoTo[x - 1]
<1> DEFINE m == TwoTo[x - 1]
           u == n \div m
           v == n % m
           h == u \div 2
           b == u % 2
<1>1. m \in Nat /\ m > 0 /\ TwoTo[x] = 2 * m
  <2>1. x - 1 \in Nat /\ (x - 1) + 1 = x
    OBVIOUS
  <2>2. TwoTo[x - 1] \in Nat /\ TwoTo[x - 1] > 0 /\ TwoTo[(x - 1) + 1] = 2 * TwoTo[x - 1]
    BY <2>1, Powers
  <2>3. QED
    BY <2>1, <2>2
<1>2. u \in Nat /\ v \in 0..m - 1 /\ n = (m * u) + v
  <2> HIDE DEF m
  <2>1. u \in Nat
    BY <1>1
  <2>2. QED
    BY <1>1, <2>1, DivMod
<1>3. h \in Nat /\ b \in 0..1 /\ u = (2 * h) + b /\ (u + 1) \div 2 = h + b
  BY <1>2
<1>4. Upper(n, x) = h + b
  BY <1>3 DEF Upper, Shr
<1> HIDE DEF m, u, v, h, b
<1>5. Lower(n, x) = n - ((2 * m) * (h + b))
  BY <1>1, <1>4 DEF Lower
<1>6. CASE b = 0
  <2>1. n = ((2 * m) * h) + v /\ v \in 0..(2 * m) - 1
    BY <1>1, <1>2, <1>3, <1>6
  <2>2. n % (2 * m) = v
    BY <1>1, <1>3, <2>1, DivModUnique
  <2>3. Lower(n, x) = v
    <3>1. (2 * m) * (h + b) = (2 * m) * h
      BY <1>1, <1>3, <1>6
    <3>2. (2 * m) * h \in Int
      BY <1>1, <1>3
    <3>3. QED
      BY <1>2, <1>5, <2>1, <3>1, <3>2
  <2>4. QED
    BY <1>1, <1>2, <2>2, <2>3 DEF m
<1>7. CASE b = 1
  <2>1. n = ((2 * m) * h) + (m + v) /\ m + v \in 0..(2 * m) - 1
    BY <1>1, <1>2, <1>3, <1>7
  <2>2. n % (2 * m) = m + v
    BY <1>1, <1>3, <2>1, DivModUnique, SMTT(60)
  <2>3. Lower(n, x) = v - m
    <3>1. (2 * m) * (h + b) = ((2 * m) * h) + (2 * m)
      BY <1>1, <1>3, <1>7
    <3>2. (2 * m) * h \in Int
      BY <1>1, <1>3
    <3>3. QED
      BY <1>1, <1>2, <1>5, <2>1, <3>1, <3>2
  <2>4. QED
    BY <1>1, <1>2, <2>2, <2>3 DEF m
<1>8. QED
  BY <1>3, <1>6, <1>7

\* Beyond the last bit there is nothing more to come.
LEMMA LowerAll ==
  ASSUME NEW n \in Nat, NEW x \in Nat, NEW y \in Nat, x < y, n < TwoTo[x]
  PROVE  Lower(n, y) = n /\ n % TwoTo[y] < TwoTo[y - 1]
<1>1. y - 1 \in Nat /\ x <= y - 1
  OBVIOUS
<1>2. Shr(n, y - 1) = 0
  BY <1>1, ShrNothing
<1>3. Upper(n, y) = 0
  BY <1>2 DEF Upper
<1>4. TwoTo[y] \in Nat /\ TwoTo[y] * 0 = 0
  BY Powers
<1>5. Lower(n, y) = n
  BY <1>3, <1>4 DEF Lower
<1>6. n < TwoTo[y - 1] /\ n < TwoTo[y]
  <2>1. TwoTo[x] <= TwoTo[y - 1] /\ TwoTo[x] <= TwoTo[y]
    BY <1>1, PowersGrow
  <2>2. TwoTo[x] \in Nat /\ TwoTo[y - 1] \in Nat
    BY <1>1, Powers
  <2>3. QED
    BY <1>4, <2>1, <2>2
<1>7. n % TwoTo[y] = n
  <2>1. n = (TwoTo[y] * 0) + n /\ n \in 0..TwoTo[y] - 1 /\ TwoTo[y] > 0
    BY <1>4, <1>6
  <2>2. QED
    BY <1>4, <2>1, DivModUnique
<1>8. QED
  BY <1>5, <1>6, <1>7

\* Powers of sums.
LEMMA PowersSum ==
  ASSUME NEW n \in Nat, NEW m \in Nat
  PROVE  TwoTo[n + m] = TwoTo[n] * TwoTo[m]
<1> DEFINE S == {x \in Nat : TwoTo[n + x] = TwoTo[n] * TwoTo[x]}
<1>0. TwoTo[n] \in Nat /\ TwoTo[0] = 1
  BY Powers
<1>1. 0 \in S
  BY <1>0
<1>2. ASSUME NEW x \in Nat, x \in S PROVE x + 1 \in S
  <2> DEFINE y == TwoTo[n]
             z == TwoTo[x]
  <2>1. TwoTo[(n + x) + 1] = 2 * TwoTo[n + x] /\ (n + x) + 1 = n + (x + 1)
    BY Powers
  <2>2. z \in Nat /\ y \in Nat /\ TwoTo[x + 1] = 2 * z /\ TwoTo[n + x] = y * z
    BY <1>2, Powers
  <2>3. 2 * (y * z) = y * (2 * z)
    BY <2>2
  <2>4. QED
    BY <2>1, <2>2, <2>3
<1> HIDE DEF S
<1>3. Nat \subseteq S
  BY <1>1, <1>2, Induction
<1>4. QED
  BY <1>3 DEF S

\* What the assumptions say of the sizes: there are at least two windows, the
\* order is beyond a row's length and between half the range and the range.
LEMMA Sizes ==
  /\ Bits \in Nat /\ Bits >= 8 /\ Windows \in Nat /\ Windows >= 2 /\ Multiples = 64
  /\ 7 * (Windows - 1) < Bits /\ Bits < 7 * Windows
  /\ TwoTo[Bits] \in Nat /\ N < TwoTo[Bits]
  /\ TwoTo[Bits] - TwoTo[7 * (Windows - 1) - 1] < N
  /\ TwoTo[Bits - 1] < N /\ 64 < N
<1>1. /\ Bits \in Nat /\ Bits % 8 = 0 /\ Multiples = 64 /\ Windows \in Nat /\ Windows # 0
      /\ 7 * Windows > Bits /\ 7 * (Windows - 1) < Bits
      /\ N < TwoTo[Bits] /\ TwoTo[Bits] - N < TwoTo[7 * (Windows - 1) - 1]
      /\ N \in Nat /\ N > 2
  BY WidthAssumption, SizesAssumption, Order
<1>2. Bits >= 8
  <2>1. Bits # 0
    BY <1>1, Powers
  <2>2. QED
    BY <1>1, <2>1
<1>3. Windows >= 2 /\ 7 * (Windows - 1) - 1 \in Nat /\ 7 * (Windows - 1) - 1 <= Bits - 1
  BY <1>1, <1>2
<1>4. TwoTo[Bits] \in Nat /\ TwoTo[Bits - 1] \in Nat /\ TwoTo[Bits] = 2 * TwoTo[Bits - 1]
  <2>1. Bits - 1 \in Nat /\ (Bits - 1) + 1 = Bits
    BY <1>2, <1>1
  <2>2. TwoTo[(Bits - 1) + 1] = 2 * TwoTo[Bits - 1] /\ TwoTo[Bits - 1] \in Nat
    BY <2>1, Powers
  <2>3. QED
    BY <1>1, <2>1, <2>2, Powers
<1>5. TwoTo[7 * (Windows - 1) - 1] <= TwoTo[Bits - 1] /\ TwoTo[7] <= TwoTo[Bits - 1]
  <2>1. Bits - 1 \in Nat /\ 7 <= Bits - 1
    BY <1>1, <1>2
  <2>2. QED
    BY <1>3, <2>1, PowersGrow
<1>6. TwoTo[7 * (Windows - 1) - 1] \in Nat /\ TwoTo[7] = 128
  BY <1>3, Powers, SmallPowers
<1>7. QED
  BY <1>1, <1>2, <1>3, <1>4, <1>5, <1>6

\* A multiple of the order between 0 and twice the order is the order.
LEMMA OnceTheOrder ==
  ASSUME NEW x \in Int, NEW q \in Int, NEW m \in Nat, x = m * q, 0 < x, x < 2 * m
  PROVE  x = m
<1>1. q > 0
  <2>1. SUFFICES ASSUME q <= 0 PROVE FALSE
    OBVIOUS
  <2>2. m * (-q) \in Nat /\ m * (-q) = -(m * q)
    BY <2>1
  <2>3. QED
    BY <2>2
<1>2. q < 2
  <2>1. SUFFICES ASSUME q >= 2 PROVE FALSE
    OBVIOUS
  <2>2. m * (q - 2) \in Nat /\ m * (q - 2) = (m * q) - (m * 2)
    BY <2>1
  <2>3. QED
    BY <2>2
<1>3. q = 1
  BY <1>1, <1>2
<1>4. QED
  BY <1>3

\* The window at bit 7x and what it adds (secp256k1.c:452-469).
Bits8(n, x)  == Shr(n, (7 * x) - 1) % 256
Addend(n, x) == Digit(Bits8(n, x)) * TwoTo[7 * x]

\* Below the top window all is too small to differ by a multiple of the order.
LEMMA ApartBelow ==
  ASSUME NEW n \in Nat, NEW x \in Nat, x >= 1, x <= Windows - 2, Digit(Bits8(n, x)) # 0,
         NEW q \in Int, Lower(n, 7 * x) - Addend(n, x) = N * q
  PROVE  FALSE
<1> DEFINE m == TwoTo[(7 * x) - 1]
           d == Digit(Bits8(n, x))
           a == Lower(n, 7 * x)
<1>1. /\ 7 * x \in Nat /\ 7 * x >= 1 /\ (7 * x) - 1 \in Nat /\ ((7 * x) - 1) + 1 = 7 * x
      /\ ((7 * x) - 1) + 8 \in Nat /\ ((7 * x) - 1) + 8 <= Bits - 1 /\ Bits - 1 \in Nat
  BY Sizes
<1>2. m \in Nat /\ m > 0 /\ TwoTo[7 * x] = 2 * m /\ TwoTo[((7 * x) - 1) + 8] = 256 * m
  <2>1. /\ TwoTo[(7 * x) - 1] \in Nat /\ TwoTo[(7 * x) - 1] > 0
        /\ TwoTo[((7 * x) - 1) + 1] = 2 * TwoTo[(7 * x) - 1]
    BY <1>1, Powers
  <2>2. TwoTo[((7 * x) - 1) + 8] = 256 * TwoTo[(7 * x) - 1]
    BY <1>1, PowersApart
  <2>3. QED
    BY <1>1, <2>1, <2>2
<1>3. TwoTo[((7 * x) - 1) + 8] <= TwoTo[Bits - 1]
  BY <1>1, PowersGrow
<1>4. 256 * m < N /\ N \in Nat
  <2>1. TwoTo[Bits - 1] \in Nat /\ TwoTo[Bits - 1] < N /\ N \in Nat
    BY <1>1, Powers, Sizes, Order
  <2> HIDE DEF m
  <2>2. QED
    BY <1>2, <1>3, <2>1
<1>5. /\ a \in Int /\ -m <= a /\ a < m
      /\ d \in Int /\ -64 <= d /\ d <= 64
  <2>1. Bits8(n, x) \in 0..255
    BY <1>1, LowerStep, ZenonT(60) DEF Bits8
  <2>2. QED
    BY <1>1, <2>1, LowerStep, LowerIs, DigitRange, ZenonT(60)
<1>6. Addend(n, x) = d * (2 * m)
  BY <1>2 DEF Addend
<1>7. a - (d * (2 * m)) = N * q /\ d # 0
  BY <1>6
<1> HIDE DEF m, d, a
<1> DEFINE z == d * (2 * m)
<1>8. z \in Int /\ -(128 * m) <= z /\ z <= 128 * m
  <2>1. (64 - d) * (2 * m) \in Nat /\ (64 + d) * (2 * m) \in Nat
    BY <1>2, <1>5
  <2>2. (64 - d) * (2 * m) = (128 * m) - z /\ (64 + d) * (2 * m) = (128 * m) + z
    BY <1>2, <1>5
  <2>3. z \in Int /\ 128 * m \in Int
    BY <1>2, <1>5
  <2> HIDE DEF z
  <2>4. QED
    BY <2>1, <2>2, <2>3
<1>9. z >= 2 * m \/ z <= -(2 * m)
  <2>1. CASE d >= 1
    <3>1. (d - 1) * (2 * m) \in Nat /\ (d - 1) * (2 * m) = z - (2 * m)
      BY <1>2, <1>5, <2>1
    <3> HIDE DEF z
    <3>2. QED
      BY <1>2, <1>8, <3>1
  <2>2. CASE d <= -1
    <3>1. (-1 - d) * (2 * m) \in Nat /\ (-1 - d) * (2 * m) = -z - (2 * m)
      BY <1>2, <1>5, <2>2
    <3> HIDE DEF z
    <3>2. QED
      BY <1>2, <1>8, <3>1
  <2>3. QED
    BY <1>5, <1>7, <2>1, <2>2
<1> HIDE DEF z
<1>10. a - z = N * q
  BY <1>7 DEF z
<1>11. a - z < N /\ -N < a - z /\ a - z \in Int
  BY <1>2, <1>4, <1>5, <1>8
<1>12. q = 0
  <2> DEFINE y == a - z
  <2>1. y \in Int /\ y = N * q /\ y < N /\ -N < y /\ N > 0
    BY <1>2, <1>4, <1>10, <1>11
  <2> HIDE DEF y
  <2>2. QED
    BY <1>4, <2>1, SmallMultiple
<1>13. a - z = 0
  BY <1>4, <1>10, <1>12
<1>14. QED
  BY <1>2, <1>5, <1>8, <1>9, <1>13

\* At the top window the digit is not negative, and the two would differ by
\* the order itself only for a number beyond the range.
LEMMA ApartAtTop ==
  ASSUME NEW n \in Nat, n < TwoTo[Bits], Digit(Bits8(n, Windows - 1)) # 0,
         NEW q \in Int, Lower(n, 7 * (Windows - 1)) - Addend(n, Windows - 1) = N * q
  PROVE  FALSE
<1> DEFINE x == 7 * (Windows - 1)
           m == TwoTo[x - 1]
           u == Shr(n, x - 1)
           d == Digit(u % 256)
           a == Lower(n, x)
           e == TwoTo[Bits - x]
           b == TwoTo[Bits]
<1>1. /\ x \in Nat /\ x >= 1 /\ x - 1 \in Nat /\ (x - 1) + 1 = x /\ x < Bits /\ Bits < x + 7
      /\ Bits \in Nat /\ Bits - x \in Nat /\ x + (Bits - x) = Bits /\ Bits - x >= 1
      /\ (x - 1) + 7 >= Bits /\ (x - 1) + 7 \in Nat
  BY Sizes
<1>2. b \in Nat /\ N \in Nat /\ N < b /\ b - m < N /\ N > 0
  BY Sizes, Order
<1>3. d = Digit(Bits8(n, Windows - 1)) /\ Addend(n, Windows - 1) = d * TwoTo[x]
  BY DEF Bits8, Addend
<1> HIDE DEF x
<1>4. m \in Nat /\ m > 0 /\ TwoTo[x] = 2 * m
  <2>1. TwoTo[x - 1] \in Nat /\ TwoTo[x - 1] > 0 /\ TwoTo[(x - 1) + 1] = 2 * TwoTo[x - 1]
    BY <1>1, Powers
  <2>2. QED
    BY <1>1, <2>1
<1>5. e \in Nat /\ e >= 2 /\ b = (2 * m) * e
  <2>1. TwoTo[x + (Bits - x)] = TwoTo[x] * TwoTo[Bits - x]
    BY <1>1, PowersSum
  <2>2. TwoTo[1] <= TwoTo[Bits - x] /\ TwoTo[1] = 2 /\ TwoTo[Bits - x] \in Nat
    BY <1>1, PowersGrow, Powers, SmallPowers
  <2>3. QED
    BY <1>1, <1>4, <2>1, <2>2
<1>6. /\ a \in Int /\ -m <= a /\ a < m
      /\ a + (d * (2 * m)) = n
  <2>1. Lower(n, x + 7) = n
    BY <1>1, LowerAll
  <2>2. /\ Lower(n, x) \in Int
        /\ Lower(n, x) + (Digit(Shr(n, x - 1) % 256) * TwoTo[x]) = Lower(n, x + 7)
    BY <1>1, LowerStep, ZenonT(60)
  <2>3. -m <= a /\ a < m
    BY <1>1, LowerIs
  <2>4. QED
    BY <1>4, <2>1, <2>2, <2>3
<1>7. d \in Nat
  <2>0. x - 1 \in Nat
    BY <1>1
  <2>1. u \in Nat /\ Shr(n, (x - 1) + 7) = u \div 128
    BY <2>0, ShrMore, SMTT(60)
  <2>2. Shr(n, (x - 1) + 7) = 0
    BY <1>1, ShrNothing
  <2> HIDE DEF u
  <2>3. u < 128 /\ u % 256 = u /\ u \div 128 = 0
    BY <2>1, <2>2
  <2>4. QED
    BY <2>1, <2>3 DEF Digit
<1>8. Lower(n, x) - Addend(n, Windows - 1) = N * q
  BY DEF x
<1>9. a - (d * (2 * m)) = N * q /\ d # 0
  BY <1>3, <1>4, <1>8
<1> HIDE DEF m, u, d, a, e, b
<1> DEFINE z == d * (2 * m)
<1>10. z \in Nat /\ z >= 2 * m
  <2>1. (d - 1) * (2 * m) \in Nat /\ (d - 1) * (2 * m) = z - (2 * m)
    BY <1>4, <1>7, <1>9
  <2>2. z \in Nat
    BY <1>4, <1>7
  <2> HIDE DEF z
  <2>3. QED
    BY <1>4, <2>1, <2>2
<1>11. 4 * m <= b
  <2>1. (2 * m) * (e - 2) \in Nat /\ (2 * m) * (e - 2) = ((2 * m) * e) - (4 * m)
    BY <1>4, <1>5
  <2>2. QED
    BY <1>2, <1>4, <1>5, <2>1
<1> HIDE DEF z
<1>12. n < b /\ a + z = n /\ a - z = N * q
  BY <1>6, <1>9 DEF z, b
<1>13. z - a = N
  <2> DEFINE y == z - a
  <2>1. y \in Int /\ 0 < y /\ y < 2 * N
    BY <1>2, <1>4, <1>6, <1>10, <1>11, <1>12
  <2>2. y = N * (-q)
    <3>1. N * (-q) = -(N * q) /\ N * q \in Int
      BY <1>2
    <3>2. QED
      BY <1>6, <1>10, <1>12, <3>1
  <2> HIDE DEF y
  <2>3. y = N
    BY <1>2, <2>1, <2>2, OnceTheOrder
  <2>4. QED
    BY <2>3 DEF y
<1>14. (2 * m) * (d - e) = (N - b) + a
  <2>1. (2 * m) * (d - e) = z - b
    BY <1>4, <1>5, <1>7 DEF z
  <2>2. QED
    BY <1>2, <1>6, <1>10, <1>13, <2>1
<1>15. d - e = 0
  <2> DEFINE y == (N - b) + a
             h == 2 * m
             g == d - e
  <2>1. y \in Int /\ h \in Nat /\ h > 0 /\ g \in Int /\ y = h * g
    BY <1>2, <1>4, <1>5, <1>6, <1>7, <1>14
  <2>2. y < h /\ -h < y
    BY <1>2, <1>4, <1>6
  <2> HIDE DEF y, h, g
  <2>3. g = 0
    BY <2>1, <2>2, SmallMultiple
  <2>4. QED
    BY <2>3 DEF g
<1>16. z = b
  <2>1. d = e
    BY <1>5, <1>7, <1>15
  <2>2. QED
    BY <1>4, <1>5, <2>1 DEF z
<1>17. QED
  BY <1>2, <1>6, <1>10, <1>12, <1>13, <1>16

\* The addition that cannot double never meets equal finite points
\* (secp256k1.c:468).
LEMMA Apart ==
  ASSUME NEW n \in Nat, n < TwoTo[Bits], NEW x \in 1..Windows - 1
  PROVE  Lower(n, 7 * x) % N # Addend(n, x) % N \/ Lower(n, 7 * x) % N = Infinity
<1> SUFFICES ASSUME Lower(n, 7 * x) % N = Addend(n, x) % N, Lower(n, 7 * x) % N # Infinity
             PROVE  FALSE
  OBVIOUS
<1>1. N \in Nat /\ N > 0 /\ x \in Nat /\ 7 * x \in Nat /\ 7 * x >= 1 /\ Windows \in Nat
  BY Order, Sizes
<1>2. Lower(n, 7 * x) \in Int
  BY <1>1, LowerStep
<1>3. Bits8(n, x) \in 0..255
  BY <1>1, LowerStep, ZenonT(60) DEF Bits8
<1>4. Addend(n, x) \in Int
  <2>1. Digit(Bits8(n, x)) \in Int /\ TwoTo[7 * x] \in Nat
    BY <1>1, <1>3, DigitRange, Powers
  <2>2. QED
    BY <2>1 DEF Addend
<1>5. Digit(Bits8(n, x)) # 0
  <2>1. SUFFICES ASSUME Digit(Bits8(n, x)) = 0 PROVE FALSE
    OBVIOUS
  <2>2. Addend(n, x) = 0
    <3>1. TwoTo[7 * x] \in Nat
      BY <1>1, Powers
    <3>2. QED
      BY <2>1, <3>1 DEF Addend
  <2>3. 0 % N = 0
    BY <1>1
  <2>4. QED
    BY <2>2, <2>3 DEF Infinity
<1>6. PICK q \in Int : Lower(n, 7 * x) - Addend(n, x) = N * q
  BY <1>1, <1>2, <1>4, EqualRemainders
<1>7. CASE x <= Windows - 2
  BY <1>1, <1>5, <1>6, <1>7, ApartBelow
<1>8. CASE x = Windows - 1
  BY <1>5, <1>6, <1>8, ApartAtTop
<1>9. QED
  BY <1>1, <1>7, <1>8

----------------------------------------------------------------------------
(***************************************************************************)
(* The table, read.                                                        *)
(***************************************************************************)
\* The entry gathered for a window of row x is its digit times 2^(7x) times G
\* (secp256k1.c:424-450, 460-466).
LEMMA GatherRight ==
  ASSUME block[precomp] = FullTable, NEW x \in W, NEW w \in 0..255
  PROVE  /\ Gather(x, BoothW7(w)) = (Digit(w) * TwoTo[7 * x]) % N
         /\ Digit(w) * TwoTo[7 * x] \in Int
<1> DEFINE b == BoothW7(w)
           e == IF b > 1 THEN block[precomp][x][b \div 2] ELSE Infinity
           m == TwoTo[7 * x]
           d == Digit(w)
<1>1. /\ b \in Nat /\ b \div 2 \in 0..64 /\ (b > 1 <=> b \div 2 # 0) /\ b % 2 \in {0, 1}
      /\ b % 2 = 0 => d = b \div 2
      /\ b % 2 = 1 => d = -(b \div 2)
  BY BoothIsDigit
<1>2. Gather(x, b) = IF b % 2 = 1 THEN PointNeg(e) ELSE e
  BY DEF Gather
<1>3. m \in Nat
  <2>1. 7 * x \in Nat
    BY Sizes DEF W
  <2>2. QED
    BY <2>1, Powers
<1>4. N \in Nat /\ N > 0 /\ 0 % N = 0
  BY Order
<1>5. e = ((b \div 2) * m) % N
  <2>1. CASE b > 1
    <3>1. b \div 2 \in K
      BY <1>1, <2>1, Sizes DEF K
    <3>2. block[precomp][x][b \div 2] = TableEntry(x, b \div 2)
      BY <3>1 DEF FullTable
    <3>3. QED
      BY <2>1, <3>2 DEF TableEntry
  <2>2. CASE ~ (b > 1)
    <3>1. b \div 2 = 0 /\ e = 0
      BY <1>1, <2>2 DEF Infinity
    <3>2. (b \div 2) * m = 0
      BY <1>3, <3>1
    <3>3. QED
      BY <1>4, <3>1, <3>2
  <2>3. QED
    BY <2>1, <2>2
<1> HIDE DEF b, e, m, d
<1>6. d * m \in Int
  BY <1>1, <1>3
<1>7. CASE b % 2 = 0
  BY <1>1, <1>2, <1>5, <1>6, <1>7 DEF d, m, b
<1>8. CASE b % 2 = 1
  <2> DEFINE y == (b \div 2) * m
  <2>1. y \in Int /\ d * m = -y
    BY <1>1, <1>3, <1>8
  <2> HIDE DEF y
  <2>2. (N - (y % N)) % N = (-y) % N
    BY <1>4, <2>1, ModMinus
  <2>3. PointNeg(e) = (d * m) % N
    BY <1>5, <2>1, <2>2 DEF PointNeg, y
  <2>4. QED
    BY <1>2, <1>6, <1>8, <2>3 DEF d, m, b
<1>9. QED
  BY <1>1, <1>7, <1>8

----------------------------------------------------------------------------
(***************************************************************************)
(* The table, written.                                                     *)
(***************************************************************************)
TableTypes ==
  TableTypeOK /\ block \in [Blocks -> [W -> [K -> Points \cup {Garbage}]]]

\* The local points of a caller in the loop are what its counters say.
Locals == \A u \in Threads :
  pc[u] = "fill" => k[u] \in K /\ T[u] = k[u] /\ P[u] = TableEntry(j[u], k[u])

\* One caller at a time, and how far the globals are at each of its steps; OK
\* is only returned, and remembered, when nobody is at work.
Turns ==
  /\ \A u, v \in Threads : pc[u] # "idle" /\ pc[v] # "idle" => u = v
  /\ live \subseteq {storage}
  /\ storage \in live \cup freed \cup {NULL}
  /\ \A u \in Threads : pc[u] = "malloc" => storage = NULL
  /\ \A u \in Threads : pc[u] = "align" => storage \in live
  /\ \A u \in Threads : pc[u] = "fill" => precomp = storage /\ storage \in live
  /\ \A u \in Threads : ret[u] = "OK" => storage # NULL /\ \A v \in Threads : pc[v] = "idle"

\* The entries before the counters are stored.
Progress == \A u \in Threads : pc[u] = "fill" =>
  \A w \in W, x \in K :
    x < k[u] \/ (x = k[u] /\ w < j[u]) => block[precomp][w][x] = TableEntry(w, x)

\* Between calls an allocated table is complete.
Complete ==
  (\A u \in Threads : pc[u] = "idle") /\ storage \in live =>
    precomp \in live /\ block[precomp] = FullTable

TableInv == TableTypes /\ Locals /\ StoredEntriesRight /\ Turns /\ Progress /\ Complete

\* No table yet.
LEMMA TableInitHolds == TableInit => TableInv
<1> SUFFICES ASSUME TableInit PROVE TableInv
  OBVIOUS
<1>1. /\ Windows \in Nat /\ Multiples = 64 /\ MaxBlocks \in Nat
      /\ Infinity \in Points
  BY Sizes, SizesAssumption, PointsClosed
<1>2. TableTypeOK
  BY <1>1 DEF TableInit, TableTypeOK, NULL
<1>3. block \in [Blocks -> [W -> [K -> Points \cup {Garbage}]]]
  BY DEF TableInit
<1>4. StoredEntriesRight
  BY DEF TableInit, StoredEntriesRight
<1>5. Locals /\ Turns /\ Progress /\ Complete
  BY DEF TableInit, Locals, Turns, Progress, Complete
<1>6. QED
  BY <1>2, <1>3, <1>4, <1>5 DEF TableInv, TableTypes

\* The call and the return of a caller that finds a table.
LEMMA GenReturnsAtOnceKeeps ==
  ASSUME TableInv, TakeTurns, NEW u \in Threads, GenReturnsAtOnce(u)
  PROVE  TableInv'
<1> USE DEF TableInv, GenReturnsAtOnce, globals
<1>1. TableTypes'
  BY DEF TableTypes, TableTypeOK
<1>2. \A v \in Threads : pc[v] = "idle"
  BY DEF TakeTurns
<1>3. Turns'
  BY <1>2 DEF Turns, TableTypes, TableTypeOK
<1>4. Locals' /\ StoredEntriesRight' /\ Progress' /\ Complete'
  BY DEF Locals, StoredEntriesRight, Progress, Complete
<1>5. QED
  BY <1>1, <1>3, <1>4

\* The beginning of a call that finds none.
LEMMA GenStartsKeeps ==
  ASSUME TableInv, TakeTurns, NEW u \in Threads, GenStarts(u)
  PROVE  TableInv'
<1> USE DEF TableInv, GenStarts, globals
<1>1. TableTypes'
  BY DEF TableTypes, TableTypeOK
<1>2. (\A v \in Threads : pc[v] = "idle") /\ pc'[u] = "malloc"
  BY DEF TakeTurns, TableTypes, TableTypeOK
<1>3. Turns'
  BY <1>2 DEF Turns, TableTypes, TableTypeOK
<1>4. Locals' /\ StoredEntriesRight' /\ Progress' /\ Complete'
  BY <1>2 DEF Locals, StoredEntriesRight, Progress, Complete, TableTypes, TableTypeOK
<1>5. QED
  BY <1>1, <1>3, <1>4

\* A failed malloc: nothing was allocated, nothing is.
LEMMA MallocFailsKeeps ==
  ASSUME TableInv, NEW u \in Threads, MallocFails(u)
  PROVE  TableInv'
<1> USE DEF TableInv, MallocFails
<1>1. TableTypes'
  BY DEF TableTypes, TableTypeOK
<1>2. storage = NULL /\ live = {} /\ \A v \in Threads : pc'[v] = "idle"
  <2>1. storage = NULL /\ live \subseteq {storage} /\ live \subseteq Blocks
    BY DEF Turns, TableTypes, TableTypeOK
  <2>2. NULL \notin Blocks
    BY DEF NULL, Blocks
  <2>3. \A v \in Threads : v # u => pc[v] = "idle"
    BY DEF Turns
  <2>4. QED
    BY <2>1, <2>2, <2>3 DEF TableTypes, TableTypeOK
<1>3. Turns'
  BY <1>2 DEF Turns, TableTypes, TableTypeOK
<1>4. Locals' /\ StoredEntriesRight' /\ Progress' /\ Complete'
  BY <1>2 DEF Locals, StoredEntriesRight, Progress, Complete
<1>5. QED
  BY <1>1, <1>3, <1>4

\* A malloc: the only block.
LEMMA MallocKeeps ==
  ASSUME TableInv, NEW u \in Threads, Malloc(u)
  PROVE  TableInv'
<1> USE DEF TableInv, Malloc
<1>1. storage' \in Blocks /\ mallocs' \in 0..MaxBlocks /\ NULL \notin Blocks
  BY SizesAssumption DEF TableTypes, TableTypeOK, Blocks, NULL
<1>2. offset' \in [Blocks -> 1..64]
  <2>1. PICK o \in Offsets : offset' = [offset EXCEPT ![mallocs'] = o]
    OBVIOUS
  <2>2. o \in 1..64
    BY <2>1, SizesAssumption
  <2>3. QED
    BY <2>1, <2>2 DEF TableTypes, TableTypeOK
<1>3. TableTypes'
  BY <1>1, <1>2 DEF TableTypes, TableTypeOK
<1>4. live = {} /\ pc'[u] = "align" /\ \A v \in Threads : v # u => pc'[v] = "idle"
  <2>1. live \subseteq {NULL} /\ live \subseteq Blocks
    BY DEF Turns, TableTypes, TableTypeOK
  <2>2. \A v \in Threads : v # u => pc[v] = "idle"
    BY DEF Turns
  <2>3. QED
    BY <1>1, <2>1, <2>2 DEF TableTypes, TableTypeOK
<1>5. live' = {storage'}
  BY <1>4
<1>6. \A v \in Threads : ret'[v] # "OK"
  BY DEF Turns
<1>7. Turns'
  BY <1>1, <1>4, <1>5, <1>6 DEF Turns
<1>8. Locals' /\ StoredEntriesRight' /\ Progress' /\ Complete'
  BY <1>4 DEF Locals, StoredEntriesRight, Progress, Complete
<1>9. QED
  BY <1>3, <1>7, <1>8

\* The aligned pointer, and the loop's beginning with G.
LEMMA AlignPointerKeeps ==
  ASSUME TableInv, NEW u \in Threads, AlignPointer(u)
  PROVE  TableInv'
<1> USE DEF TableInv, AlignPointer
<1>1. G \in Points /\ Windows \in Nat /\ Multiples = 64 /\ 1 \in K /\ TableEntry(0, 1) = G
  <2>1. N \in Nat /\ N > 2 /\ TwoTo[0] = 1
    BY Order, Powers
  <2>2. 1 % N = 1
    BY <2>1
  <2>3. QED
    BY <2>1, <2>2, Sizes, PointsClosed DEF K, TableEntry, G
<1>2. TableTypes'
  BY <1>1 DEF TableTypes, TableTypeOK
<1>3. \A v \in Threads : v # u => pc[v] = "idle" /\ pc'[v] = "idle"
  BY DEF Turns, TableTypes, TableTypeOK
<1>4. /\ pc'[u] = "fill" /\ k'[u] = 1 /\ j'[u] = 0 /\ T'[u] = 1 /\ P'[u] = TableEntry(0, 1)
      /\ storage \in live /\ storage' = storage /\ live' = live /\ precomp' = storage
  BY <1>1 DEF Turns, TableTypes, TableTypeOK, G
<1>5. \A v \in Threads : ret'[v] # "OK"
  BY DEF Turns
<1>6. Turns'
  BY <1>3, <1>4, <1>5 DEF Turns
<1>7. Locals'
  BY <1>1, <1>3, <1>4 DEF Locals
<1>8. StoredEntriesRight' /\ Complete'
  BY <1>4 DEF StoredEntriesRight, Complete
<1>9. Progress'
  BY <1>3, <1>4 DEF Progress, W, K
<1>10. QED
  BY <1>2, <1>6, <1>7, <1>8, <1>9

\* The body of the inner loop: the point is finite, the entry right, and the
\* next row's point is seven doublings on.
LEMMA StoreEntryKeeps ==
  ASSUME TableInv, NEW u \in Threads, StoreEntry(u)
  PROVE  TableInv'
<1> USE DEF TableInv, StoreEntry
<1>1. /\ pc[u] = "fill" /\ j[u] \in W /\ k[u] \in K /\ P[u] = TableEntry(j[u], k[u])
      /\ precomp \in Blocks /\ precomp = storage /\ storage \in live
      /\ \A v \in Threads : v # u => pc[v] = "idle"
  BY DEF Locals, Turns, TableTypes, TableTypeOK
<1>2. j[u] \in Nat /\ k[u] \in Nat /\ k[u] > 0 /\ k[u] < N /\ Windows \in Nat /\ Multiples = 64
  BY <1>1, Sizes, Order DEF W, K
<1>3. P[u] # Infinity /\ P[u] \in Points /\ Dbl7(P[u]) = TableEntry(j[u] + 1, k[u])
  BY <1>1, <1>2, EntryFinite, NextRow
<1>4. Dbl7(P[u]) \in Points
  <2>1. j[u] + 1 \in Nat
    BY <1>2
  <2>2. TableEntry(j[u] + 1, k[u]) \in Points
    BY <1>2, <2>1, NextRow
  <2>3. QED
    BY <1>3, <2>2
<1>5. block' = [block EXCEPT ![precomp][j[u]][k[u]] = P[u]]
  BY <1>3
<1>6. block \in [Blocks -> [W -> [K -> Points \cup {Garbage}]]]
  BY DEF TableTypes
<1>7. \A b \in Blocks, w \in W, x \in K :
        block'[b][w][x] = IF b = precomp /\ w = j[u] /\ x = k[u] THEN P[u] ELSE block[b][w][x]
  BY <1>1, <1>5, <1>6
<1>8. block' \in [Blocks -> [W -> [K -> Points \cup {Garbage}]]]
  BY <1>1, <1>3, <1>5, <1>6
<1>9. /\ P' \in [Threads -> Points] /\ j' \in [Threads -> 0..Windows]
      /\ P'[u] = TableEntry(j[u] + 1, k[u]) /\ j'[u] = j[u] + 1
  BY <1>1, <1>2, <1>3, <1>4 DEF TableTypes, TableTypeOK, W
<1>10. TableTypes'
  BY <1>8, <1>9 DEF TableTypes, TableTypeOK
<1>11. StoredEntriesRight'
  <2>1. P[u] = FullTable[j[u]][k[u]]
    BY <1>1, <1>2, <1>3 DEF FullTable
  <2>2. QED
    BY <1>1, <1>7, <2>1 DEF StoredEntriesRight
<1>12. Turns' /\ Complete'
  BY <1>1 DEF Turns, Complete
<1>13. Locals'
  <2>1. k'[u] = k[u] /\ T'[u] = T[u] /\ T[u] = k[u]
    BY <1>1 DEF Locals
  <2>2. \A v \in Threads : v # u => pc'[v] = "idle"
    BY <1>1
  <2>3. QED
    BY <1>1, <1>9, <2>1, <2>2 DEF Locals
<1>14. Progress'
  <2> SUFFICES ASSUME NEW v \in Threads, pc'[v] = "fill", NEW w \in W, NEW x \in K,
                      x < k'[v] \/ (x = k'[v] /\ w < j'[v])
               PROVE  block'[precomp'][w][x] = TableEntry(w, x)
    BY DEF Progress
  <2>1. v = u /\ precomp' = precomp /\ k'[v] = k[u] /\ j'[v] = j[u] + 1
    BY <1>1, <1>9
  <2>2. w \in Nat /\ x \in Nat
    BY DEF W, K
  <2>3. CASE w = j[u] /\ x = k[u]
    BY <1>1, <1>7, <2>1, <2>3
  <2>4. CASE ~ (w = j[u] /\ x = k[u])
    <3>1. x < k[u] \/ (x = k[u] /\ w < j[u])
      BY <1>2, <2>1, <2>2, <2>4
    <3>2. block[precomp][w][x] = TableEntry(w, x)
      BY <1>1, <3>1 DEF Progress
    <3>3. QED
      BY <1>1, <1>7, <2>1, <2>4, <3>2
  <2>5. QED
    BY <2>3, <2>4
<1>15. QED
  BY <1>10, <1>11, <1>12, <1>13, <1>14

\* The next place of the rows: G is added to the last one's point.
LEMMA NextMultipleKeeps ==
  ASSUME TableInv, NEW u \in Threads, NextMultiple(u)
  PROVE  TableInv'
<1> USE DEF TableInv, NextMultiple, globals
<1>1. /\ pc[u] = "fill" /\ j[u] = Windows /\ k[u] \in K /\ k[u] < Multiples /\ T[u] = k[u]
      /\ \A v \in Threads : v # u => pc[v] = "idle"
  BY DEF Locals, Turns
<1>2. /\ k[u] \in Nat /\ k[u] + 1 \in K /\ k[u] + 1 \in Nat /\ k[u] + 1 < N
      /\ N \in Nat /\ Windows \in Nat /\ Multiples = 64
  BY <1>1, Sizes, Order DEF K
<1>3. PointAdd(T[u], G) = k[u] + 1 /\ TableEntry(0, k[u] + 1) = k[u] + 1
  <2>1. TwoTo[0] = 1
    BY Powers
  <2>2. (k[u] + 1) % N = k[u] + 1
    <3> DEFINE x == k[u] + 1
    <3>1. x \in Nat /\ x < N /\ N \in Nat
      BY <1>2
    <3> HIDE DEF x
    <3>2. x % N = x
      BY <3>1
    <3>3. QED
      BY <3>2 DEF x
  <2>3. (k[u] + 1) * 1 = k[u] + 1
    BY <1>2
  <2>4. QED
    BY <1>1, <2>1, <2>2, <2>3 DEF PointAdd, G, TableEntry
<1>4. k[u] + 1 \in Points
  BY <1>2 DEF Points
<1>5. /\ T'[u] = k[u] + 1 /\ P'[u] = TableEntry(0, k[u] + 1) /\ k'[u] = k[u] + 1 /\ j'[u] = 0
      /\ T' \in [Threads -> Points] /\ P' \in [Threads -> Points]
      /\ k' \in [Threads -> 0..Multiples] /\ j' \in [Threads -> 0..Windows]
  BY <1>2, <1>3, <1>4 DEF TableTypes, TableTypeOK, K
<1>6. TableTypes'
  BY <1>5 DEF TableTypes, TableTypeOK
<1>7. StoredEntriesRight' /\ Turns' /\ Complete'
  BY DEF StoredEntriesRight, Turns, Complete
<1>8. Locals'
  BY <1>1, <1>2, <1>5 DEF Locals
<1>9. Progress'
  <2> SUFFICES ASSUME NEW v \in Threads, pc'[v] = "fill", NEW w \in W, NEW x \in K,
                      x < k'[v] \/ (x = k'[v] /\ w < j'[v])
               PROVE  block'[precomp'][w][x] = TableEntry(w, x)
    BY DEF Progress
  <2>1. v = u /\ w \in Nat /\ x \in Nat /\ w < Windows
    BY <1>1, <1>2 DEF W, K
  <2>2. x < k[u] \/ (x = k[u] /\ w < j[u])
    BY <1>1, <1>2, <1>5, <2>1
  <2>3. QED
    BY <1>1, <2>2 DEF Progress
<1>10. QED
  BY <1>6, <1>7, <1>8, <1>9

\* The return: every entry is stored.
LEMMA GenReturnsKeeps ==
  ASSUME TableInv, NEW u \in Threads, GenReturns(u)
  PROVE  TableInv'
<1> USE DEF TableInv, GenReturns, globals
<1>1. /\ pc[u] = "fill" /\ j[u] = Windows /\ k[u] = Multiples /\ Multiples = 64 /\ Windows \in Nat
      /\ precomp = storage /\ storage \in live /\ storage \in Blocks
      /\ \A v \in Threads : v # u => pc[v] = "idle"
  BY Sizes DEF Turns, TableTypes, TableTypeOK
<1>2. \A v \in Threads : pc'[v] = "idle"
  BY <1>1 DEF TableTypes, TableTypeOK
<1>3. TableTypes'
  BY DEF TableTypes, TableTypeOK
<1>4. StoredEntriesRight' /\ Locals' /\ Progress'
  BY <1>2 DEF StoredEntriesRight, Locals, Progress
<1>5. NULL \notin Blocks
  BY DEF NULL, Blocks
<1>6. Turns'
  BY <1>1, <1>2, <1>5 DEF Turns
<1>7. block[precomp] = FullTable
  <2>1. \A w \in W, x \in K : block[precomp][w][x] = TableEntry(w, x)
    <3> TAKE w \in W, x \in K
    <3>1. x < k[u] \/ (x = k[u] /\ w < j[u])
      BY <1>1 DEF W, K
    <3>2. QED
      BY <1>1, <3>1 DEF Progress
  <2>2. block[precomp] \in [W -> [K -> Points \cup {Garbage}]]
    BY <1>1 DEF TableTypes
  <2>3. \A w \in W : block[precomp][w] = [x \in K |-> TableEntry(w, x)]
    BY <2>1, <2>2
  <2>4. QED
    BY <2>2, <2>3 DEF FullTable
<1>8. Complete'
  BY <1>1, <1>7 DEF Complete
<1>9. QED
  BY <1>3, <1>4, <1>6, <1>8

\* table_free: the one block is gone, the pointers stay.
LEMMA TableFreeKeeps ==
  ASSUME TableInv, TakeTurns, NEW u \in Threads, TableFree(u)
  PROVE  TableInv'
<1> USE DEF TableInv, TableFree
<1>1. (\A v \in Threads : pc[v] = "idle") /\ live' = {} /\ pc' = pc
  BY DEF TakeTurns, Turns
<1>2. TableTypes'
  BY <1>1 DEF TableTypes, TableTypeOK
<1>3. Turns'
  BY <1>1 DEF Turns, TableTypes, TableTypeOK
<1>4. StoredEntriesRight' /\ Locals' /\ Progress' /\ Complete'
  BY <1>1 DEF StoredEntriesRight, Locals, Progress, Complete
<1>5. QED
  BY <1>2, <1>3, <1>4

\* Every step of every caller.
LEMMA TableNextKeeps ==
  ASSUME TableInv, TableNext, TakeTurns
  PROVE  TableInv'
<1>1. PICK u \in Threads :
        \/ GenReturnsAtOnce(u) \/ GenStarts(u) \/ MallocFails(u) \/ Malloc(u) \/ AlignPointer(u)
        \/ StoreEntry(u) \/ NextMultiple(u) \/ GenReturns(u) \/ TableFree(u)
  BY DEF TableNext
<1>2. QED
  BY <1>1, GenReturnsAtOnceKeeps, GenStartsKeeps, MallocFailsKeeps, MallocKeeps, AlignPointerKeeps,
     StoreEntryKeeps, NextMultipleKeeps, GenReturnsKeeps, TableFreeKeeps

----------------------------------------------------------------------------
(***************************************************************************)
(* The multiplication, and the invariant of the whole.                     *)
(***************************************************************************)
MulTypes ==
  /\ s \in 0..TwoTo[Bits] - 1
  /\ p \in Points /\ t \in Points
  /\ i \in 0..Windows /\ idx = 7 * (i + (IF at = "add" THEN 1 ELSE 0))
  /\ at \in {"idle", "first", "gather", "add"}

\* While a multiplication runs its table stays.
Reading == at # "idle" => block[precomp] = FullTable

\* The accumulator has what is below the bit position, and a gathered point is
\* the next window's.
Accumulated ==
  /\ at = "gather" => i \in 1..Windows /\ p = Lower(s, 7 * i) % N
  /\ at = "add" => /\ i \in 1..Windows - 1
                   /\ p = Lower(s, 7 * i) % N /\ t = Addend(s, i) % N

IInv == TableInv /\ MulTypes /\ Reading /\ Accumulated

\* The numbers in it.
LEMMA Numbers ==
  ASSUME MulTypes
  PROVE  /\ s \in Nat /\ s < TwoTo[Bits]
         /\ \A x \in 1..Windows :
              /\ 7 * x \in Nat /\ 7 * x >= 1
              /\ Lower(s, 7 * x) \in Int /\ Bits8(s, x) \in 0..255
              /\ Lower(s, 7 * x) + Addend(s, x) = Lower(s, 7 * (x + 1))
              /\ Addend(s, x) \in Int
<1>1. s \in Nat /\ s < TwoTo[Bits] /\ Windows \in Nat
  BY Sizes DEF MulTypes
<1>2. ASSUME NEW x \in 1..Windows
      PROVE  /\ 7 * x \in Nat /\ 7 * x >= 1
             /\ Lower(s, 7 * x) \in Int /\ Bits8(s, x) \in 0..255
             /\ Lower(s, 7 * x) + Addend(s, x) = Lower(s, 7 * (x + 1))
             /\ Addend(s, x) \in Int
  <2>1. 7 * x \in Nat /\ 7 * x >= 1 /\ 7 * (x + 1) = 7 * x + 7
    BY <1>1, <1>2
  <2>2. /\ Lower(s, 7 * x) \in Int /\ Bits8(s, x) \in 0..255
        /\ Lower(s, 7 * x) + Addend(s, x) = Lower(s, 7 * (x + 1))
    BY <1>1, <2>1, LowerStep DEF Bits8, Addend
  <2>3. Digit(Bits8(s, x)) \in Int /\ TwoTo[7 * x] \in Nat
    BY <2>1, <2>2, DigitRange, Powers
  <2>4. Addend(s, x) \in Int
    BY <2>3 DEF Addend
  <2>5. QED
    BY <2>1, <2>2, <2>4
<1>3. QED
  BY <1>1, <1>2

\* Nothing has been called.
LEMMA InitHolds == Init => IInv
<1> SUFFICES ASSUME Init PROVE IInv
  OBVIOUS
<1>1. TableInv
  BY TableInitHolds DEF Init
<1>2. MulTypes
  <2>1. 0 \in 0..TwoTo[Bits] - 1 /\ 0 \in 0..Windows
    BY Sizes, Order
  <2>2. QED
    BY <2>1, PointsClosed DEF Init, MulTypes
<1>3. Reading /\ Accumulated
  BY DEF Init, Reading, Accumulated
<1>4. QED
  BY <1>1, <1>2, <1>3 DEF IInv

\* A step that leaves the table alone.
LEMMA TableUnchanged ==
  ASSUME TableInv, UNCHANGED tableVars
  PROVE  TableInv' /\ (block[precomp] = FullTable => (block[precomp] = FullTable)')
BY DEF tableVars, TableInv, TableTypes, TableTypeOK, Locals, StoredEntriesRight, Turns, Progress,
       Complete, FullTable

\* The call of a multiplication finds the complete table.
LEMMA CallKeeps ==
  ASSUME IInv, Call
  PROVE  IInv'
<1> USE DEF IInv, Call
<1>1. TableInv'
  BY TableUnchanged
<1>2. block[precomp] = FullTable
  <2>1. PICK u \in Threads : pc[u] = "idle" /\ ret[u] = "OK"
    OBVIOUS
  <2>2. \A v \in Threads : pc[v] = "idle"
    BY <2>1 DEF TableInv, Turns
  <2>3. QED
    BY <2>2 DEF TableInv, Complete
<1>3. MulTypes'
  <2>1. s' \in 0..TwoTo[Bits] - 1
    BY ScalarsAssumption
  <2>2. QED
    BY <2>1 DEF MulTypes
<1>4. Reading' /\ Accumulated'
  BY <1>2, TableUnchanged DEF Reading, Accumulated
<1>5. QED
  BY <1>1, <1>3, <1>4

\* The first window's entry is the first digit.
LEMMA FirstWindowKeeps ==
  ASSUME IInv, FirstWindow
  PROVE  IInv'
<1> USE DEF IInv, FirstWindow
<1>1. TableInv' /\ block[precomp] = FullTable
  BY TableUnchanged DEF Reading
<1>2. s \in Nat /\ Windows \in Nat /\ Windows >= 2
  BY Numbers, Sizes
<1>3. TwoTo[7 * 0] = 1 /\ 0 \in W
  BY <1>2, Powers DEF W
<1>4. Byte(0) = s % 256
  <2>1. TwoTo[8 * 0] = 1 /\ s \div 1 = s
    BY <1>2, Powers
  <2>2. QED
    BY <2>1 DEF Byte
<1>5. (2 * Byte(0)) % 256 = (2 * s) % 256 /\ (2 * s) % 256 \in 0..255
  BY <1>2, <1>4, HornerFirst
<1>6. p' = (Digit((2 * s) % 256) * 1) % N /\ Digit((2 * s) % 256) \in Int
  <2> DEFINE w == (2 * s) % 256
  <2>1. p' = Gather(0, BoothW7(w))
    BY <1>5
  <2>2. w \in 0..255
    BY <1>5
  <2> HIDE DEF w
  <2>3. Gather(0, BoothW7(w)) = (Digit(w) * TwoTo[7 * 0]) % N
    BY <1>1, <1>3, <2>2, GatherRight
  <2>4. Digit(w) \in Int
    BY <2>2, DigitRange
  <2>5. QED
    BY <1>3, <2>1, <2>3, <2>4 DEF w
<1>7. p' = Lower(s, 7) % N /\ Lower(s, 7) \in Int
  BY <1>2, <1>6, LowerFirst
<1>8. p' \in Points
  BY <1>7, PointsClosed
<1>9. MulTypes'
  BY <1>2, <1>8 DEF MulTypes
<1>10. Accumulated'
  BY <1>2, <1>7 DEF Accumulated
<1>11. Reading'
  BY <1>1, TableUnchanged DEF Reading
<1>12. QED
  BY <1>1, <1>9, <1>10, <1>11

\* A window is cut out, recoded and looked up.
LEMMA GatherNextKeeps ==
  ASSUME IInv, GatherNext
  PROVE  IInv'
<1> USE DEF IInv, GatherNext
<1>1. TableInv' /\ block[precomp] = FullTable
  BY TableUnchanged DEF Reading
<1>2. /\ s \in Nat /\ Windows \in Nat /\ i \in W /\ idx = 7 * i
      /\ i \in 1..Windows - 1 /\ i \in 1..Windows
  BY Numbers, Sizes DEF MulTypes, Accumulated, W
<1>3. Bits8(s, i) \in 0..255 /\ 7 * i \in Nat /\ 7 * i >= 1 /\ Addend(s, i) \in Int
  BY <1>2, Numbers
<1>4. Window(idx) = Bits8(s, i)
  BY <1>2, <1>3, WindowIsShift DEF Bits8
<1>5. t' = Addend(s, i) % N
  BY <1>1, <1>2, <1>3, <1>4, GatherRight DEF Addend
<1>6. t' \in Points
  BY <1>3, <1>5, PointsClosed
<1>7. MulTypes'
  BY <1>2, <1>6 DEF MulTypes
<1>8. Accumulated'
  BY <1>2, <1>5 DEF Accumulated
<1>9. Reading'
  BY <1>1, TableUnchanged DEF Reading
<1>10. QED
  BY <1>1, <1>7, <1>8, <1>9

\* The accumulator and a gathered point are different or infinite.
LEMMA Different ==
  ASSUME IInv, at = "add"
  PROVE  p # t \/ p = Infinity
<1>1. s \in Nat /\ s < TwoTo[Bits] /\ i \in 1..Windows - 1
  BY Numbers DEF IInv, Accumulated
<1>2. p = Lower(s, 7 * i) % N /\ t = Addend(s, i) % N
  BY DEF IInv, Accumulated
<1>3. QED
  BY <1>1, <1>2, Apart

\* An addition adds.
LEMMA AddNextKeeps ==
  ASSUME IInv, AddNext
  PROVE  IInv'
<1> USE DEF IInv, AddNext
<1>1. TableInv' /\ block[precomp] = FullTable
  BY TableUnchanged DEF Reading
<1>2. /\ s \in Nat /\ Windows \in Nat /\ idx = 7 * (i + 1)
      /\ i \in 1..Windows - 1 /\ i \in 1..Windows
      /\ p = Lower(s, 7 * i) % N /\ t = Addend(s, i) % N
  BY Numbers, Sizes DEF MulTypes, Accumulated
<1>3. /\ Lower(s, 7 * i) \in Int /\ Addend(s, i) \in Int
      /\ Lower(s, 7 * i) + Addend(s, i) = Lower(s, 7 * (i + 1))
  BY <1>2, Numbers
<1>4. p # t \/ p = Infinity
  BY Different
<1>5. p' = Lower(s, 7 * (i + 1)) % N
  BY <1>2, <1>3, <1>4, AddRight
<1>6. i + 1 \in 1..Windows
  BY <1>2
<1>7. p' \in Points
  <2>1. Lower(s, 7 * (i + 1)) \in Int
    BY <1>3
  <2>2. QED
    BY <1>5, <2>1, PointsClosed
<1>8. MulTypes'
  BY <1>2, <1>6, <1>7 DEF MulTypes
<1>9. Accumulated'
  BY <1>2, <1>5, <1>6 DEF Accumulated
<1>10. Reading'
  BY <1>1, TableUnchanged DEF Reading
<1>11. QED
  BY <1>1, <1>8, <1>9, <1>10

\* The locals go out of scope.
LEMMA ReturnKeeps ==
  ASSUME IInv, Return
  PROVE  IInv'
<1> USE DEF IInv, Return
<1>1. TableInv'
  BY TableUnchanged
<1>2. MulTypes'
  <2>1. 0 \in 0..TwoTo[Bits] - 1
    BY Sizes, Order
  <2>2. QED
    BY <2>1, Sizes, PointsClosed DEF MulTypes
<1>3. Reading' /\ Accumulated'
  BY DEF Reading, Accumulated
<1>4. QED
  BY <1>1, <1>2, <1>3

\* Every step.
LEMMA NextKeeps == IInv /\ [Next /\ TakeTurns]_vars => IInv'
<1> SUFFICES ASSUME IInv, [Next /\ TakeTurns]_vars PROVE IInv'
  OBVIOUS
<1>1. CASE TableStep /\ TakeTurns
  <2>1. TableInv'
    BY <1>1, TableNextKeeps DEF TableStep, IInv
  <2>2. MulTypes' /\ Reading' /\ Accumulated'
    BY <1>1 DEF TableStep, IInv, MulTypes, Reading, Accumulated, mulVars
  <2>3. QED
    BY <2>1, <2>2 DEF IInv
<1>2. CASE UNCHANGED vars
  <2>1. TableInv' /\ (Reading => Reading')
    BY <1>2, TableUnchanged DEF IInv, vars, mulVars, Reading
  <2>2. MulTypes' /\ Accumulated'
    BY <1>2 DEF IInv, MulTypes, Accumulated, vars, mulVars
  <2>3. QED
    BY <2>1, <2>2 DEF IInv
<1>3. QED
  BY <1>1, <1>2, CallKeeps, FirstWindowKeeps, GatherNextKeeps, AddNextKeeps, ReturnKeeps DEF Next

\* The invariant holds throughout.
LEMMA Invariance == Spec => []IInv
BY InitHolds, NextKeeps, PTL DEF Spec

----------------------------------------------------------------------------
\* For any order, width and number of callers that take turns, an entry, once
\* stored, is the multiple that scalar_mul_gen takes it for
\* (secp256k1.c:368-382).
THEOREM StoredEntriesRightHolds == Spec => []StoredEntriesRight
<1>1. IInv => StoredEntriesRight
  BY DEF IInv, TableInv
<1>2. QED
  BY <1>1, Invariance, PTL

\* Every store lies in the block that is allocated at that time, for any
\* alignment of it, and no block is lost (secp256k1.c:352-373).
THEOREM StoresInLiveBlockHolds == Spec => []StoresInLiveBlock
<1>1. ASSUME IInv PROVE StoresInLiveBlock
  <2> SUFFICES ASSUME NEW u \in Threads, pc[u] = "fill", j[u] \in W
               PROVE  offset[precomp] + (j[u] * Multiples + k[u]) * EntrySize <= BlockSize
    BY <1>1 DEF IInv, TableInv, Turns, StoresInLiveBlock
  <2>1. /\ precomp \in Blocks /\ k[u] \in K /\ Windows \in Nat /\ Multiples = 64
        /\ offset[precomp] \in 1..64
    BY <1>1, Sizes DEF IInv, TableInv, Turns, Locals, TableTypes, TableTypeOK
  <2> DEFINE o == offset[precomp]
             x == j[u]
             y == k[u]
  <2>2. o \in 1..64 /\ x \in 0..Windows - 1 /\ y \in 1..64 /\ Windows \in Nat
    BY <2>1 DEF W, K
  <2> HIDE DEF o, x, y
  <2>3. o + (x * 64 + y) * 64 <= Windows * 64 * 64 + 64
    BY <2>2
  <2>4. QED
    BY <2>1, <2>3 DEF o, x, y, EntrySize, BlockSize
<1>2. QED
  BY <1>1, Invariance, PTL

\* OK is returned over a complete table, or after a table_free
\* (secp256k1.c:352-386, 666-669).
THEOREM ReadyUnlessFreedHolds == Spec => []ReadyUnlessFreed
<1>1. IInv => ReadyUnlessFreed
  BY DEF IInv, TableInv, Turns, Complete, ReadyUnlessFreed, TableReady
<1>2. QED
  BY <1>1, Invariance, PTL

\* After every window the accumulator is the part of the scalar below the bit
\* position, less what is carried on (secp256k1.c:452-469).
THEOREM PartialSumHolds == Spec => []PartialSum
<1>1. ASSUME IInv PROVE PartialSum
  <2>1. TypeOK
    BY <1>1 DEF IInv, TableInv, TableTypes, MulTypes, TypeOK
  <2> SUFFICES ASSUME at = "gather"
               PROVE  LET low   == s % TwoTo[idx]
                          carry == idx <= Bits /\ low >= TwoTo[idx - 1]
                      IN  p = (IF carry THEN low - TwoTo[idx] ELSE low) % N
    BY <2>1 DEF PartialSum
  <2>2. /\ idx = 7 * i /\ i \in 1..Windows /\ p = Lower(s, idx) % N
        /\ s \in Nat /\ s < TwoTo[Bits] /\ idx \in Nat /\ idx >= 1
    BY <1>1, Numbers DEF IInv, MulTypes, Accumulated
  <2>3. Lower(s, idx) = IF s % TwoTo[idx] >= TwoTo[idx - 1]
                        THEN (s % TwoTo[idx]) - TwoTo[idx] ELSE s % TwoTo[idx]
    BY <2>2, LowerIs
  <2>4. idx <= Bits \/ s % TwoTo[idx] < TwoTo[idx - 1]
    <3>1. Bits \in Nat
      BY Sizes
    <3>2. Bits < idx => s % TwoTo[idx] < TwoTo[idx - 1]
      BY <2>2, <3>1, LowerAll
    <3>3. QED
      BY <2>2, <3>1, <3>2
  <2>5. s % TwoTo[idx] \in Int /\ TwoTo[idx - 1] \in Int
    <3>1. TwoTo[idx] \in Nat /\ TwoTo[idx] > 0 /\ TwoTo[idx - 1] \in Nat
      BY <2>2, Powers
    <3>2. QED
      BY <2>2, <3>1, DivMod
  <2>6. QED
    BY <2>2, <2>3, <2>4, <2>5
<1>2. QED
  BY <1>1, Invariance, PTL

\* The incomplete addition never meets equal finite points, for any order
\* close enough below the power of two (secp256k1.c:468).
THEOREM NeverEqualOperandsHolds == Spec => []NeverEqualOperands
<1>1. IInv => NeverEqualOperands
  BY Different DEF NeverEqualOperands
<1>2. QED
  BY <1>1, Invariance, PTL

\* secp256k1.h:117: "r = scalar * generator", for every width, order and
\* scalar, the scalars beyond the order included.
THEOREM ResultIsScalarTimesGHolds == Spec => []ResultIsScalarTimesG
<1>1. ASSUME IInv PROVE ResultIsScalarTimesG
  <2> SUFFICES ASSUME at = "gather", i = Windows PROVE p = s % N
    BY DEF ResultIsScalarTimesG
  <2>1. p = Lower(s, 7 * Windows) % N /\ s \in Nat /\ s < TwoTo[Bits]
    BY <1>1, Numbers DEF IInv, Accumulated
  <2>2. 7 * Windows \in Nat /\ Bits \in Nat /\ Bits < 7 * Windows
    BY Sizes
  <2>3. Lower(s, 7 * Windows) = s
    BY <2>1, <2>2, LowerAll
  <2>4. QED
    BY <2>1, <2>3
<1>2. QED
  BY <1>1, Invariance, PTL
=============================================================================
