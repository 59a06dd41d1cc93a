--------------------------- MODULE MontgomeryProof ---------------------------
(***************************************************************************)
(* Proofs about Montgomery, for limbs of any size and any modulus of the   *)
(* shape B^4 - C with 1 < C < B: no carry is lost, every result is reduced *)
(* and it is right for exactly the operands in whose reduction no borrow   *)
(* is misplaced.                                                           *)
(***************************************************************************)
EXTENDS Montgomery, TLAPS

----------------------------------------------------------------------------
(***************************************************************************)
(* Quotients and remainders.                                               *)
(***************************************************************************)
\* What \div and % are.
LEMMA DivMod ==
  ASSUME NEW x \in Int, NEW m \in Nat, m > 0
  PROVE  /\ x \div m \in Int
         /\ x % m \in 0..m - 1
         /\ x = (m * (x \div m)) + (x % m)
OBVIOUS

\* A multiple of m that is less than m away from 0 is 0.
LEMMA SmallMultiple ==
  ASSUME NEW q \in Int, NEW m \in Nat, m > 0, NEW d \in Int, d = m * q, d < m, -m < d
  PROVE  q = 0
OBVIOUS

\* Quotient and remainder are unique.
LEMMA DivModUnique ==
  ASSUME NEW x \in Int, NEW m \in Nat, m > 0, NEW q \in Int, NEW r \in 0..m - 1, x = (m * q) + r
  PROVE  x \div m = q /\ x % m = r
<1>1. /\ x \div m \in Int
      /\ x % m \in 0..m - 1
      /\ x = (m * (x \div m)) + (x % m)
  BY DivMod
<1> DEFINE k == x \div m
           s == x % m
<1> HIDE DEF k, s
<1>2. m * (k - q) = r - s /\ k - q \in Int
  BY <1>1 DEF k, s
<1>3. k - q = 0
  BY <1>1, <1>2, SmallMultiple DEF k, s
<1>4. k = q /\ r = s
  BY <1>1, <1>2, <1>3 DEF k, s
<1>5. QED
  BY <1>4 DEF k, s

\* A number below the divisor is its own remainder.
LEMMA ModSmall ==
  ASSUME NEW x \in Nat, NEW m \in Nat, x < m
  PROVE  x % m = x
OBVIOUS

\* Two digits, one of which is a remainder of the other's quotient.
LEMMA DigitAbove ==
  ASSUME NEW x \in Nat, NEW m \in Nat, m > 0, NEW n \in Nat, n > 0
  PROVE  x % (m * n) = (x % m) + (m * ((x \div m) % n))
<1> DEFINE q == x \div m
           r == x % m
           k == q \div n
           d == q % n
<1>1. q \in Int /\ r \in 0..m - 1 /\ x = (m * q) + r
  BY DivMod
<1>2. k \in Int /\ d \in 0..n - 1 /\ q = (n * k) + d
  BY <1>1, DivMod
<1> HIDE DEF q, r, k, d
<1>3. x = ((m * n) * k) + (r + (m * d))
  <2>1. m * q = ((m * n) * k) + (m * d)
    BY <1>2
  <2>2. QED
    BY <1>1, <1>2, <2>1
<1>4. m * n \in Nat /\ m * n > 0 /\ r + (m * d) \in 0..(m * n) - 1
  <2>1. m * d \in Nat /\ m * d <= (m * n) - m
    <3>1. m * (n - 1 - d) \in Nat /\ m * (n - 1 - d) = (m * n) - m - (m * d)
      BY <1>2
    <3>2. m * d \in Nat
      BY <1>2
    <3>3. QED
      BY <3>1, <3>2, <1>2
  <2>2. m * n \in Nat /\ m * n > 0
    OBVIOUS
  <2>3. QED
    BY <1>1, <2>1, <2>2
<1> DEFINE u == m * n
           w == r + (m * d)
<1>5. u \in Nat /\ u > 0 /\ w \in 0..u - 1 /\ x = (u * k) + w
  BY <1>3, <1>4
<1> HIDE DEF u, w
<1>6. x % u = w
  BY <1>2, <1>5, DivModUnique
<1>7. QED
  BY <1>6 DEF u, w, r, d, q

----------------------------------------------------------------------------
(***************************************************************************)
(* Multiples of P.                                                         *)
(***************************************************************************)
Multiple(x) == \E k \in Int : x = P * k

\* The constants' ranges.
LEMMA Constants ==
  /\ B \in Nat /\ C \in Nat /\ K \in Nat /\ 1 < C /\ C < B /\ 3 <= B
  /\ R \in Nat /\ P \in Nat /\ R > 0 /\ P > 0 /\ R = P + C
<1> USE LimbAssumption DEF P, R
<1>1. B \in Nat /\ C \in Nat /\ K \in Nat /\ 1 < C /\ C < B /\ 3 <= B
  OBVIOUS
<1>2. B * B \in Nat /\ B * B >= B
  BY <1>1
<1>3. B * B * B \in Nat /\ B * B * B >= B * B
  BY <1>1, <1>2
<1>4. B * B * B * B \in Nat /\ B * B * B * B >= B * B * B
  BY <1>1, <1>3
<1>5. QED
  BY <1>1, <1>2, <1>3, <1>4

\* The multiples of P are the numbers with remainder 0.
LEMMA MultipleMod ==
  ASSUME NEW x \in Int
  PROVE  x % P = 0 <=> Multiple(x)
<1>1. P \in Nat /\ P > 0
  BY Constants
<1>2. ASSUME x % P = 0 PROVE Multiple(x)
  <2>1. x \div P \in Int /\ x = (P * (x \div P)) + (x % P)
    BY <1>1, DivMod
  <2>2. x = P * (x \div P)
    BY <1>1, <1>2, <2>1
  <2>3. QED
    BY <2>1, <2>2 DEF Multiple
<1>3. ASSUME Multiple(x) PROVE x % P = 0
  <2>1. PICK k \in Int : x = P * k
    BY <1>3 DEF Multiple
  <2>2. x = (P * k) + 0 /\ 0 \in 0..P - 1
    BY <1>1, <2>1
  <2> HIDE DEF P
  <2>3. QED
    BY <1>1, <2>2, DivModUnique
<1>4. QED
  BY <1>2, <1>3

\* 0 is a multiple.
LEMMA MultipleZero == Multiple(0)
<1>1. P * 0 = 0
  BY Constants
<1>2. QED
  BY <1>1 DEF Multiple

\* Sums and differences are multiples again.
LEMMA MultipleSum ==
  ASSUME NEW x \in Int, NEW y \in Int, Multiple(x), Multiple(y)
  PROVE  Multiple(x + y) /\ Multiple(x - y)
<1>1. PICK k \in Int : x = P * k
  BY DEF Multiple
<1>2. PICK n \in Int : y = P * n
  BY DEF Multiple
<1>3. x + y = P * (k + n) /\ x - y = P * (k - n)
  <2> HIDE DEF P
  <2>1. QED
    BY <1>1, <1>2, Constants
<1>4. QED
  BY <1>3 DEF Multiple

\* So are products with any number.
LEMMA MultipleProduct ==
  ASSUME NEW x \in Int, NEW n \in Int, Multiple(x)
  PROVE  Multiple(x * n)
<1>1. PICK k \in Int : x = P * k
  BY DEF Multiple
<1>2. x * n = P * (k * n) /\ k * n \in Int
  BY <1>1, Constants
<1>3. QED
  BY <1>2 DEF Multiple

\* A number strictly between two consecutive multiples is none.
LEMMA BetweenMultiples ==
  ASSUME NEW x \in Int, NEW q \in Int, P * q < x, x < (P * q) + P
  PROVE  ~ Multiple(x)
<1>1. SUFFICES ASSUME NEW k \in Int, x = P * k PROVE FALSE
  BY DEF Multiple
<1>2. P * (k - q) = x - (P * q)
  BY <1>1, Constants
<1>3. k - q > 0 /\ k - q < 1
  BY <1>1, <1>2, Constants
<1>4. QED
  BY <1>3

\* B has an inverse modulo P.
LEMMA MultipleOfLimb ==
  ASSUME NEW x \in Int, Multiple(B * x)
  PROVE  Multiple(x)
<1>1. PICK j \in Int : K * C = (B * j) + 1
  BY LimbAssumption, DivMod
<1> DEFINE L == (K * (B * B * B)) - j
<1>2. L \in Int /\ L * B = (K * P) + 1
  BY <1>1, Constants DEF P, R
<1>3. x = ((B * x) * L) - (P * (K * x))
  <2>1. (B * x) * L = (L * B) * x
    BY <1>2, Constants
  <2>2. (L * B) * x = (P * (K * x)) + x
    BY <1>2, Constants
  <2>3. QED
    BY <2>1, <2>2, Constants
<1> HIDE DEF L
<1>4. Multiple((B * x) * L)
  <2>1. B * x \in Int /\ L \in Int
    BY <1>2, Constants
  <2>2. QED
    BY <2>1, MultipleProduct
<1>5. Multiple(P * (K * x))
  BY Constants DEF Multiple
<1>6. (B * x) * L \in Int /\ P * (K * x) \in Int
  BY <1>2, Constants
<1>7. QED
  BY <1>3, <1>4, <1>5, <1>6, MultipleSum

----------------------------------------------------------------------------
(***************************************************************************)
(* Misplaced borrows do not cancel.                                        *)
(***************************************************************************)
\* A misplaced borrow changes the number by B^2 - 1 times one of these, as the
\* register it goes to is not 0 or is.
Slips == {0, 1, 1 - B}

\* Powers of B and products with C as numbers of their own, with what is known
\* of their order.
LEMMA Monomials ==
  \E B2, B3, B4, BC \in Nat :
    /\ B2 = B * B /\ B3 = B * B * B /\ B4 = B * B * B * B /\ BC = B * C
    /\ R = B4 /\ P = B4 - C
    /\ B2 >= 3 * B /\ B3 >= 3 * B2 /\ B4 >= 3 * B3
    /\ BC <= B2 - B /\ BC >= 2 * B
<1>1. B * B >= 3 * B /\ B * C <= (B * B) - B /\ B * C >= 2 * B
  <2>1. B * (B - 3) >= 0 /\ B * (B - 1 - C) >= 0 /\ B * (C - 2) >= 0
    BY Constants
  <2>2. QED
    BY <2>1, Constants
<1>2. B * B * B >= 3 * (B * B)
  BY <1>1, Constants
<1>3. B * B * B * B >= 3 * (B * B * B)
  BY <1>1, Constants
<1>4. B * B \in Nat /\ B * B * B \in Nat /\ B * B * B * B \in Nat /\ B * C \in Nat
  BY Constants
<1>5. QED
  BY <1>1, <1>2, <1>3, <1>4, Constants DEF P, R

\* The errors of the steps do not add up to a multiple of P unless all are 0.
LEMMA NoCancelling ==
  ASSUME NEW w2 \in Slips, NEW w3 \in Slips, NEW w4 \in Slips,
         Multiple(((B * B) - 1) * (w2 + (B * w3) + (B * B * w4)))
  PROVE  w2 = 0 /\ w3 = 0 /\ w4 = 0
<1> PICK B2, B3, B4, BC \in Nat :
       /\ B2 = B * B /\ B3 = B * B * B /\ B4 = B * B * B * B /\ BC = B * C
       /\ R = B4 /\ P = B4 - C
       /\ B2 >= 3 * B /\ B3 >= 3 * B2 /\ B4 >= 3 * B3
       /\ BC <= B2 - B /\ BC >= 2 * B
  BY Monomials
<1>1. w2 \in Int /\ w3 \in Int /\ w4 \in Int
  BY Constants DEF Slips
<1> DEFINE low == w2 + (B * w3)
<1>2. low \in Int
  BY <1>1, Constants
<1>3. low \in {0, 1, 1 - B, B, B + 1, 1, B - B2, (B - B2) + 1, (B - B2) + 1 - B}
  BY <1>1, Constants DEF Slips
<1>4. low = 0 => w2 = 0 /\ w3 = 0
  <2>1. w3 = 0 \/ w3 = 1 \/ w3 = 1 - B
    BY DEF Slips
  <2>2. QED
    BY <1>1, <2>1, Constants DEF Slips
<1>5. Multiple(((B2 - 1) * low) + ((B4 - B2) * w4))
  <2>1. ((B * B) - 1) * (w2 + (B * w3) + (B * B * w4)) = ((B2 - 1) * low) + ((B4 - B2) * w4)
    BY <1>1, Constants
  <2>2. QED
    BY <2>1
<1> HIDE DEF low
<1> DEFINE e == ((B2 - 1) * low) + ((B4 - B2) * w4)
<1>6. B2 * B = B3 /\ B2 * B2 = B4 /\ B4 * B = B * B4
  BY Constants
<1>7. (B2 - 1) * low \in {0, B2 - 1, B2 - 1 - B3 + B, B3 - B, B3 - B + B2 - 1, B3 - B - B4 + B2,
                          B3 - B - B4 + B2 + B2 - 1, B2 - B4 + B2 - 1}
  BY <1>3, <1>6, Constants
<1>8. CASE w4 = 0
  <2>1. e = (B2 - 1) * low /\ e \in Int
    BY <1>8, <1>2, Constants
  <2>2. -P < e /\ e < P
    BY <1>7, <2>1, Constants
  <2>3. e = 0
    BY <1>5, <2>1, <2>2, BetweenMultiples, Constants
  <2>4. low = 0
    BY <1>2, <2>1, <2>3, Constants
  <2>5. QED
    BY <1>4, <1>8, <2>4
<1>9. CASE w4 = 1
  <2>1. e = ((B2 - 1) * low) + P + C - B2
    BY <1>9, <1>2, Constants
  <2>2. 0 < e /\ e < P + P /\ e # P
    BY <1>7, <2>1, Constants
  <2>3. e \in Int /\ P * 0 = 0 /\ P * 1 = P
    BY <1>2, <2>1, Constants
  <2>4. (P * 0 < e /\ e < (P * 0) + P) \/ (P * 1 < e /\ e < (P * 1) + P)
    BY <2>2, <2>3, Constants
  <2> HIDE DEF e
  <2>5. QED
    BY <1>5, <2>3, <2>4, BetweenMultiples DEF e
<1>10. CASE w4 = 1 - B
  <2> DEFINE rest == ((B2 - 1) * low) + C - B2 + B3 - BC
  <2>1. e = (P * (1 - B)) + rest
    BY <1>6, <1>10, <1>2, Constants
  <2>2. rest # 0 /\ -P < rest /\ rest < P
    <3> DEFINE d == (B2 - 1) * low
    <3>1. d \in {0, B2 - 1, B2 - 1 - B3 + B, B3 - B, B3 - B + B2 - 1, B3 - B - B4 + B2,
                 B3 - B - B4 + B2 + B2 - 1, B2 - B4 + B2 - 1}
      BY <1>7
    <3> HIDE DEF d
    <3>2. d + C - B2 + B3 - BC # 0 /\ -P < d + C - B2 + B3 - BC /\ d + C - B2 + B3 - BC < P
      BY <3>1, Constants
    <3>3. QED
      BY <3>2 DEF d
  <2>3. e \in Int /\ 1 - B \in Int /\ 0 - B \in Int /\ P * (0 - B) = (P * (1 - B)) - P
    BY <1>2, <2>1, Constants
  <2>4. \/ P * (1 - B) < e /\ e < (P * (1 - B)) + P
        \/ P * (0 - B) < e /\ e < (P * (0 - B)) + P
    BY <1>2, <2>1, <2>2, <2>3, Constants
  <2> HIDE DEF e
  <2>5. QED
    BY <1>5, <2>3, <2>4, BetweenMultiples DEF e
<1>11. QED
  BY <1>8, <1>9, <1>10 DEF Slips

----------------------------------------------------------------------------
(***************************************************************************)
(* One reduction step, in numbers.                                         *)
(***************************************************************************)
\* m clears the lowest limb: m * C has the same one, and an upper half below C.
LEMMA FactorClears ==
  ASSUME NEW l \in 0..B - 1, NEW m, m = (l * K) % B
  PROVE  /\ m \in 0..B - 1
         /\ (m * C) % B = l
         /\ (m * C) \div B \in 0..C - 1
         /\ m * C = (B * ((m * C) \div B)) + l
<1>1. m \in 0..B - 1 /\ \E q \in Int : l * K = (B * q) + m
  <2> DEFINE x == l * K
  <2>1. x \in Int
    BY Constants
  <2> HIDE DEF x
  <2>2. x % B \in 0..B - 1 /\ x \div B \in Int /\ x = (B * (x \div B)) + (x % B)
    BY <2>1, Constants, DivMod
  <2>3. QED
    BY <2>2 DEF x
<1>2. PICK q \in Int : l * K = (B * q) + m
  BY <1>1
<1>3. PICK j \in Int : K * C = (B * j) + 1
  BY LimbAssumption, DivMod
<1> DEFINE h == (l * j) - (q * C)
<1>4. h \in Int /\ m * C = (B * h) + l
  <2>1. (l * K) * C = ((B * q) + m) * C
    BY <1>2
  <2>2. (l * K) * C = l * ((B * j) + 1)
    BY <1>3, Constants
  <2>3. QED
    BY <1>1, <2>1, <2>2, Constants, SMTT(60)
<1> HIDE DEF h
<1>5. (m * C) % B = l /\ (m * C) \div B = h
  BY <1>1, <1>4, Constants, DivModUnique
<1>6. h \in 0..C - 1
  <2>1. m * C <= (B * C) - C /\ m * C >= 0
    <3>1. (B - 1 - m) * C >= 0
      BY <1>1, Constants
    <3>2. QED
      BY <1>1, <3>1, Constants
  <2>2. B * (C - h) > 0
    BY <1>4, <2>1, Constants
  <2>3. B * (h + 1) > 0
    BY <1>4, <2>1, Constants
  <2>4. C - h > 0 /\ h + 1 > 0
    BY <1>4, <2>2, <2>3, Constants
  <2>5. QED
    BY <1>4, <2>4, Constants
<1>7. QED
  BY <1>1, <1>4, <1>5, <1>6

\* Two limbs hold a number from -B^2 to B^2 modulo B^2.
LEMMA TwoLimbs ==
  ASSUME NEW x \in Int, -(B * B) <= x, x < B * B
  PROVE  /\ x % B \in 0..B - 1 /\ (x \div B) % B \in 0..B - 1
         /\ (x % B) + (B * ((x \div B) % B)) = IF x < 0 THEN x + (B * B) ELSE x
<1> DEFINE q == x \div B
           l == x % B
<1>1. q \in Int /\ l \in 0..B - 1 /\ x = (B * q) + l
  BY Constants, DivMod
<1> HIDE DEF q, l
<1>2. -B <= q /\ q < B
  <2>1. B * (q + B + 1) > 0 /\ B * (B - q) > 0
    BY <1>1, Constants
  <2>2. q + B + 1 > 0 /\ B - q > 0
    BY <1>1, <2>1, Constants
  <2>3. QED
    BY <1>1, <2>2, Constants
<1>3. q % B = IF q < 0 THEN q + B ELSE q
  <2>1. CASE q < 0
    <3>1. q = (B * (-1)) + (q + B) /\ q + B \in 0..B - 1
      BY <1>1, <1>2, <2>1, Constants
    <3>2. q % B = q + B
      BY <1>1, <3>1, Constants, DivModUnique
    <3>3. QED
      BY <2>1, <3>2
  <2>2. CASE q >= 0
    BY <1>1, <1>2, <2>2, Constants, ModSmall
  <2>3. QED
    BY <1>1, <2>1, <2>2
<1>4. q < 0 <=> x < 0
  <2>1. q < 0 => B * q <= -B
    <3>1. q < 0 => B * (-1 - q) >= 0
      BY <1>1, Constants
    <3>2. QED
      BY <1>1, <3>1, Constants
  <2>2. q >= 0 => B * q >= 0
    BY <1>1, Constants
  <2>3. QED
    BY <1>1, <2>1, <2>2, Constants
<1>5. q % B \in 0..B - 1 /\ l + (B * (q % B)) = IF x < 0 THEN x + (B * B) ELSE x
  BY <1>1, <1>2, <1>3, <1>4, Constants
<1>6. QED
  BY <1>1, <1>5 DEF q, l

\* The number in four limbs.
Four(x0, x1, x2, x3) == x0 + (B * (x1 + (B * (x2 + (B * x3)))))

\* A step from four limbs: m clears the lowest, h is the upper half of its
\* product by C, mid what remains of the next two, and the borrow is taken,
\* with m, from the limb called to.
ReductionOf(r0, r1, r2, r3, m, h, mid, to, top) ==
  /\ r0 \in 0..B - 1 /\ r1 \in 0..B - 1 /\ r2 \in 0..B - 1 /\ r3 \in 0..B - 1
  /\ m \in 0..B - 1 /\ h \in 0..C - 1 /\ m * C = (B * h) + r0
  /\ mid = (r1 + (B * r2)) - h
  /\ top = (to + (B * m)) - (IF mid < 0 THEN 1 ELSE 0)

\* A step whose borrow goes to the fourth limb divides by B, modulo P.
LEMMA StepRight ==
  ASSUME NEW r0, NEW r1, NEW r2, NEW r3, NEW m, NEW h, NEW mid, NEW top,
         ReductionOf(r0, r1, r2, r3, m, h, mid, r3, top)
  PROVE  /\ mid % B \in 0..B - 1 /\ (mid \div B) % B \in 0..B - 1
         /\ top % B \in 0..B - 1 /\ (top \div B) % B \in 0..B - 1
         /\ B * Four(mid % B, (mid \div B) % B, top % B, (top \div B) % B)
              = Four(r0, r1, r2, r3) + (m * P)
<1> USE DEF ReductionOf
<1>1. B * r2 \in Nat /\ B * r2 <= (B * B) - B /\ B * m \in Nat /\ B * m <= (B * B) - B
  <2>1. B * (B - 1 - r2) >= 0 /\ B * (B - 1 - m) >= 0
    BY Constants
  <2>2. QED
    BY <2>1, Constants
<1>2. mid \in Int /\ -(B * B) <= mid /\ mid < B * B
  BY <1>1, Constants
<1>3. mid < 0 => B * m >= B
  <2>1. mid < 0 => m # 0
    <3>1. m = 0 => B * h = 0
      BY Constants
    <3>2. m = 0 => h = 0
      BY <3>1, Constants
    <3>3. QED
      BY <1>1, <3>2, Constants
  <2>2. m # 0 => B * (m - 1) >= 0
    BY Constants
  <2>3. QED
    BY <2>1, <2>2, Constants
<1>4. top \in Int /\ 0 <= top /\ top < B * B
  BY <1>1, <1>2, <1>3, Constants
<1>5. (mid % B) + (B * ((mid \div B) % B)) = IF mid < 0 THEN mid + (B * B) ELSE mid
  BY <1>2, TwoLimbs
<1>6. (top % B) + (B * ((top \div B) % B)) = top
  BY <1>4, TwoLimbs, Constants
<1>7. /\ mid % B \in 0..B - 1 /\ (mid \div B) % B \in 0..B - 1
      /\ top % B \in 0..B - 1 /\ (top \div B) % B \in 0..B - 1
  BY <1>2, <1>4, TwoLimbs, Constants
<1> DEFINE d0 == mid % B
           d1 == (mid \div B) % B
           d2 == top % B
           d3 == (top \div B) % B
<1> HIDE DEF d0, d1, d2, d3
<1>8. Four(d0, d1, d2, d3) = (d0 + (B * d1)) + (B * B) * (d2 + (B * d3))
  BY <1>7, Constants DEF Four, d0, d1, d2, d3
<1>9. (d0 + (B * d1)) + (B * B) * (d2 + (B * d3)) = mid + (B * B) * (r3 + (B * m))
  <2>1. CASE mid < 0
    <3>1. d0 + (B * d1) = mid + (B * B) /\ d2 + (B * d3) = (r3 + (B * m)) - 1
      BY <1>5, <1>6, <2>1 DEF d0, d1, d2, d3
    <3>2. QED
      BY <1>2, <3>1, Constants
  <2>2. CASE ~(mid < 0)
    <3>1. d0 + (B * d1) = mid /\ d2 + (B * d3) = (r3 + (B * m))
      BY <1>4, <1>5, <1>6, <2>2, Constants DEF d0, d1, d2, d3
    <3>2. QED
      BY <3>1
  <2>3. QED
    BY <2>1, <2>2
<1>10. B * (mid + (B * B) * (r3 + (B * m))) = Four(r0, r1, r2, r3) + (m * P)
  <2>1. m * P = (m * (B * B * B * B)) - (B * h) - r0
    BY Constants DEF P, R
  <2>2. QED
    BY <2>1, Constants DEF Four
<1>11. QED
  BY <1>7, <1>8, <1>9, <1>10 DEF d0, d1, d2, d3

\* A step whose borrow goes to the second limb instead is off by B times a slip.
LEMMA StepSlipped ==
  ASSUME NEW r0, NEW r1, NEW r2, NEW r3, NEW m, NEW h, NEW mid, NEW top,
         ReductionOf(r0, r1, r2, r3, m, h, mid, mid % B, top)
  PROVE  /\ (mid \div B) % B \in 0..B - 1
         /\ top % B \in 0..B - 1 /\ (top \div B) % B \in 0..B - 1
         /\ \E w \in Slips :
              /\ w = 0 <=> ~(mid < 0)
              /\ B * Four(top % B, (mid \div B) % B, r3, (top \div B) % B)
                   = Four(r0, r1, r2, r3) + (m * P) + (B * (((B * B) - 1) * w))
<1> USE DEF ReductionOf
<1>1. B * r2 \in Nat /\ B * r2 <= (B * B) - B /\ B * m \in Nat /\ B * m <= (B * B) - B
  <2>1. B * (B - 1 - r2) >= 0 /\ B * (B - 1 - m) >= 0
    BY Constants
  <2>2. QED
    BY <2>1, Constants
<1>2. mid \in Int /\ -(B * B) <= mid /\ mid < B * B
  BY <1>1, Constants
<1>3. mid < 0 => m # 0
  <2>1. m = 0 => B * h = 0
    BY Constants
  <2>2. m = 0 => h = 0
    BY <2>1, Constants
  <2>3. QED
    BY <1>1, <2>2, Constants
<1> DEFINE d0 == mid % B
           d1 == (mid \div B) % B
<1>4. d0 \in 0..B - 1 /\ d1 \in 0..B - 1
      /\ d0 + (B * d1) = IF mid < 0 THEN mid + (B * B) ELSE mid
  BY <1>2, TwoLimbs
<1> HIDE DEF d0, d1
<1>5. Four(r0, r1, r2, r3) + (m * P) = B * (mid + (B * B) * (r3 + (B * m)))
  <2>1. m * P = (m * (B * B * B * B)) - (B * h) - r0
    BY Constants DEF P, R
  <2>2. QED
    BY <2>1, Constants DEF Four
<1>6. ASSUME NEW n0 \in 0..B - 1, NEW n3 \in 0..B - 1, top = n0 + (B * n3)
      PROVE  top % B = n0 /\ (top \div B) % B = n3
  <2>1. top % B = n0 /\ top \div B = n3
    BY <1>6, Constants, DivModUnique
  <2>2. QED
    BY <2>1, ModSmall, Constants
<1>7. CASE ~(mid < 0)
  <2>1. top % B = d0 /\ (top \div B) % B = m
    <3>1. top = d0 + (B * m)
      BY <1>4, <1>7, Constants DEF d0
    <3>2. QED
      BY <1>4, <1>6, <3>1
  <2>2. B * Four(d0, d1, r3, m) = B * (mid + (B * B) * (r3 + (B * m))) + (B * (((B * B) - 1) * 0))
    BY <1>2, <1>4, <1>7, Constants DEF Four
  <2>3. QED
    BY <1>4, <1>5, <1>7, <2>1, <2>2 DEF d0, d1, Slips
<1>8. CASE mid < 0 /\ d0 # 0
  <2>1. top % B = d0 - 1 /\ (top \div B) % B = m
    <3>1. top = (d0 - 1) + (B * m) /\ d0 - 1 \in 0..B - 1
      BY <1>4, <1>8, Constants DEF d0
    <3>2. QED
      BY <1>6, <3>1
  <2>2. B * Four(d0 - 1, d1, r3, m) = B * (mid + (B * B) * (r3 + (B * m))) + (B * (((B * B) - 1) * 1))
    BY <1>2, <1>4, <1>8, Constants DEF Four
  <2>3. d0 - 1 \in 0..B - 1
    BY <1>4, <1>8, Constants
  <2>4. QED
    BY <1>4, <1>5, <1>8, <2>1, <2>2, <2>3 DEF d0, d1, Slips
<1>9. CASE mid < 0 /\ d0 = 0
  <2>1. m - 1 \in 0..B - 1 /\ B - 1 \in 0..B - 1
    BY <1>3, <1>9, Constants
  <2>2. top = (B - 1) + (B * (m - 1))
    BY <1>9, Constants DEF d0
  <2>3. top % B = B - 1 /\ (top \div B) % B = m - 1
    BY <1>6, <2>1, <2>2
  <2>4. B * Four(B - 1, d1, r3, m - 1)
          = B * (mid + (B * B) * (r3 + (B * m))) + (B * (((B * B) - 1) * (1 - B)))
    BY <1>2, <1>4, <1>9, Constants DEF Four
  <2>5. 1 - B \in Slips /\ 1 - B # 0
    BY Constants DEF Slips
  <2>6. QED
    BY <1>4, <1>5, <1>9, <2>1, <2>3, <2>4, <2>5 DEF d1
<1>10. QED
  BY <1>7, <1>8, <1>9

----------------------------------------------------------------------------
(***************************************************************************)
(* One row, in numbers.                                                    *)
(***************************************************************************)
\* What limb n weighs.
Weight == <<1, B, B * B, B * B * B, R>>

\* The weights of neighbouring limbs are a factor of B apart.
LEMMA Weights ==
  ASSUME NEW n \in 0..3
  PROVE  /\ Weight[n + 1] \in Nat /\ Weight[n + 1] > 0 /\ Weight[n + 1] = Pow[n + 1]
         /\ Weight[n + 2] \in Nat /\ Weight[n + 2] = Weight[n + 1] * B
<1>1. B * B \in Nat /\ B * B > 0
  BY Constants
<1>2. B * B * B \in Nat /\ B * B * B > 0
  BY <1>1, Constants
<1>3. n = 0 \/ n = 1 \/ n = 2 \/ n = 3
  OBVIOUS
<1>4. R = B * B * B * B /\ R \in Nat
  BY Constants DEF R
<1> HIDE DEF R
<1>5. QED
  BY <1>1, <1>2, <1>3, <1>4, Constants DEF Weight, Pow

\* A limb and the lower ones.
LEMMA LimbAbove ==
  ASSUME NEW x \in Nat, NEW n \in 0..3
  PROVE  /\ Limb(x, n) \in 0..B - 1
         /\ x % Weight[n + 2] = (x % Weight[n + 1]) + (Weight[n + 1] * Limb(x, n))
<1> DEFINE w == Weight[n + 1]
<1>1. w \in Nat /\ w > 0 /\ Limb(x, n) = (x \div w) % B /\ Weight[n + 2] = w * B
  BY Weights DEF Limb
<1> HIDE DEF w
<1>2. x % (w * B) = (x % w) + (w * ((x \div w) % B))
  BY <1>1, DigitAbove, Constants
<1>3. x \div w \in Int
  BY <1>1, DivMod
<1>4. (x \div w) % B \in 0..B - 1
  BY <1>3, DivMod, Constants
<1>5. QED
  BY <1>1, <1>2, <1>4 DEF w

\* Adding limb n times y to a partial product of the limbs below gives that of
\* one limb more, with the same excess.
LEMMA RowMultiplied ==
  ASSUME NEW x \in Nat, NEW y \in Nat, NEW z \in Nat, NEW n \in 0..3,
         Multiple((x * Weight[n + 1]) - (y * (z % Weight[n + 1]))), NEW v \in Int,
         x * Weight[n + 1] <= (y * (z % Weight[n + 1])) + v
  PROVE  /\ Multiple(((x + (y * Limb(z, n))) * Weight[n + 1]) - (y * (z % Weight[n + 2])))
         /\ (x + (y * Limb(z, n))) * Weight[n + 1] <= (y * (z % Weight[n + 2])) + v
<1> DEFINE w == Weight[n + 1]
           d == Limb(z, n)
           l == z % w
<1>1. w \in Nat /\ d \in Nat /\ l \in Nat /\ z % Weight[n + 2] = l + (w * d)
  <2>1. w \in Nat /\ w > 0
    BY Weights
  <2>2. l \in Nat
    BY <2>1, DivMod
  <2>3. d \in Nat /\ z % Weight[n + 2] = l + (w * d)
    BY LimbAbove, Constants
  <2>4. QED
    BY <2>1, <2>2, <2>3
<1> HIDE DEF w, d, l
<1>2. ((x + (y * d)) * w) - (y * (l + (w * d))) = (x * w) - (y * l)
  BY <1>1
<1>3. (x + (y * d)) * w <= (y * (l + (w * d))) + v
  <2> DEFINE u == (x + (y * d)) * w
             t == y * (l + (w * d))
             xw == x * w
             yl == y * l
  <2>1. u \in Int /\ t \in Int /\ xw \in Int /\ yl \in Int /\ u - t = xw - yl
    BY <1>1, <1>2
  <2>2. xw <= yl + v
    BY DEF w, l
  <2> HIDE DEF u, t, xw, yl
  <2>3. u <= t + v
    BY <2>1, <2>2
  <2>4. QED
    BY <2>3 DEF u, t
<1>4. QED
  BY <1>1, <1>2, <1>3 DEF w, d, l

\* On either instruction set the reduction of a row adds the multiple of P that
\* clears the lowest limb, which falls away.
LEMMA RowReduced ==
  ASSUME NEW x \in Nat, NEW m, m = (Limb(x, 0) * K) % B, x + (m * P) < AccSize
  PROVE  \E y \in Nat :
           /\ m \in 0..B - 1 /\ B * y = x + (m * P)
           /\ y = ((x + (m * R) - (m * C)) % AccSize) \div B
           /\ y = ((x \div B) + (m * (R \div B)) - ((m * C) \div B)) % (AccSize \div B)
<1> DEFINE l == x % B
           q == x \div B
           h == (m * C) \div B
           y == q + (m * (B * B * B)) - h
<1>1. l \in 0..B - 1 /\ q \in Int /\ x = (B * q) + l /\ Limb(x, 0) = l
  <2>1. x \div 1 = x
    BY DivModUnique
  <2>2. QED
    BY <2>1, DivMod, Constants DEF Limb, Pow
<1>2. m \in 0..B - 1 /\ h \in 0..C - 1 /\ m * C = (B * h) + l
  BY <1>1, FactorClears
<1> HIDE DEF l, q, h
<1>3. y \in Int /\ B * y = x + (m * R) - (m * C)
  BY <1>1, <1>2, Constants DEF R
<1>4. x + (m * R) - (m * C) = x + (m * P)
  BY <1>2, Constants DEF P
<1> HIDE DEF y
<1>5. x + (m * P) \in Nat
  BY <1>2, Constants
<1>6. y \in Nat
  <2>1. B * (y + 1) > 0
    BY <1>3, <1>4, <1>5, Constants
  <2>2. y + 1 > 0
    BY <1>3, <2>1, Constants
  <2>3. QED
    BY <1>3, <2>2
<1>7. AccSize \in Nat /\ R * B \in Nat /\ R * B > 0 /\ AccSize = B * (R * B)
  BY Constants DEF AccSize
<1>8. R \div B = B * B * B /\ AccSize \div B = R * B
  <2>1. R = (B * (B * B * B)) + 0 /\ B * B * B \in Int /\ AccSize = (B * (R * B)) + 0
    BY <1>7, Constants DEF R
  <2>2. R \in Int /\ AccSize \in Int /\ R * B \in Int /\ 0 \in 0..B - 1
    BY <1>7, Constants
  <2> HIDE DEF R, AccSize
  <2>3. QED
    BY <2>1, <2>2, Constants, DivModUnique
<1>9. y = (x + (m * P)) \div B
  BY <1>3, <1>4, <1>5, <1>6, Constants, DivModUnique
<1>10. (x + (m * P)) % AccSize = x + (m * P)
  BY <1>5, <1>7, ModSmall
<1>11. y % (R * B) = y
  <2>1. B * ((R * B) - y) > 0
    BY <1>3, <1>4, <1>5, <1>6, <1>7, Constants
  <2>2. (R * B) - y > 0
    BY <1>6, <1>7, <2>1, Constants
  <2>3. QED
    BY <1>6, <1>7, <2>2, ModSmall
<1>12. y = ((x + (m * R) - (m * C)) % AccSize) \div B
  BY <1>4, <1>9, <1>10
<1>13. y = ((x \div B) + (m * (R \div B)) - ((m * C) \div B)) % (AccSize \div B)
  BY <1>8, <1>11 DEF y, q, h
<1>14. QED
  BY <1>2, <1>3, <1>4, <1>6, <1>12, <1>13

----------------------------------------------------------------------------
(***************************************************************************)
(* One reduction step, in registers.                                       *)
(***************************************************************************)
Registers == [0..3 -> 0..B - 1]

\* The number whose lowest limb is in register n.
ValueFrom(r, n) == Four(r[n % 4], r[(n + 1) % 4], r[(n + 2) % 4], r[(n + 3) % 4])

\* What a step does to registers that are all different.
LEMMA ReducedRight ==
  ASSUME NEW r \in Registers, NEW c, {c[1], c[2], c[3], c[4]} = 0..3, NEW s, s = Reduced(r, c)
  PROVE  /\ s \in Registers
         /\ B * Four(s[c[2]], s[c[3]], s[c[4]], s[c[1]])
              = Four(r[c[1]], r[c[2]], r[c[3]], r[c[4]]) + (Factor(r, c) * P)
<1> DEFINE m == Factor(r, c)
           h == (m * C) \div B
           mid == Middle(r, c)
           d0 == mid % B
           d1 == (mid \div B) % B
           r1 == [r EXCEPT ![c[2]] = d0, ![c[3]] = d1, ![c[1]] = m]
           top == r1[c[4]] + (B * r1[c[1]]) - (IF mid < 0 THEN 1 ELSE 0)
           d2 == top % B
           d3 == (top \div B) % B
<1>1. s = [r1 EXCEPT ![c[4]] = d2, ![c[1]] = d3]
  BY DEF Reduced
<1>2. /\ c[1] \in 0..3 /\ c[2] \in 0..3 /\ c[3] \in 0..3 /\ c[4] \in 0..3
      /\ c[1] # c[2] /\ c[1] # c[3] /\ c[1] # c[4] /\ c[2] # c[3] /\ c[2] # c[4] /\ c[3] # c[4]
  OBVIOUS
<1>3. /\ r[c[1]] \in 0..B - 1 /\ r[c[2]] \in 0..B - 1 /\ r[c[3]] \in 0..B - 1 /\ r[c[4]] \in 0..B - 1
  BY <1>2 DEF Registers
<1>4. m \in 0..B - 1 /\ h \in 0..C - 1 /\ m * C = (B * h) + r[c[1]]
  BY <1>3, FactorClears DEF Factor
<1>5. mid = (r[c[2]] + (B * r[c[3]])) - h
  BY <1>3, <1>4, Constants DEF Middle
<1> HIDE DEF m, h, mid, d0, d1
<1>6. r1[c[4]] = r[c[4]] /\ r1[c[1]] = m
  BY <1>2 DEF Registers
<1>7. top = (r[c[4]] + (B * m)) - (IF mid < 0 THEN 1 ELSE 0)
  BY <1>3, <1>4, <1>6, Constants
<1> HIDE DEF top
<1>8. /\ d0 \in 0..B - 1 /\ d1 \in 0..B - 1 /\ d2 \in 0..B - 1 /\ d3 \in 0..B - 1
      /\ B * Four(d0, d1, d2, d3) = Four(r[c[1]], r[c[2]], r[c[3]], r[c[4]]) + (m * P)
  <2>1. ReductionOf(r[c[1]], r[c[2]], r[c[3]], r[c[4]], m, h, mid, r[c[4]], top)
    BY <1>3, <1>4, <1>5, <1>7 DEF ReductionOf
  <2>2. QED
    BY <2>1, StepRight DEF d0, d1
<1> HIDE DEF d2, d3
<1>9. /\ s \in Registers
      /\ s[c[2]] = d0 /\ s[c[3]] = d1 /\ s[c[4]] = d2 /\ s[c[1]] = d3
  BY <1>1, <1>2, <1>4, <1>8 DEF Registers
<1>10. QED
  BY <1>8, <1>9 DEF m

\* What it does if the borrow goes to the second register instead.
LEMMA ReducedSlipped ==
  ASSUME NEW r \in Registers, NEW c, NEW d, c[4] = c[2], {c[1], c[2], c[3], d} = 0..3,
         NEW s, s = Reduced(r, c)
  PROVE  /\ s \in Registers
         /\ \E w \in Slips :
              /\ w = 0 <=> ~(Middle(r, c) < 0)
              /\ B * Four(s[c[2]], s[c[3]], s[d], s[c[1]])
                   = Four(r[c[1]], r[c[2]], r[c[3]], r[d]) + (Factor(r, c) * P)
                     + (B * (((B * B) - 1) * w))
<1> DEFINE m == Factor(r, c)
           h == (m * C) \div B
           mid == Middle(r, c)
           d0 == mid % B
           d1 == (mid \div B) % B
           r1 == [r EXCEPT ![c[2]] = d0, ![c[3]] = d1, ![c[1]] = m]
           top == r1[c[4]] + (B * r1[c[1]]) - (IF mid < 0 THEN 1 ELSE 0)
           d2 == top % B
           d3 == (top \div B) % B
<1>1. s = [r1 EXCEPT ![c[4]] = d2, ![c[1]] = d3]
  BY DEF Reduced
<1>2. /\ c[1] \in 0..3 /\ c[2] \in 0..3 /\ c[3] \in 0..3 /\ d \in 0..3
      /\ c[1] # c[2] /\ c[1] # c[3] /\ c[1] # d /\ c[2] # c[3] /\ c[2] # d /\ c[3] # d
  OBVIOUS
<1>3. /\ r[c[1]] \in 0..B - 1 /\ r[c[2]] \in 0..B - 1 /\ r[c[3]] \in 0..B - 1 /\ r[d] \in 0..B - 1
  BY <1>2 DEF Registers
<1>4. m \in 0..B - 1 /\ h \in 0..C - 1 /\ m * C = (B * h) + r[c[1]]
  BY <1>3, FactorClears DEF Factor
<1>5. mid = (r[c[2]] + (B * r[c[3]])) - h
  BY <1>3, <1>4, Constants DEF Middle
<1> HIDE DEF m, h, mid, d0, d1
<1>6. r1[c[4]] = d0 /\ r1[c[1]] = m
  BY <1>2 DEF Registers
<1>7. top = ((mid % B) + (B * m)) - (IF mid < 0 THEN 1 ELSE 0)
  <2>1. mid \in Int
    BY <1>3, <1>4, <1>5, Constants
  <2>2. mid % B \in Int
    BY <2>1, DivMod, Constants
  <2>3. QED
    BY <1>4, <1>6, <2>2, Constants DEF d0
<1> HIDE DEF top
<1>8. /\ d1 \in 0..B - 1 /\ d2 \in 0..B - 1 /\ d3 \in 0..B - 1
      /\ \E w \in Slips :
           /\ w = 0 <=> ~(mid < 0)
           /\ B * Four(d2, d1, r[d], d3)
                = Four(r[c[1]], r[c[2]], r[c[3]], r[d]) + (m * P) + (B * (((B * B) - 1) * w))
  <2>1. ReductionOf(r[c[1]], r[c[2]], r[c[3]], r[d], m, h, mid, mid % B, top)
    BY <1>3, <1>4, <1>5, <1>7 DEF ReductionOf
  <2>2. QED
    BY <2>1, StepSlipped DEF d0, d1
<1> HIDE DEF d2, d3
<1>9. /\ s \in Registers
      /\ s[c[2]] = d2 /\ s[c[3]] = d1 /\ s[d] = r[d] /\ s[c[1]] = d3
  BY <1>1, <1>2, <1>4, <1>8 DEF Registers
<1>10. QED
  BY <1>8, <1>9 DEF m, mid

\* Step n of any of the three routines.
LEMMA StepReduces ==
  ASSUME NEW r \in Registers, NEW n \in 0..3, NEW name,
         NEW c, c = Chain(name, n + 1), NEW s, s = Reduced(r, c)
  PROVE  /\ s \in Registers
         /\ \E w \in Slips, m \in Int :
              /\ w = 0 <=> ~(c # ChainX[n + 1] /\ Middle(r, c) < 0)
              /\ n = 0 => w = 0
              /\ B * ValueFrom(s, n + 1) = ValueFrom(r, n) + (m * P) + (B * (((B * B) - 1) * w))
<1> DEFINE Right(c1, c2, c3, c4) ==
             c = <<c1, c2, c3, c4>> /\ c = ChainX[n + 1] /\ {c1, c2, c3, c4} = 0..3
           Slipped(c1, c2, c3, c4) ==
             c = <<c1, c2, c3, c2>> /\ c # ChainX[n + 1] /\ n # 0 /\ {c1, c2, c3, c4} = 0..3
           Order(c1, c2, c3, c4) ==
             /\ c1 \in 0..3 /\ c2 \in 0..3 /\ c3 \in 0..3 /\ c4 \in 0..3
             /\ c1 = n % 4 /\ c2 = (n + 1) % 4 /\ c3 = (n + 2) % 4 /\ c4 = (n + 3) % 4
             /\ c2 = ((n + 1) % 4) /\ c3 = ((n + 1) + 1) % 4 /\ c4 = ((n + 1) + 2) % 4
             /\ c1 = ((n + 1) + 3) % 4
<1>1. PICK c1, c2, c3, c4 : Order(c1, c2, c3, c4) /\ (Right(c1, c2, c3, c4) \/ Slipped(c1, c2, c3, c4))
  <2>1. CASE n = 0
    <3>1. Order(0, 1, 2, 3) /\ Right(0, 1, 2, 3)
      BY <2>1 DEF Chain, ChainX, ChainQ
    <3>2. QED
      BY <3>1
  <2>2. CASE n = 1
    <3>1. Order(1, 2, 3, 0) /\ (Right(1, 2, 3, 0) \/ Slipped(1, 2, 3, 0))
      BY <2>2 DEF Chain, ChainX, ChainQ
    <3>2. QED
      BY <3>1
  <2>3. CASE n = 2
    <3>1. Order(2, 3, 0, 1) /\ (Right(2, 3, 0, 1) \/ Slipped(2, 3, 0, 1))
      BY <2>3 DEF Chain, ChainX, ChainQ
    <3>2. QED
      BY <3>1
  <2>4. CASE n = 3
    <3>1. Order(3, 0, 1, 2) /\ (Right(3, 0, 1, 2) \/ Slipped(3, 0, 1, 2))
      BY <2>4 DEF Chain, ChainX, ChainQ
    <3>2. QED
      BY <3>1
  <2>5. QED
    BY <2>1, <2>2, <2>3, <2>4
<1>2. /\ ValueFrom(r, n) = Four(r[c1], r[c2], r[c3], r[c4])
      /\ ValueFrom(s, n + 1) = Four(s[c2], s[c3], s[c4], s[c1])
  BY <1>1 DEF ValueFrom
<1>3. Factor(r, c) \in Int
  BY <1>1, FactorClears DEF Factor, Registers
<1>4. CASE Right(c1, c2, c3, c4)
  <2>1. s \in Registers /\ B * ValueFrom(s, n + 1) = ValueFrom(r, n) + (Factor(r, c) * P)
    <3>1. c[1] = c1 /\ c[2] = c2 /\ c[3] = c3 /\ c[4] = c4 /\ {c[1], c[2], c[3], c[4]} = 0..3
      BY <1>4
    <3>2. QED
      BY <1>2, <3>1, ReducedRight, ZenonT(60)
  <2>2. 0 \in Slips /\ B * (((B * B) - 1) * 0) = 0
    BY Constants DEF Slips
  <2>3. ValueFrom(r, n) + (Factor(r, c) * P) \in Int
    BY <1>1, <1>2, <1>3, Constants DEF Four, Registers
  <2>4. QED
    BY <1>3, <1>4, <2>1, <2>2, <2>3
<1>5. CASE Slipped(c1, c2, c3, c4)
  BY <1>1, <1>2, <1>3, <1>5, ReducedSlipped
<1>6. QED
  BY <1>1, <1>4, <1>5

----------------------------------------------------------------------------
(***************************************************************************)
(* The invariant.                                                          *)
(***************************************************************************)
\* Multiplication: the partial product, with the limb a row has just added.
\* What it exceeds the true product by is less than P times its weight.
Rows ==
  routine \in Muls =>
    /\ borrowed = 0
    /\ a < P \/ b < P
    /\ pc = "row" => /\ acc < a + P
                     /\ acc * Weight[i + 1] <= (a * (b % Weight[i + 1])) + (P * (Weight[i + 1] - 1))
                     /\ Multiple((acc * Weight[i + 1]) - (a * (b % Weight[i + 1])))
    /\ pc = "reduce" => /\ i < 4
                        /\ acc < (a * B) + P
                        /\ acc * Weight[i + 1] <= (a * (b % Weight[i + 2])) + (P * (Weight[i + 1] - 1))
                        /\ Multiple((acc * Weight[i + 1]) - (a * (b % Weight[i + 2])))

\* The errors of the second, third and fourth step together.
Errors(w2, w3, w4) == (B * B) * (((B * B) - 1) * (w2 + (B * w3) + (B * B * w4)))

\* What i steps have made of the lower half, times B^i, is off by the errors of
\* the steps that misplaced a borrow.
Reduction(w2, w3, w4) ==
  /\ i < 2 => w2 = 0
  /\ i < 3 => w3 = 0
  /\ i < 4 => w4 = 0
  /\ borrowed = 0 <=> (w2 = 0 /\ w3 = 0 /\ w4 = 0)
  /\ Multiple(((ValueFrom(reg, i) * Weight[i + 1]) - (Operand - (acc * R)))
                - Errors(w2, w3, w4))

\* Squaring and conversion: the upper half leaves room for one subtraction.
Steps ==
  routine \notin Muls =>
    /\ pc # "row"
    /\ pc = "reduce" => /\ acc <= R - (2 * C) - 2
                        /\ borrowed <= (IF i = 0 THEN 0 ELSE i - 1)
                        /\ \E w2, w3, w4 \in Slips : Reduction(w2, w3, w4)

Result ==
  pc = "done" => acc < P /\ (borrowed = 0 <=> Multiple((acc * R) - Operand))

IInv == TypeOK /\ Rows /\ Steps /\ Result

\* What the routine is to reduce is a number.
LEMMA OperandNat ==
  ASSUME TypeOK
  PROVE  Operand \in Nat
BY Constants DEF TypeOK, Operand

\* A row adds less than B times the first operand.
LEMMA MultiplyRowKeeps ==
  ASSUME IInv, MultiplyRow
  PROVE  IInv'
<1> USE Constants DEF IInv, TypeOK, MultiplyRow
<1>1. a \in Nat /\ b \in Nat /\ acc \in Nat /\ i \in 0..3
  OBVIOUS
<1>2. routine \in Muls
  BY DEF Steps
<1> DEFINE d == Limb(b, i)
<1>3. d \in 0..B - 1
  BY <1>1, LimbAbove
<1> HIDE DEF d
<1> DEFINE v == P * (Weight[i + 1] - 1)
<1>4. /\ acc < a + P /\ v \in Int
      /\ acc * Weight[i + 1] <= (a * (b % Weight[i + 1])) + v
      /\ Multiple((acc * Weight[i + 1]) - (a * (b % Weight[i + 1])))
  <2>1. Weight[i + 1] \in Nat
    BY <1>1, Weights
  <2>2. QED
    BY <1>2, <2>1 DEF Rows
<1> HIDE DEF v
<1>5. acc + (a * d) \in Nat /\ acc + (a * d) < (a * B) + P
  <2>1. a * (B - 1 - d) >= 0 /\ a * d >= 0
    BY <1>1, <1>3
  <2>2. QED
    BY <1>1, <1>3, <1>4, <2>1
<1>6. (a * B) + P <= AccSize /\ AccSize \in Nat
  <2>1. a * B <= R * B /\ R * B \in Nat
    <3>1. (R - a) * B >= 0
      BY <1>1
    <3>2. QED
      BY <1>1, <3>1
  <2>2. R * B + R <= R * B * B
    <3>1. (R * B) * (B - 2) >= 0 /\ R * (B - 1) >= 0
      BY <2>1
    <3>2. QED
      BY <2>1, <3>1
  <2>3. QED
    BY <2>1, <2>2 DEF AccSize
<1>7. acc' = acc + (a * d)
  BY <1>5, <1>6, ModSmall DEF d
<1>8. /\ Multiple((acc' * Weight[i + 1]) - (a * (b % Weight[i + 2])))
      /\ acc' * Weight[i + 1] <= (a * (b % Weight[i + 2])) + v
  BY <1>1, <1>4, <1>7, RowMultiplied DEF d
<1>9. Rows'
  BY <1>1, <1>2, <1>5, <1>7, <1>8 DEF Rows, v
<1>10. TypeOK'
  BY <1>5, <1>6, <1>7
<1>11. Steps' /\ Result'
  BY <1>2 DEF Steps, Result
<1>12. QED
  BY <1>9, <1>10, <1>11

\* Dividing by B a partial product with a multiple of P added is one limb more,
\* and its excess stays below P times its weight.
LEMMA RowDivided ==
  ASSUME NEW x \in Nat, NEW y \in Nat, NEW m \in 0..B - 1, NEW w \in Nat, NEW s \in Int,
         B * y = x + (m * P), Multiple((x * w) - s), x * w <= s + (P * (w - 1))
  PROVE  /\ Multiple((y * (w * B)) - s)
         /\ y * (w * B) <= s + (P * ((w * B) - 1))
<1>1. y * (w * B) = (x * w) + (P * (m * w))
  <2>1. y * (w * B) = (B * y) * w
    BY Constants
  <2>2. (x + (m * P)) * w = (x * w) + (P * (m * w))
    BY Constants
  <2>3. QED
    BY <2>1, <2>2
<1>2. m * w \in Int /\ x * w \in Int
  OBVIOUS
<1>3. Multiple(P * (m * w)) /\ P * (m * w) \in Int
  BY <1>2, Constants DEF Multiple
<1>4. (y * (w * B)) - s = ((x * w) - s) + (P * (m * w))
  BY <1>1, <1>2, <1>3
<1>5. y * (w * B) <= s + (P * ((w * B) - 1))
  <2> DEFINE u == y * (w * B)
             xw == x * w
             Pmw == P * (m * w)
             Pw == P * w
             PwB == P * (w * B)
  <2>1. u = xw + Pmw /\ u \in Int /\ xw \in Int /\ Pmw \in Int /\ Pw \in Int /\ PwB \in Int
    BY <1>1, Constants
  <2>2. Pmw <= PwB - Pw
    <3>1. (B - 1 - m) * Pw >= 0
      BY <2>1, Constants
    <3>2. (B - 1 - m) * Pw = PwB - Pw - Pmw
      BY Constants
    <3> HIDE DEF Pw, PwB, Pmw
    <3>3. QED
      BY <2>1, <3>1, <3>2
  <2>3. P * (w - 1) = Pw - P /\ P * ((w * B) - 1) = PwB - P
    BY Constants
  <2>4. xw <= s + (Pw - P)
    BY <2>3
  <2> HIDE DEF u, xw, Pmw, Pw, PwB
  <2>5. u <= s + (PwB - P)
    BY <2>1, <2>2, <2>4, Constants
  <2>6. QED
    BY <2>3, <2>5 DEF u
<1>6. QED
  BY <1>2, <1>3, <1>4, <1>5, MultipleSum

\* (z * B + P - 1 + (B - 1) * P) / B is below z + P, and nothing overflows.
LEMMA RowBound ==
  ASSUME NEW x \in Nat, NEW z \in Nat, NEW m \in 0..B - 1, z < R, x < (z * B) + P
  PROVE  /\ x + (m * P) < AccSize
         /\ \A y \in Nat : B * y = x + (m * P) => y < z + P
<1> DEFINE mp == m * P
           zB == z * B
           BP == B * P
           BR == B * R
<1>1. /\ mp \in Nat /\ zB \in Nat /\ BP \in Nat /\ BR \in Nat
      /\ mp <= BP - P /\ zB <= BR - B
  <2>1. (B - 1 - m) * P >= 0 /\ (R - 1 - z) * B >= 0
    BY Constants
  <2>2. (B - 1 - m) * P = BP - P - mp /\ (R - 1 - z) * B = BR - B - zB
    BY Constants
  <2>3. mp \in Nat /\ zB \in Nat /\ BP \in Nat /\ BR \in Nat
    BY Constants
  <2> HIDE DEF mp, zB, BP, BR
  <2>4. QED
    BY <2>1, <2>2, <2>3, Constants
<1>2. AccSize \in Nat /\ AccSize >= BR + BP
  <2>1. B * R = BP + (B * C) /\ B * R \in Nat /\ B * C >= 0
    BY Constants
  <2>2. AccSize = (B * R) * B /\ (B * R) * (B - 2) >= 0
    BY <2>1, Constants DEF AccSize
  <2>3. (B * R) * B = (B * R) * (B - 2) + (B * R) + (B * R)
    BY <2>1, Constants
  <2> DEFINE more == BR * (B - 2)
  <2>4. BR >= BP /\ AccSize = more + BR + BR /\ BR \in Nat /\ more \in Nat
    BY <2>1, <2>2, <2>3, Constants
  <2> HIDE DEF BR, more, BP
  <2>5. QED
    BY <1>1, <2>4
<1>3. ASSUME NEW y \in Nat, B * y = x + mp PROVE y < z + P
  <2>1. B * ((z + P) - y) = (zB + BP) - (x + mp)
    BY <1>3, Constants
  <2> HIDE DEF mp, zB, BP, BR
  <2>2. B * ((z + P) - y) > 0
    BY <1>1, <2>1, Constants DEF zB
  <2>3. QED
    BY <2>2, Constants
<1> HIDE DEF mp, zB, BP, BR
<1>4. x + mp < AccSize
  BY <1>1, <1>2, Constants DEF zB
<1>5. QED
  BY <1>3, <1>4 DEF mp

\* Reducing a row restores the bound: (a * B + P - 1 + (B - 1) * P) / B.
LEMMA ReduceRowKeeps ==
  ASSUME IInv, ReduceRow \/ ReduceRowX
  PROVE  IInv'
<1> USE Constants DEF IInv, TypeOK
<1>1. /\ a \in Nat /\ a <= R - 1 /\ b \in Nat /\ acc \in Nat /\ i \in 0..3 /\ routine \in Muls
      /\ pc = "reduce" /\ pc' = "row" /\ i' = i + 1
      /\ UNCHANGED <<routine, a, b, reg, borrowed>>
  BY DEF ReduceRow, ReduceRowX, Muls, Rows
<1>2. /\ acc < (a * B) + P
      /\ acc * Weight[i + 1] <= (a * (b % Weight[i + 2])) + (P * (Weight[i + 1] - 1))
      /\ Multiple((acc * Weight[i + 1]) - (a * (b % Weight[i + 2])))
  BY <1>1 DEF Rows
<1> DEFINE m == M
<1>3. m \in 0..B - 1 /\ m = (Limb(acc, 0) * K) % B
  <2>1. Limb(acc, 0) \in 0..B - 1
    BY <1>1, LimbAbove
  <2>2. QED
    BY <2>1, FactorClears DEF M
<1> HIDE DEF m
<1>4. a < R
  BY <1>1
<1>5. acc + (m * P) < AccSize /\ \A y \in Nat : B * y = acc + (m * P) => y < a + P
  BY <1>1, <1>2, <1>3, <1>4, RowBound
<1>6. PICK y \in Nat :
        /\ B * y = acc + (m * P)
        /\ y = ((acc + (m * R) - (m * C)) % AccSize) \div B
        /\ y = ((acc \div B) + (m * (R \div B)) - ((m * C) \div B)) % (AccSize \div B)
  BY <1>1, <1>3, <1>5, RowReduced
<1>7. acc' = y
  BY <1>6 DEF ReduceRow, ReduceRowX, m
<1>8. y < a + P
  BY <1>5, <1>6
<1>9. /\ Multiple((y * Weight[i + 2]) - (a * (b % Weight[i + 2])))
      /\ y * Weight[i + 2] <= (a * (b % Weight[i + 2])) + (P * (Weight[i + 2] - 1))
  <2> DEFINE w == Weight[i + 1]
             s == a * (b % Weight[i + 2])
  <2>1. w \in Nat /\ Weight[i + 2] = w * B /\ Weight[i + 2] \in Nat /\ Weight[i + 2] > 0
    BY <1>1, Weights
  <2>2. s \in Int
    <3>1. b % Weight[i + 2] \in Int
      BY <1>1, <2>1, DivMod
    <3>2. QED
      BY <1>1, <3>1
  <2>3. Multiple((acc * w) - s) /\ acc * w <= s + (P * (w - 1))
    BY <1>2
  <2> HIDE DEF w, s
  <2>4. m \in 0..B - 1 /\ acc \in Nat /\ B * y = acc + (m * P)
    BY <1>1, <1>3, <1>6
  <2>5. Multiple((y * (w * B)) - s) /\ y * (w * B) <= s + (P * ((w * B) - 1))
    BY <2>1, <2>2, <2>3, <2>4, RowDivided, Zenon
  <2>6. QED
    BY <2>1, <2>5 DEF s
<1>10. Rows'
  BY <1>1, <1>7, <1>8, <1>9 DEF Rows
<1>11. y \in 0..AccSize - 1
  <2>1. a + P < AccSize
    <3>1. a + P < 2 * R /\ R * B >= 2 * R /\ R * B * B >= R * B
      BY <1>1
    <3>2. QED
      BY <1>1, <3>1 DEF AccSize
  <2>2. AccSize \in Int
    BY DEF AccSize
  <2>3. QED
    BY <1>1, <1>6, <1>8, <2>1, <2>2
<1>12. TypeOK'
  BY <1>1, <1>7, <1>11
<1>13. Steps' /\ Result'
  BY <1>1 DEF Steps, Result
<1>14. QED
  BY <1>10, <1>12, <1>13

\* A number below twice P is reduced by one subtraction.
LEMMA SubtractedOnce ==
  ASSUME NEW x \in Nat, x < P + P
  PROVE  SubtractOnce(x) \in 0..P - 1 /\ (SubtractOnce(x) = x \/ SubtractOnce(x) = x - P)
<1>1. CASE x < P
  <2>1. x % R = x
    BY <1>1, ModSmall, Constants
  <2>2. QED
    BY <1>1, <2>1, Constants DEF SubtractOnce
<1>2. CASE ~(x < P)
  <2>1. x - P \in Nat /\ x - P < P
    BY <1>2, Constants
  <2>2. (x - P) % R = x - P
    BY <2>1, ModSmall, Constants
  <2>3. QED
    BY <1>2, <2>1, <2>2, Constants DEF SubtractOnce
<1>3. QED
  BY <1>1, <1>2

\* Replacing x by what remains after the subtraction changes x * R by a
\* multiple of P.
LEMMA SubtractionUnseen ==
  ASSUME NEW x \in Nat, NEW y \in Int, y = x \/ y = x - P, NEW z \in Int
  PROVE  Multiple((y * R) - z) <=> Multiple((x * R) - z)
<1>1. y \in Int /\ (y * R) - z \in Int /\ (x * R) - z \in Int
  BY Constants
<1>2. Multiple(P * R) /\ P * R \in Int
  BY Constants DEF Multiple
<1>3. CASE y = x - P
  <2>1. (x * R) - z = ((y * R) - z) + (P * R) /\ (y * R) - z = ((x * R) - z) - (P * R)
    BY <1>3, Constants
  <2>2. QED
    BY <1>1, <1>2, <2>1, MultipleSum
<1>4. QED
  BY <1>3

\* If one of the factors is reduced, what the last row leaves is below 2 * P.
LEMMA LastRow ==
  ASSUME NEW x \in Nat, NEW y \in 0..R - 1, NEW z \in 0..R - 1, y < P \/ z < P,
         x * R <= (y * z) + (P * (R - 1))
  PROVE  x < P + P
<1>1. y * z <= (P * R) - R
  <2>1. CASE y < P
    <3>1. (P - 1 - y) * R >= 0 /\ y * (R - z) >= 0
      BY <2>1, Constants
    <3>2. (P - 1 - y) * R = (P * R) - R - (y * R) /\ y * (R - z) = (y * R) - (y * z)
      BY Constants
    <3> DEFINE PR == P * R
               yR == y * R
               yz == y * z
    <3>3. PR \in Int /\ yR \in Int /\ yz \in Int
      BY Constants
    <3> HIDE DEF PR, yR, yz
    <3>4. yz <= PR - R
      BY <3>1, <3>2, <3>3, Constants DEF PR, yR, yz
    <3>5. QED
      BY <3>4 DEF PR, yz
  <2>2. CASE z < P
    <3>1. (P - 1 - z) * R >= 0 /\ z * (R - y) >= 0
      BY <2>2, Constants
    <3>2. (P - 1 - z) * R = (P * R) - R - (z * R) /\ z * (R - y) = (z * R) - (y * z)
      BY Constants
    <3> DEFINE PR == P * R
               zR == z * R
               yz == y * z
    <3>3. PR \in Int /\ zR \in Int /\ yz \in Int
      BY Constants
    <3> HIDE DEF PR, zR, yz
    <3>4. yz <= PR - R
      BY <3>1, <3>2, <3>3, Constants DEF PR, zR, yz
    <3>5. QED
      BY <3>4 DEF PR, yz
  <2>3. QED
    BY <2>1, <2>2
<1>2. R * ((P + P) - x) = ((P * R) + (P * R)) - (x * R) /\ P * (R - 1) = (P * R) - P
  BY Constants
<1> DEFINE PR == P * R
           yz == y * z
           xR == x * R
<1>3. PR \in Int /\ yz \in Int /\ xR \in Int /\ yz <= PR - R /\ xR <= yz + (PR - P)
  BY <1>1, <1>2, Constants
<1>4. R * ((P + P) - x) = (PR + PR) - xR
  BY <1>2
<1> HIDE DEF PR, yz, xR
<1>5. R * ((P + P) - x) > 0
  BY <1>3, <1>4, Constants
<1>6. QED
  BY <1>5, Constants

\* After four rows the last subtraction leaves the product.
LEMMA SubtractPKeeps ==
  ASSUME IInv, SubtractP
  PROVE  IInv'
<1> USE Constants DEF IInv, TypeOK
<1>1. /\ a \in 0..R - 1 /\ b \in 0..R - 1 /\ acc \in Nat /\ i = 4 /\ routine \in Muls
      /\ pc = "row" /\ pc' = "done" /\ acc' = SubtractOnce(acc)
      /\ UNCHANGED <<routine, a, b, reg, i, borrowed>>
  BY DEF SubtractP, Steps
<1>2. /\ a < P \/ b < P
      /\ acc < P + P /\ borrowed = 0 /\ Multiple((acc * R) - (a * b))
  <2>1. Weight[5] = R /\ b % R = b
    BY <1>1, ModSmall DEF Weight
  <2>2. QED
    BY <1>1, <2>1, LastRow DEF Rows
<1>3. acc' \in 0..P - 1 /\ (acc' = acc \/ acc' = acc - P)
  BY <1>1, <1>2, SubtractedOnce
<1>4. Multiple((acc' * R) - (a * b))
  <2>1. a * b \in Int
    BY <1>1
  <2> DEFINE z == a * b
  <2> HIDE DEF z
  <2>2. Multiple((acc * R) - z) /\ z \in Int
    BY <1>2, <2>1 DEF z
  <2>3. acc' \in Int
    BY <1>3
  <2>4. Multiple((acc' * R) - z)
    BY <1>1, <1>3, <2>2, <2>3, SubtractionUnseen
  <2>5. QED
    BY <2>4 DEF z
<1>5. Operand' = a * b
  BY <1>1 DEF Operand
<1>6. R <= AccSize
  <2>1. R * B >= R /\ (R * B) * B >= R * B
    OBVIOUS
  <2>2. QED
    BY <2>1 DEF AccSize
<1>7. TypeOK'
  BY <1>1, <1>3, <1>6 DEF AccSize
<1>8. Rows' /\ Steps' /\ Result'
  BY <1>1, <1>2, <1>3, <1>4, <1>5 DEF Rows, Steps, Result
<1>9. QED
  BY <1>7, <1>8

\* A step divides by B and adds its own error to those before.
LEMMA StepDivided ==
  ASSUME NEW u \in Int, NEW v \in Int, NEW m \in Int, NEW w \in Int, NEW weight \in Nat,
         NEW rest \in Int, NEW e \in Int,
         B * v = u + (m * P) + (B * (((B * B) - 1) * w)), Multiple(((u * weight) - rest) - e)
  PROVE  Multiple(((v * (weight * B)) - rest) - (e + ((weight * B) * (((B * B) - 1) * w))))
<1> DEFINE x == ((B * B) - 1) * w
<1>1. x \in Int /\ B * v = u + (m * P) + (B * x)
  BY Constants
<1> HIDE DEF x
<1>2. v * (weight * B) = (u * weight) + (P * (m * weight)) + ((weight * B) * x)
  <2>1. v * (weight * B) = (B * v) * weight
    BY Constants
  <2>2. (u + (m * P) + (B * x)) * weight = (u * weight) + (P * (m * weight)) + ((weight * B) * x)
    BY <1>1, Constants
  <2>3. QED
    BY <1>1, <2>1, <2>2
<1>3. Multiple(P * (m * weight)) /\ P * (m * weight) \in Int
  BY Constants DEF Multiple
<1> DEFINE y == u * weight
           z == (weight * B) * x
           t == P * (m * weight)
<1>4. y \in Int /\ z \in Int /\ t \in Int
  BY <1>1, Constants
<1>5. v * (weight * B) = y + t + z
  BY <1>2
<1> HIDE DEF y, z, t
<1>6. ((v * (weight * B)) - rest) - (e + z) = ((y - rest) - e) + t
  BY <1>4, <1>5
<1>7. Multiple((y - rest) - e) /\ Multiple(t)
  BY <1>3 DEF y, t
<1>8. Multiple(((y - rest) - e) + t)
  BY <1>4, <1>7, MultipleSum
<1>9. QED
  BY <1>6, <1>8 DEF z, x

\* The error of a step is the next of them.
LEMMA ErrorsAdd ==
  ASSUME NEW w2 \in Int, NEW w3 \in Int, NEW w4 \in Int, NEW w \in Int
  PROVE  /\ Errors(w2, w3, w4) \in Int
         /\ Errors(0, 0, 0) + ((Weight[2] * B) * (((B * B) - 1) * w)) = Errors(w, 0, 0)
         /\ Errors(w2, 0, 0) + ((Weight[3] * B) * (((B * B) - 1) * w)) = Errors(w2, w, 0)
         /\ Errors(w2, w3, 0) + ((Weight[4] * B) * (((B * B) - 1) * w)) = Errors(w2, w3, w)
<1> USE Constants
<1>1. Weight[2] = B /\ Weight[3] = B * B /\ Weight[4] = B * B * B
  BY DEF Weight
<1>2. Errors(w2, w3, w4) \in Int
  BY DEF Errors
<1>3. Errors(0, 0, 0) + ((B * B) * (((B * B) - 1) * w)) = Errors(w, 0, 0)
  BY DEF Errors
<1>4. Errors(w2, 0, 0) + (((B * B) * B) * (((B * B) - 1) * w)) = Errors(w2, w, 0)
  BY DEF Errors
<1>5. Errors(w2, w3, 0) + (((B * B * B) * B) * (((B * B) - 1) * w)) = Errors(w2, w3, w)
  BY DEF Errors
<1>6. QED
  BY <1>1, <1>2, <1>3, <1>4, <1>5

\* A reduction step keeps the account of errors.
LEMMA ReduceStepKeeps ==
  ASSUME IInv, ReduceStep
  PROVE  IInv'
<1> USE DEF IInv, TypeOK
<1>1. /\ reg \in Registers /\ i \in 0..3 /\ routine \notin Muls /\ acc \in Nat /\ borrowed \in 0..3
      /\ pc = "reduce" /\ pc' = "reduce" /\ i' = i + 1
      /\ UNCHANGED <<routine, a, b, acc>>
  BY DEF ReduceStep, Registers
<1> DEFINE c == Chain(routine, i + 1)
<1>2. reg' = Reduced(reg, c)
      /\ borrowed' = borrowed + (IF c # ChainX[i + 1] /\ Middle(reg, c) < 0 THEN 1 ELSE 0)
  BY DEF ReduceStep
<1> HIDE DEF c
<1>3. /\ reg' \in Registers
      /\ \E w \in Slips, m \in Int :
           /\ w = 0 <=> ~(c # ChainX[i + 1] /\ Middle(reg, c) < 0)
           /\ i = 0 => w = 0
           /\ B * ValueFrom(reg', i + 1) = ValueFrom(reg, i) + (m * P) + (B * (((B * B) - 1) * w))
  BY <1>1, <1>2, StepReduces DEF c
<1>4. PICK w \in Slips, m \in Int :
        /\ w = 0 <=> ~(c # ChainX[i + 1] /\ Middle(reg, c) < 0)
        /\ i = 0 => w = 0
        /\ B * ValueFrom(reg', i + 1) = ValueFrom(reg, i) + (m * P) + (B * (((B * B) - 1) * w))
  BY <1>3
<1>5. /\ acc <= R - (2 * C) - 2 /\ borrowed <= (IF i = 0 THEN 0 ELSE i - 1)
      /\ \E w2, w3, w4 \in Slips : Reduction(w2, w3, w4)
  BY <1>1 DEF Steps
<1>6. PICK w2, w3, w4 \in Slips : Reduction(w2, w3, w4)
  BY <1>5
<1> DEFINE rest == Operand - (acc * R)
<1>7. rest \in Int /\ rest' = rest
  BY <1>1, OperandNat, Constants DEF Operand
<1>8. w \in Int /\ w2 \in Int /\ w3 \in Int /\ w4 \in Int
  BY Constants DEF Slips
<1>9. Multiple(((ValueFrom(reg', i + 1) * Weight[i + 2]) - rest)
                 - (Errors(w2, w3, w4) + (Weight[i + 2] * (((B * B) - 1) * w))))
  <2>1. Multiple(((ValueFrom(reg, i) * Weight[i + 1]) - rest) - Errors(w2, w3, w4))
    BY <1>6 DEF Reduction
  <2>2. Weight[i + 1] \in Nat /\ Weight[i + 2] = Weight[i + 1] * B
    BY <1>1, Weights
  <2>3. ValueFrom(reg, i) \in Int /\ ValueFrom(reg', i + 1) \in Int
    BY <1>1, <1>3, Constants DEF ValueFrom, Four, Registers
  <2>4. Errors(w2, w3, w4) \in Int
    BY <1>8, ErrorsAdd
  <2> HIDE DEF rest
  <2>5. QED
    BY <1>4, <1>7, <1>8, <2>1, <2>2, <2>3, <2>4, StepDivided, ZenonT(60)
<1>10. \E v2, v3, v4 \in Slips : Reduction(v2, v3, v4)'
  <2>0. 0 \in Slips
    BY DEF Slips
  <2>1. CASE i = 0
    <3>1. w = 0 /\ w2 = 0 /\ w3 = 0 /\ w4 = 0
      BY <1>4, <1>6, <2>1 DEF Reduction
    <3>2. Weight[2] * (((B * B) - 1) * 0) = 0 /\ Weight[2] \in Nat
      BY Weights, Constants DEF Weight
    <3>3. Errors(0, 0, 0) \in Int
      BY ErrorsAdd
    <3>4. Multiple(((ValueFrom(reg', 1) * Weight[2]) - rest) - Errors(0, 0, 0))
      BY <1>9, <2>1, <3>1, <3>2, <3>3
    <3>5. Reduction(0, 0, 0)'
      BY <1>1, <1>2, <1>4, <1>6, <1>7, <2>1, <3>1, <3>4 DEF Reduction
    <3>6. QED
      BY <2>0, <3>5
  <2>2. CASE i = 1
    <3>1. w2 = 0 /\ w3 = 0 /\ w4 = 0 /\ Weight[3] = Weight[2] * B
      BY <1>6, <2>2, Constants DEF Reduction, Weight
    <3>2. Multiple(((ValueFrom(reg', 2) * Weight[3]) - rest) - Errors(w, 0, 0))
      <4>1. Errors(0, 0, 0) + ((Weight[2] * B) * (((B * B) - 1) * w)) = Errors(w, 0, 0)
        BY <1>8, ErrorsAdd
      <4>2. QED
        BY <1>9, <2>2, <3>1, <4>1
    <3>3. Reduction(w, 0, 0)'
      BY <1>1, <1>2, <1>4, <1>6, <1>7, <2>2, <3>1, <3>2 DEF Reduction
    <3>4. QED
      BY <2>0, <3>3
  <2>3. CASE i = 2
    <3>1. w3 = 0 /\ w4 = 0 /\ Weight[4] = Weight[3] * B
      BY <1>6, <2>3, Constants DEF Reduction, Weight
    <3>2. Multiple(((ValueFrom(reg', 3) * Weight[4]) - rest) - Errors(w2, w, 0))
      <4>1. Errors(w2, 0, 0) + ((Weight[3] * B) * (((B * B) - 1) * w)) = Errors(w2, w, 0)
        BY <1>8, ErrorsAdd
      <4>2. QED
        BY <1>9, <2>3, <3>1, <4>1
    <3>3. Reduction(w2, w, 0)'
      BY <1>1, <1>2, <1>4, <1>6, <1>7, <2>3, <3>1, <3>2 DEF Reduction
    <3>4. QED
      BY <2>0, <3>3
  <2>4. CASE i = 3
    <3>1. w4 = 0 /\ Weight[5] = Weight[4] * B
      BY <1>6, <2>4, Constants DEF Reduction, Weight, R
    <3>2. Multiple(((ValueFrom(reg', 4) * Weight[5]) - rest) - Errors(w2, w3, w))
      <4>1. Errors(w2, w3, 0) + ((Weight[4] * B) * (((B * B) - 1) * w)) = Errors(w2, w3, w)
        BY <1>8, ErrorsAdd
      <4>2. QED
        BY <1>9, <2>4, <3>1, <4>1
    <3>3. Reduction(w2, w3, w)'
      BY <1>1, <1>2, <1>4, <1>6, <1>7, <2>4, <3>1, <3>2 DEF Reduction
    <3>4. QED
      BY <3>3
  <2>5. QED
    BY <1>1, <2>1, <2>2, <2>3, <2>4
<1>11. Steps'
  BY <1>1, <1>2, <1>4, <1>5, <1>10 DEF Steps
<1>12. TypeOK'
  BY <1>1, <1>2, <1>3, <1>5 DEF Registers
<1>13. Rows' /\ Result'
  BY <1>1 DEF Rows, Result
<1>14. QED
  BY <1>11, <1>12, <1>13

\* The registers hold the last number in the order of the first.
LEMMA ValueOfRegisters ==
  ASSUME NEW r \in Registers
  PROVE  Value(r) = ValueFrom(r, 4) /\ Value(r) = ValueFrom(r, 0) /\ Value(r) \in 0..R - 1
<1>1. r[0] \in 0..B - 1 /\ r[1] \in 0..B - 1 /\ r[2] \in 0..B - 1 /\ r[3] \in 0..B - 1
  BY DEF Registers
<1>2. Value(r) = Four(r[0], r[1], r[2], r[3])
  BY DEF Value, Four
<1>3. ValueFrom(r, 4) = Four(r[0], r[1], r[2], r[3]) /\ ValueFrom(r, 0) = Four(r[0], r[1], r[2], r[3])
  BY DEF ValueFrom
<1>4. Four(r[0], r[1], r[2], r[3]) \in 0..R - 1
  <2>1. ASSUME NEW x \in Nat, NEW n \in Nat, x < n, NEW d \in 0..B - 1
        PROVE  d + (B * x) \in Nat /\ d + (B * x) < B * n
    <3>1. B * (n - 1 - x) >= 0
      BY <2>1, Constants
    <3>2. QED
      BY <2>1, <3>1, Constants
  <2> DEFINE x3 == r[3]
             x2 == r[2] + (B * x3)
             x1 == r[1] + (B * x2)
             x0 == r[0] + (B * x1)
  <2>2. x3 \in Nat /\ x3 < B
    BY <1>1, Constants
  <2> HIDE DEF x3
  <2>3. x2 \in Nat /\ x2 < B * B
    BY <1>1, <2>1, <2>2, Constants
  <2> HIDE DEF x2
  <2>4. x1 \in Nat /\ x1 < B * (B * B) /\ B * B \in Nat
    BY <1>1, <2>1, <2>3, Constants
  <2> HIDE DEF x1
  <2>5. x0 \in Nat /\ x0 < B * (B * (B * B)) /\ B * (B * B) \in Nat
    BY <1>1, <2>1, <2>4, Constants
  <2>6. R = B * (B * (B * B))
    BY Constants DEF R
  <2> HIDE DEF R
  <2>7. QED
    BY <2>5, <2>6, Constants DEF Four, x0, x1, x2, x3
<1>5. QED
  BY <1>2, <1>3, <1>4

\* The result is off by the errors, and they do not add up to a multiple of P.
LEMMA AddUpperHalfKeeps ==
  ASSUME IInv, AddUpperHalf
  PROVE  IInv'
<1> USE DEF IInv, TypeOK
<1>1. /\ reg \in Registers /\ i = 4 /\ routine \notin Muls /\ acc \in Nat
      /\ pc = "reduce" /\ pc' = "done" /\ acc' = SubtractOnce(acc + Value(reg))
      /\ UNCHANGED <<routine, a, b, reg, i, borrowed>>
  BY DEF AddUpperHalf, Registers
<1>2. /\ acc <= R - (2 * C) - 2
      /\ \E w2, w3, w4 \in Slips : Reduction(w2, w3, w4)
  BY <1>1 DEF Steps
<1>3. PICK w2, w3, w4 \in Slips : Reduction(w2, w3, w4)
  BY <1>2
<1> DEFINE v == Value(reg)
           rest == Operand - (acc * R)
<1>4. v \in Nat /\ v < R /\ v = ValueFrom(reg, 4)
  BY <1>1, ValueOfRegisters, Constants
<1>5. Operand \in Nat /\ Operand' = Operand
  BY <1>1, OperandNat DEF Operand
<1> HIDE DEF v
<1>6. acc' \in 0..P - 1 /\ (acc' = acc + v \/ acc' = (acc + v) - P)
  <2>1. acc + v \in Nat /\ acc + v < P + P
    BY <1>1, <1>2, <1>4, Constants
  <2>2. QED
    BY <1>1, <2>1, SubtractedOnce DEF v
<1>7. Multiple((acc' * R) - Operand) <=> Multiple(((acc + v) * R) - Operand)
  <2>1. acc + v \in Nat /\ acc' \in Int
    BY <1>1, <1>4, <1>6
  <2>2. QED
    BY <1>5, <1>6, <2>1, SubtractionUnseen
<1>8. ((acc + v) * R) - Operand = (v * R) - rest /\ (v * R) - rest \in Int
  BY <1>1, <1>4, <1>5, Constants
<1> DEFINE x == (v * R) - rest
           e == Errors(w2, w3, w4)
<1>9. Multiple(x - e)
  <2>1. Weight[5] = R
    BY DEF Weight
  <2>2. QED
    BY <1>1, <1>3, <1>4, <2>1 DEF Reduction
<1>10. x \in Int /\ e \in Int /\ w2 \in Int /\ w3 \in Int /\ w4 \in Int
  BY <1>8, ErrorsAdd, Constants DEF Slips
<1>11. borrowed = 0 <=> (w2 = 0 /\ w3 = 0 /\ w4 = 0)
  BY <1>3 DEF Reduction
<1>12. ASSUME borrowed = 0 PROVE Multiple(x)
  <2>1. e = 0
    BY <1>11, <1>12, Constants DEF Errors
  <2>2. QED
    BY <1>9, <1>10, <2>1
<1>13. ASSUME Multiple(x) PROVE borrowed = 0
  <2> DEFINE y == ((B * B) - 1) * (w2 + (B * w3) + (B * B * w4))
  <2>1. y \in Int /\ e = B * (B * y)
    BY <1>10, Constants DEF Errors
  <2> HIDE DEF x, e, y
  <2>2. x - (x - e) = e /\ x - e \in Int
    BY <1>10
  <2>3. Multiple(e)
    BY <1>9, <1>10, <1>13, <2>2, MultipleSum
  <2>4. Multiple(B * y)
    BY <2>1, <2>3, MultipleOfLimb, Constants
  <2>5. Multiple(y)
    BY <2>1, <2>4, MultipleOfLimb
  <2>6. w2 = 0 /\ w3 = 0 /\ w4 = 0
    BY <2>5, NoCancelling DEF y
  <2>7. QED
    BY <1>11, <2>6
<1>14. Result'
  BY <1>1, <1>5, <1>6, <1>7, <1>8, <1>12, <1>13, Constants DEF Result
<1>15. R <= AccSize
  <2>1. R * B >= R /\ (R * B) * B >= R * B
    BY Constants
  <2>2. QED
    BY <2>1, Constants DEF AccSize
<1>16. TypeOK'
  BY <1>1, <1>6, <1>15, Constants DEF AccSize
<1>17. Rows' /\ Steps'
  BY <1>1 DEF Rows, Steps
<1>18. QED
  BY <1>14, <1>16, <1>17

\* The four limbs of a number make it up.
LEMMA LimbsValue ==
  ASSUME NEW x \in 0..R - 1
  PROVE  Limbs(x) \in Registers /\ ValueFrom(Limbs(x), 0) = x
<1> DEFINE l0 == Limb(x, 0)
           l1 == Limb(x, 1)
           l2 == Limb(x, 2)
           l3 == Limb(x, 3)
<1>1. x \in Nat /\ x < R
  BY Constants
<1>2. l0 \in 0..B - 1 /\ l1 \in 0..B - 1 /\ l2 \in 0..B - 1 /\ l3 \in 0..B - 1
  BY <1>1, LimbAbove
<1>3. Limbs(x) \in Registers
  BY <1>1, LimbAbove DEF Limbs, Registers
<1>4. ValueFrom(Limbs(x), 0) = Four(l0, l1, l2, l3)
  BY DEF ValueFrom, Limbs
<1>5. /\ x % Weight[2] = (x % Weight[1]) + (Weight[1] * l0)
      /\ x % Weight[3] = (x % Weight[2]) + (Weight[2] * l1)
      /\ x % Weight[4] = (x % Weight[3]) + (Weight[3] * l2)
      /\ x % Weight[5] = (x % Weight[4]) + (Weight[4] * l3)
  BY <1>1, LimbAbove
<1>6. /\ x % Weight[1] = 0 /\ x % Weight[5] = x
      /\ Weight[1] = 1 /\ Weight[2] = B /\ Weight[3] = B * B /\ Weight[4] = B * B * B
  BY <1>1, ModSmall, Constants DEF Weight
<1> HIDE DEF l0, l1, l2, l3
<1>7. x = ((l0 + (B * l1)) + ((B * B) * l2)) + ((B * B * B) * l3)
  BY <1>2, <1>5, <1>6, Constants
<1>8. QED
  BY <1>2, <1>3, <1>4, <1>7, Constants DEF Four

\* The upper half of a square leaves room for the lower one below 2 * P.
LEMMA UpperHalf ==
  ASSUME NEW x \in 0..P - 1
  PROVE  /\ (x * x) \div R \in Nat /\ (x * x) % R \in 0..R - 1
         /\ (x * x) - (((x * x) \div R) * R) = (x * x) % R
         /\ (x * x) \div R <= R - (2 * C) - 2
<1> DEFINE q == (x * x) \div R
           l == (x * x) % R
<1>1. x * x \in Nat
  OBVIOUS
<1>2. q \in Int /\ l \in 0..R - 1 /\ x * x = (R * q) + l
  BY <1>1, DivMod, Constants
<1> HIDE DEF q, l
<1>3. x * x < R * (R - (2 * C) - 1)
  <2> DEFINE d == C + 1
             n == R - d
  <2>1. x <= n /\ n \in Nat
    BY Constants
  <2>2. x * x <= n * n
    <3>1. (n - x) * x >= 0 /\ (n - x) * n >= 0
      BY <2>1
    <3> HIDE DEF n
    <3>2. QED
      BY <2>1, <3>1
  <2>3. d * d < R
    <3>1. d * d <= B * B
      <4>1. (B - d) * d >= 0 /\ (B - d) * B >= 0
        BY Constants
      <4>2. QED
        BY <4>1, Constants
    <3>2. B * B < R
      <4>1. PICK B2, B3 \in Nat : B2 = B * B /\ B2 >= 3 * B /\ B3 >= 3 * B2 /\ R >= 3 * B3
        BY Monomials
      <4>2. QED
        BY <4>1, Constants
    <3>3. QED
      BY <3>1, <3>2, Constants
  <2>4. n * n = (R * (R - (2 * C) - 2)) + (d * d)
    BY Constants
  <2>5. R * (R - (2 * C) - 2) + R = R * (R - (2 * C) - 1)
    BY Constants
  <2> DEFINE nn == n * n
             dd == d * d
             u == R * (R - (2 * C) - 2)
  <2>6. nn \in Int /\ dd \in Int /\ u \in Int
    BY <2>1, Constants
  <2> HIDE DEF nn, dd, u
  <2>7. x * x <= nn /\ nn = u + dd /\ dd < R
    BY <2>2, <2>3, <2>4 DEF nn, dd, u
  <2>8. x * x < u + R
    BY <1>1, <2>6, <2>7, Constants
  <2>9. QED
    BY <2>5, <2>8 DEF u
<1>4. q <= R - (2 * C) - 2
  <2>1. R * ((R - (2 * C) - 1) - q) > 0
    BY <1>1, <1>2, <1>3, Constants
  <2>2. (R - (2 * C) - 1) - q > 0
    BY <1>2, <2>1, Constants
  <2>3. QED
    BY <1>2, <2>2, Constants
<1>5. q \in Nat
  <2>1. R * (q + 1) > 0
    BY <1>1, <1>2, Constants
  <2>2. QED
    BY <1>2, <2>1, Constants
<1>6. (x * x) - (q * R) = l
  BY <1>1, <1>2, Constants
<1>7. QED
  BY <1>2, <1>4, <1>5, <1>6 DEF q, l

\* The invariant holds at the start.
LEMMA InitHolds == Init => IInv
<1> SUFFICES ASSUME Init PROVE IInv
  OBVIOUS
<1> USE Constants DEF Init
<1>1. a \in 0..R - 1 /\ b \in 0..R - 1 /\ routine \in Routines /\ i = 0 /\ borrowed = 0
  OBVIOUS
<1>2. CASE routine \in Muls
  <2>1. acc = 0 /\ pc = "row" /\ reg = Limbs(0)
    <3>1. 0 % R = 0
      BY ModSmall
    <3>2. routine \notin {"sqr_montq", "sqr_montx"}
      BY <1>2 DEF Muls
    <3>3. QED
      BY <1>2, <3>1, <3>2
  <2>2. reg \in Registers
    BY <2>1, LimbsValue
  <2>3. Multiple((0 * Weight[1]) - (a * (b % Weight[1])))
    <3>1. b % 1 = 0 /\ Weight[1] = 1
      BY <1>1 DEF Weight
    <3>2. (0 * Weight[1]) - (a * (b % Weight[1])) = 0
      BY <1>1, <3>1
    <3>3. QED
      BY <3>2, MultipleZero
  <2>4. 0 * Weight[1] <= (a * (b % Weight[1])) + (P * (Weight[1] - 1))
    <3>1. b % 1 = 0 /\ Weight[1] = 1
      BY <1>1 DEF Weight
    <3>2. QED
      BY <1>1, <3>1
  <2>5. Rows /\ Steps /\ Result
    BY <1>1, <1>2, <2>1, <2>3, <2>4 DEF Rows, Steps, Result, Admitted
  <2>6. AccSize - 1 \in Nat
    BY DEF AccSize
  <2>7. TypeOK
    BY <1>1, <2>1, <2>2, <2>6 DEF TypeOK, Registers
  <2>8. QED
    BY <2>5, <2>7 DEF IInv
<1>3. CASE routine \notin Muls
  <2>1. b = 0 /\ a < P /\ pc = "reduce" /\ reg = Limbs(Operand % R)
    BY <1>3 DEF Admitted
  <2>2. /\ Operand - (acc * R) = Operand % R /\ Operand % R \in 0..R - 1
        /\ acc \in Nat /\ acc <= R - (2 * C) - 2
    <3>1. CASE routine = "from_mont"
      <4>1. Operand = a /\ acc = 0 /\ a % R = a
        BY <1>1, <1>3, <2>1, <3>1, ModSmall DEF Operand
      <4>2. R >= (2 * C) + 2
        <5>1. B * B >= 3 * B /\ B * B * B >= B * B /\ R >= B * B * B
          BY Monomials
        <5>2. QED
          BY <5>1
      <4>3. QED
        BY <1>1, <4>1, <4>2
    <3>2. CASE routine # "from_mont"
      <4>1. Operand = a * a /\ acc = (a * a) \div R
        BY <1>1, <1>3, <3>2 DEF Operand, Routines
      <4>2. QED
        BY <1>1, <2>1, <4>1, UpperHalf
    <3>3. QED
      BY <3>1, <3>2
  <2>3. reg \in Registers /\ ValueFrom(reg, 0) = Operand - (acc * R)
    BY <2>1, <2>2, LimbsValue
  <2>4. Reduction(0, 0, 0)
    <3>1. Weight[1] = 1 /\ Errors(0, 0, 0) = 0
      BY DEF Weight, Errors
    <3>2. ValueFrom(reg, 0) \in Int
      BY <2>2, <2>3
    <3>3. ((ValueFrom(reg, 0) * Weight[1]) - (Operand - (acc * R))) - Errors(0, 0, 0) = 0
      BY <2>3, <3>1, <3>2
    <3>4. QED
      BY <1>1, <3>3, MultipleZero DEF Reduction
  <2>5. Rows /\ Steps /\ Result
    BY <1>1, <1>3, <2>1, <2>2, <2>4 DEF Rows, Steps, Result, Slips
  <2>6. R <= AccSize /\ AccSize \in Int
    <3>1. R * B >= R /\ (R * B) * B >= R * B
      OBVIOUS
    <3>2. QED
      BY <3>1 DEF AccSize
  <2>7. TypeOK
    BY <1>1, <2>1, <2>2, <2>3, <2>6 DEF TypeOK, Registers
  <2>8. QED
    BY <2>5, <2>7 DEF IInv
<1>4. QED
  BY <1>2, <1>3

\* It is inductive.
LEMMA NextKeeps == IInv /\ [Next]_vars => IInv'
<1> SUFFICES ASSUME IInv, [Next]_vars PROVE IInv'
  OBVIOUS
<1>1. CASE UNCHANGED vars
  BY <1>1 DEF vars, IInv, TypeOK, Rows, Steps, Reduction, Result, Operand
<1>2. QED
  BY <1>1, MultiplyRowKeeps, ReduceRowKeeps, SubtractPKeeps, ReduceStepKeeps, AddUpperHalfKeeps
     DEF Next, Returned

\* It holds in every behaviour.
LEMMA Invariance == Spec => []IInv
  BY InitHolds, NextKeeps, PTL DEF Spec

\* No limb, carry or fifth limb is too large for its register, and one
\* subtraction is enough, whichever operand is not reduced
\* (secp256k1-x86_64.pl:582-584, 841-878, 1282-1301).
THEOREM BoundedHolds == Spec => []Bounded
<1>1. ASSUME IInv, pc = "row" PROVE acc < a + P /\ (i = 4 => acc < P + P)
  <2>1. /\ acc \in Nat /\ a \in 0..R - 1 /\ b \in 0..R - 1
        /\ a < P \/ b < P
        /\ acc < a + P
        /\ acc * Weight[i + 1] <= (a * (b % Weight[i + 1])) + (P * (Weight[i + 1] - 1))
    BY <1>1 DEF IInv, Rows, Steps, TypeOK
  <2>2. ASSUME i = 4 PROVE acc < P + P
    <3>1. Weight[5] = R /\ b % R = b
      BY <2>1, ModSmall, Constants DEF Weight
    <3>2. QED
      BY <2>1, <2>2, <3>1, LastRow
  <2>3. QED
    BY <2>1, <2>2
<1>2. IInv => Bounded
  BY <1>1 DEF IInv, Bounded
<1>3. QED
  BY <1>2, Invariance, PTL

\* Between the rows of a multiplication the accumulator is the partial product,
\* modulo P (secp256k1-x86_64.pl:654-856, 1135-1281).
THEOREM PartialProductHolds == Spec => []PartialProduct
<1>1. ASSUME IInv PROVE PartialProduct
  <2>1. SUFFICES ASSUME pc = "row", i < 4
                 PROVE  ((acc * Pow[i + 1]) - (a * (b % Pow[i + 1]))) % P = 0
    BY DEF PartialProduct
  <2>2. routine \in Muls /\ i \in 0..3 /\ acc \in Nat /\ a \in Nat /\ b \in Nat
    BY <1>1, <2>1, Constants DEF IInv, Steps, TypeOK
  <2> DEFINE w == Weight[i + 1]
  <2>3. w \in Nat /\ w > 0 /\ w = Pow[i + 1]
    BY <2>2, Weights
  <2>4. Multiple((acc * w) - (a * (b % w)))
    BY <1>1, <2>1, <2>2 DEF IInv, Rows
  <2> HIDE DEF w
  <2>5. (acc * w) - (a * (b % w)) \in Int
    BY <2>2, <2>3, DivMod
  <2>6. ((acc * w) - (a * (b % w))) % P = 0
    BY <2>4, <2>5, MultipleMod
  <2>7. QED
    BY <2>3, <2>6
<1>2. QED
  BY <1>1, Invariance, PTL

\* Every routine returns a reduced number, misplaced borrows or not
\* (secp256k1-x86_64.pl:859-881, 1083-1111, 1410-1440).
THEOREM ResultReducedHolds == Spec => []ResultReduced
<1>1. IInv => ResultReduced
  BY DEF IInv, Result, ResultReduced
<1>2. QED
  BY <1>1, Invariance, PTL

\* mul_mont, to_mont and the ADX square are right for every operand, and the
\* square without ADX and from_mont for exactly the operands in whose reduction
\* no borrow goes to the wrong register: misplaced ones never cancel
\* (secp256k1-x86_64.pl:573-881, 1023-1078, 1362-1408, 1470-1524).
THEOREM RightExactlyUnlessBorrowedHolds == Spec => []RightExactlyUnlessBorrowed
<1>1. ASSUME IInv PROVE RightExactlyUnlessBorrowed
  <2>1. SUFFICES ASSUME pc = "done" PROVE borrowed = 0 <=> ((acc * R) - Operand) % P = 0
    BY DEF RightExactlyUnlessBorrowed
  <2>2. borrowed = 0 <=> Multiple((acc * R) - Operand)
    BY <1>1, <2>1 DEF IInv, Result
  <2>3. (acc * R) - Operand \in Int
    BY <1>1, OperandNat, Constants DEF IInv, TypeOK, AccSize
  <2>4. QED
    BY <2>2, <2>3, MultipleMod
<1>2. QED
  BY <1>1, Invariance, PTL
=============================================================================
