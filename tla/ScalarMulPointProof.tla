------------------------ MODULE ScalarMulPointProof -------------------------
(***************************************************************************)
(* scalar_mul_point for every width, every scalar and every alignment: the *)
(* accumulator is, at each turn of the loop, the scalar's upper part       *)
(* rounded to the next multiple by the bit below it (Horner's rule for     *)
(* signed windows), unless the first window has lost its digit.            *)
(***************************************************************************)
EXTENDS ScalarMulPoint, TLAPS

\* A window read as a signed digit.
Digit(w) == ((w + 1) \div 2) - 32 * (w \div 32)

\* The scalar without its lowest i bits, plus the highest of those.
Rounded(n, i) == (Shr(n, i - 1) + 1) \div 2

IInv ==
  /\ TypeOK
  /\ InStorage
  /\ pc \in {"first", "loop"} => \A i \in Entries : table[i] = i
  /\ pc = "first" => idx = Bits - 1
  /\ pc = "loop" => /\ idx % 5 = 0 /\ idx <= Bits - 6
                    /\ ~InGap(s) => r = 32 * Rounded(s, idx + 5)
  /\ pc # "done" => ret = "none"
  /\ CorrectOutsideGap

----------------------------------------------------------------------------
(* Arithmetic. *)

\* Halving a quotient doubles the divisor.
LEMMA Halving ==
  ASSUME NEW a \in Nat
  PROVE  /\ (a \div 2) \div 2 = a \div 4
         /\ (a \div 4) \div 2 = a \div 8
         /\ (a \div 8) \div 2 = a \div 16
         /\ (a \div 16) \div 2 = a \div 32
         /\ (a \div 32) \div 2 = a \div 64
         /\ (a \div 64) \div 2 = a \div 128
         /\ (a \div 128) \div 2 = a \div 256
<1>1. (a \div 2) \div 2 = a \div 4
  OBVIOUS
<1>2. (a \div 4) \div 2 = a \div 8
  OBVIOUS
<1>3. (a \div 8) \div 2 = a \div 16
  OBVIOUS
<1>4. (a \div 16) \div 2 = a \div 32
  OBVIOUS
<1>5. (a \div 32) \div 2 = a \div 64
  OBVIOUS
<1>6. (a \div 64) \div 2 = a \div 128
  OBVIOUS
<1>7. (a \div 128) \div 2 = a \div 256
  OBVIOUS
<1>8. QED
  BY <1>1, <1>2, <1>3, <1>4, <1>5, <1>6, <1>7

\* Two neighbouring bytes of a number.
LEMMA TwoBytes ==
  ASSUME NEW a \in Nat
  PROVE  (a % 256) + 256 * ((a \div 256) % 256) = a % 65536
  OBVIOUS

\* Six bits at any offset within a byte lie in two bytes.
LEMMA SixBits ==
  ASSUME NEW a \in Nat
  PROVE  /\ ((a % 65536) \div 1) % 64 = a % 64
         /\ ((a % 65536) \div 2) % 64 = (a \div 2) % 64
         /\ ((a % 65536) \div 4) % 64 = (a \div 4) % 64
         /\ ((a % 65536) \div 8) % 64 = (a \div 8) % 64
         /\ ((a % 65536) \div 16) % 64 = (a \div 16) % 64
         /\ ((a % 65536) \div 32) % 64 = (a \div 32) % 64
         /\ ((a % 65536) \div 64) % 64 = (a \div 64) % 64
         /\ ((a % 65536) \div 128) % 64 = (a \div 128) % 64
<1>1. ((a % 65536) \div 1) % 64 = a % 64
  OBVIOUS
<1>2. ((a % 65536) \div 2) % 64 = (a \div 2) % 64
  OBVIOUS
<1>3. ((a % 65536) \div 4) % 64 = (a \div 4) % 64
  OBVIOUS
<1>4. ((a % 65536) \div 8) % 64 = (a \div 8) % 64
  OBVIOUS
<1>5. ((a % 65536) \div 16) % 64 = (a \div 16) % 64
  OBVIOUS
<1>6. ((a % 65536) \div 32) % 64 = (a \div 32) % 64
  OBVIOUS
<1>7. ((a % 65536) \div 64) % 64 = (a \div 64) % 64
  OBVIOUS
<1>8. ((a % 65536) \div 128) % 64 = (a \div 128) % 64
  OBVIOUS
<1>9. QED
  BY <1>1, <1>2, <1>3, <1>4, <1>5, <1>6, <1>7, <1>8

\* A number whose bits from some place of its first byte on are at most two
\* is less than a byte.
LEMMA TopBits ==
  ASSUME NEW a \in Nat
  PROVE  /\ a \in 0..3 => ((a % 256) \div 1) % 64 = a
         /\ a \div 2 \in 0..3 => ((a % 256) \div 2) % 64 = a \div 2
         /\ a \div 4 \in 0..3 => ((a % 256) \div 4) % 64 = a \div 4
         /\ a \div 8 \in 0..3 => ((a % 256) \div 8) % 64 = a \div 8
         /\ a \div 16 \in 0..3 => ((a % 256) \div 16) % 64 = a \div 16
         /\ a \div 32 \in 0..3 => ((a % 256) \div 32) % 64 = a \div 32
         /\ a \div 64 \in 0..3 => ((a % 256) \div 64) % 64 = a \div 64
<1>1. a \in 0..3 => ((a % 256) \div 1) % 64 = a
  OBVIOUS
<1>2. a \div 2 \in 0..3 => ((a % 256) \div 2) % 64 = a \div 2
  OBVIOUS
<1>3. a \div 4 \in 0..3 => ((a % 256) \div 4) % 64 = a \div 4
  OBVIOUS
<1>4. a \div 8 \in 0..3 => ((a % 256) \div 8) % 64 = a \div 8
  OBVIOUS
<1>5. a \div 16 \in 0..3 => ((a % 256) \div 16) % 64 = a \div 16
  OBVIOUS
<1>6. a \div 32 \in 0..3 => ((a % 256) \div 32) % 64 = a \div 32
  OBVIOUS
<1>7. a \div 64 \in 0..3 => ((a % 256) \div 64) % 64 = a \div 64
  OBVIOUS
<1>8. QED
  BY <1>1, <1>2, <1>3, <1>4, <1>5, <1>6, <1>7

\* A byte and a bit position in it.
LEMMA ByteAndBit ==
  ASSUME NEW j \in Nat
  PROVE  /\ j \div 8 \in Nat /\ j % 8 \in 0..7
         /\ j = 8 * (j \div 8) + (j % 8)
  OBVIOUS

\* Horner's rule: 32 times the rounded upper part, plus the signed digit of
\* the six bits below, is the rounded longer part.
LEMMA Horner ==
  ASSUME NEW u \in Nat
  PROVE  32 * (((u \div 32) + 1) \div 2) + Digit(u % 64) = (u + 1) \div 2
  BY DEF Digit

\* The last window: a zero bit is shifted in below the scalar.
LEMMA HornerEnd ==
  ASSUME NEW n \in Nat
  PROVE  /\ 32 * (((n \div 16) + 1) \div 2) + Digit((2 * n) % 64) = n
         /\ (2 * (n % 256)) % 64 = (2 * n) % 64
  BY DEF Digit

----------------------------------------------------------------------------
(* Shifts and windows. *)

\* One more place is one more halving.
LEMMA ShrStep ==
  ASSUME NEW n \in Scalars, NEW i \in 0..Bits + 16
  PROVE  Shr(n, i) \in Nat /\ Shr(n, i + 1) = Shr(n, i) \div 2
  BY ShrAssumption

\* Shifting by up to eight more places.
LEMMA ShrMore ==
  ASSUME NEW n \in Scalars, NEW i \in 0..Bits + 8
  PROVE  /\ Shr(n, i) \in Nat
         /\ Shr(n, i + 1) = Shr(n, i) \div 2
         /\ Shr(n, i + 2) = Shr(n, i) \div 4
         /\ Shr(n, i + 3) = Shr(n, i) \div 8
         /\ Shr(n, i + 4) = Shr(n, i) \div 16
         /\ Shr(n, i + 5) = Shr(n, i) \div 32
         /\ Shr(n, i + 6) = Shr(n, i) \div 64
         /\ Shr(n, i + 7) = Shr(n, i) \div 128
         /\ Shr(n, i + 8) = Shr(n, i) \div 256
<1>0. Bits \in Nat /\ i \in Nat
  BY BitsAssumption
<1>a. ASSUME NEW k \in 0..7
      PROVE  Shr(n, i + k) \in Nat /\ Shr(n, i + (k + 1)) = Shr(n, i + k) \div 2
  <2>1. i + k \in 0..Bits + 16 /\ (i + k) + 1 = i + (k + 1)
    BY <1>0
  <2>2. QED
    BY <2>1, ShrStep
<1>b. i + 0 = i
  BY <1>0
<1>1. Shr(n, i) \in Nat /\ Shr(n, i + 1) = Shr(n, i) \div 2
  <2>1. Shr(n, i + 0) \in Nat /\ Shr(n, i + (0 + 1)) = Shr(n, i + 0) \div 2
    BY <1>a
  <2>2. QED
    BY <2>1, <1>b
<1>2. Shr(n, i + 2) = Shr(n, i) \div 4
  <2>1. Shr(n, i + (1 + 1)) = Shr(n, i + 1) \div 2
    BY <1>a
  <2>2. QED
    BY <2>1, <1>1, <1>1, Halving
<1>3. Shr(n, i + 3) = Shr(n, i) \div 8
  <2>1. Shr(n, i + (2 + 1)) = Shr(n, i + 2) \div 2
    BY <1>a
  <2>2. QED
    BY <2>1, <1>1, <1>2, Halving
<1>4. Shr(n, i + 4) = Shr(n, i) \div 16
  <2>1. Shr(n, i + (3 + 1)) = Shr(n, i + 3) \div 2
    BY <1>a
  <2>2. QED
    BY <2>1, <1>1, <1>3, Halving
<1>5. Shr(n, i + 5) = Shr(n, i) \div 32
  <2>1. Shr(n, i + (4 + 1)) = Shr(n, i + 4) \div 2
    BY <1>a
  <2>2. QED
    BY <2>1, <1>1, <1>4, Halving
<1>6. Shr(n, i + 6) = Shr(n, i) \div 64
  <2>1. Shr(n, i + (5 + 1)) = Shr(n, i + 5) \div 2
    BY <1>a
  <2>2. QED
    BY <2>1, <1>1, <1>5, Halving
<1>7. Shr(n, i + 7) = Shr(n, i) \div 128
  <2>1. Shr(n, i + (6 + 1)) = Shr(n, i + 6) \div 2
    BY <1>a
  <2>2. QED
    BY <2>1, <1>1, <1>6, Halving
<1>8. Shr(n, i + 8) = Shr(n, i) \div 256
  <2>1. Shr(n, i + (7 + 1)) = Shr(n, i + 7) \div 2
    BY <1>a
  <2>2. QED
    BY <2>1, <1>1, <1>7, Halving
<1>9. QED
  BY <1>1, <1>2, <1>3, <1>4, <1>5, <1>6, <1>7, <1>8

\* Two bytes hold the six bits of any window (secp256k1.c:579-580), here
\* the window at bit m of byte q.
LEMMA WindowAt ==
  ASSUME NEW n \in Scalars, NEW q \in Nat, NEW m \in 0..7, 8 * q \in 0..Bits + 8
  PROVE  /\ Byte(n, q) \in 0..255
         /\ ((Byte(n, q) + 256 * Byte(n, q + 1)) \div Pow2[m + 1]) % 64 = Shr(n, 8 * q + m) % 64
<1> DEFINE lo == Shr(n, 8 * q)
<1>1. lo \in Nat /\ Shr(n, 8 * q + 8) = lo \div 256
  BY ShrMore
<1>2. 8 * (q + 1) = 8 * q + 8 /\ 8 * q + 0 = 8 * q
  OBVIOUS
<1>3. Byte(n, q) = lo % 256 /\ Byte(n, q + 1) = (lo \div 256) % 256
  BY <1>1, <1>2 DEF Byte
<1>4. /\ Shr(n, 8 * q + 1) = lo \div 2
      /\ Shr(n, 8 * q + 2) = lo \div 4
      /\ Shr(n, 8 * q + 3) = lo \div 8
      /\ Shr(n, 8 * q + 4) = lo \div 16
      /\ Shr(n, 8 * q + 5) = lo \div 32
      /\ Shr(n, 8 * q + 6) = lo \div 64
      /\ Shr(n, 8 * q + 7) = lo \div 128
  BY ShrMore
<1>5. Shr(n, 8 * q + 0) = lo
  BY <1>2
<1> HIDE DEF lo
<1>6. Byte(n, q) + 256 * Byte(n, q + 1) = lo % 65536 /\ Byte(n, q) \in 0..255
  BY <1>1, <1>3, TwoBytes
<1>7. CASE m = 0
  <2>1. Pow2[m + 1] = 1
    BY <1>7 DEF Pow2
  <2>2. QED
    BY <2>1, <1>1, <1>5, <1>6, <1>7, SixBits
<1>8. CASE m = 1
  <2>1. Pow2[m + 1] = 2
    BY <1>8 DEF Pow2
  <2>2. QED
    BY <2>1, <1>1, <1>4, <1>6, <1>8, SixBits
<1>9. CASE m = 2
  <2>1. Pow2[m + 1] = 4
    BY <1>9 DEF Pow2
  <2>2. QED
    BY <2>1, <1>1, <1>4, <1>6, <1>9, SixBits
<1>10. CASE m = 3
  <2>1. Pow2[m + 1] = 8
    BY <1>10 DEF Pow2
  <2>2. QED
    BY <2>1, <1>1, <1>4, <1>6, <1>10, SixBits
<1>11. CASE m = 4
  <2>1. Pow2[m + 1] = 16
    BY <1>11 DEF Pow2
  <2>2. QED
    BY <2>1, <1>1, <1>4, <1>6, <1>11, SixBits
<1>12. CASE m = 5
  <2>1. Pow2[m + 1] = 32
    BY <1>12 DEF Pow2
  <2>2. QED
    BY <2>1, <1>1, <1>4, <1>6, <1>12, SixBits
<1>13. CASE m = 6
  <2>1. Pow2[m + 1] = 64
    BY <1>13 DEF Pow2
  <2>2. QED
    BY <2>1, <1>1, <1>4, <1>6, <1>13, SixBits
<1>14. CASE m = 7
  <2>1. Pow2[m + 1] = 128
    BY <1>14 DEF Pow2
  <2>2. QED
    BY <2>1, <1>1, <1>4, <1>6, <1>14, SixBits
<1>15. QED
  BY <1>7, <1>8, <1>9, <1>10, <1>11, <1>12, <1>13, <1>14

\* The window at bit position i is the six bits from i - 1 on.
LEMMA WindowIsShift ==
  ASSUME NEW n \in Scalars, NEW i \in 1..Bits
  PROVE  Window(n, i) = Shr(n, i - 1) % 64
<1> DEFINE q == (i - 1) \div 8
           m == (i - 1) % 8
<1>1. i - 1 \in Nat
  BY BitsAssumption
<1>2. q \in Nat /\ m \in 0..7 /\ i - 1 = 8 * q + m
  BY <1>1, ByteAndBit
<1>3. Window(n, i) = ((Byte(n, q) + 256 * Byte(n, q + 1)) \div Pow2[m + 1]) % 64
  BY DEF Window
<1> HIDE DEF q, m
<1>4. 8 * q \in 0..Bits + 8
  BY <1>2, BitsAssumption
<1>5. ((Byte(n, q) + 256 * Byte(n, q + 1)) \div Pow2[m + 1]) % 64 = Shr(n, 8 * q + m) % 64
  BY <1>2, <1>4, WindowAt, ZenonT(60)
<1>6. QED
  BY <1>2, <1>3, <1>5

\* One byte holds the two bits of the first window (secp256k1.c:557-558).
LEMMA FirstWindowIsShift ==
  ASSUME NEW n \in Scalars
  PROVE  FirstWindowBits(n, Bits - 1) = Shr(n, Bits - 2) /\ Shr(n, Bits - 2) \in 0..3
<1> DEFINE q == (Bits - 2) \div 8
           m == (Bits - 2) % 8
<1>1. Bits - 2 \in Nat /\ Bits \in Nat
  BY BitsAssumption
<1>2. q \in Nat /\ m \in 0..6 /\ Bits - 2 = 8 * q + m
  <2>1. q \in Nat /\ m \in 0..7 /\ Bits - 2 = 8 * q + m
    BY <1>1, ByteAndBit
  <2>2. m # 7
    BY BitsAssumption
  <2>3. QED
    BY <2>1, <2>2
<1>3. FirstWindowBits(n, Bits - 1) = (Byte(n, q) \div Pow2[m + 1]) % 64
  <2>1. (Bits - 1) - 1 = Bits - 2
    BY <1>1
  <2>2. QED
    BY <2>1 DEF FirstWindowBits
<1> HIDE DEF q, m
<1> DEFINE lo == Shr(n, 8 * q)
<1>4. 8 * q \in 0..Bits + 8 /\ Bits - 2 \in 0..Bits + 8
  BY <1>1, <1>2
<1>5. Shr(n, Bits - 2) \in Nat /\ Shr(n, (Bits - 2) + 2) = Shr(n, Bits - 2) \div 4
  BY <1>4, ShrMore
<1>6. Shr(n, Bits) = 0 /\ (Bits - 2) + 2 = Bits
  BY <1>1, ShrAssumption
<1>7. Shr(n, Bits - 2) \in 0..3
  BY <1>5, <1>6
<1>8. lo \in Nat /\ Byte(n, q) = lo % 256
  BY <1>4, ShrMore DEF Byte
<1>9. /\ Shr(n, 8 * q + 1) = lo \div 2
      /\ Shr(n, 8 * q + 2) = lo \div 4
      /\ Shr(n, 8 * q + 3) = lo \div 8
      /\ Shr(n, 8 * q + 4) = lo \div 16
      /\ Shr(n, 8 * q + 5) = lo \div 32
      /\ Shr(n, 8 * q + 6) = lo \div 64
  BY <1>4, ShrMore
<1>10. 8 * q + 0 = 8 * q
  BY <1>2
<1>11. (Byte(n, q) \div Pow2[m + 1]) % 64 = Shr(n, Bits - 2)
  <2>1. CASE m = 0
    <3>1. Pow2[m + 1] = 1 /\ Shr(n, Bits - 2) = lo
      BY <1>2, <1>10, <2>1 DEF Pow2
    <3>2. QED
      BY <3>1, <1>7, <1>8, TopBits
  <2>2. CASE m = 1
    <3>1. Pow2[m + 1] = 2 /\ Shr(n, Bits - 2) = lo \div 2
      BY <1>2, <1>9, <2>2 DEF Pow2
    <3>2. QED
      BY <3>1, <1>7, <1>8, TopBits
  <2>3. CASE m = 2
    <3>1. Pow2[m + 1] = 4 /\ Shr(n, Bits - 2) = lo \div 4
      BY <1>2, <1>9, <2>3 DEF Pow2
    <3>2. QED
      BY <3>1, <1>7, <1>8, TopBits
  <2>4. CASE m = 3
    <3>1. Pow2[m + 1] = 8 /\ Shr(n, Bits - 2) = lo \div 8
      BY <1>2, <1>9, <2>4 DEF Pow2
    <3>2. QED
      BY <3>1, <1>7, <1>8, TopBits
  <2>5. CASE m = 4
    <3>1. Pow2[m + 1] = 16 /\ Shr(n, Bits - 2) = lo \div 16
      BY <1>2, <1>9, <2>5 DEF Pow2
    <3>2. QED
      BY <3>1, <1>7, <1>8, TopBits
  <2>6. CASE m = 5
    <3>1. Pow2[m + 1] = 32 /\ Shr(n, Bits - 2) = lo \div 32
      BY <1>2, <1>9, <2>6 DEF Pow2
    <3>2. QED
      BY <3>1, <1>7, <1>8, TopBits
  <2>7. CASE m = 6
    <3>1. Pow2[m + 1] = 64 /\ Shr(n, Bits - 2) = lo \div 64
      BY <1>2, <1>9, <2>7 DEF Pow2
    <3>2. QED
      BY <3>1, <1>7, <1>8, TopBits
  <2>8. QED
    BY <1>2, <2>1, <2>2, <2>3, <2>4, <2>5, <2>6, <2>7
<1>12. QED
  BY <1>3, <1>7, <1>11

----------------------------------------------------------------------------
(* The table and its digits. *)

\* The straight line of secp256k1.c:524-554 stores i times the point at i.
LEMMA TableEntries ==
  /\ MultiplesOf(1) \in [Entries -> Int]
  /\ \A i \in Entries : MultiplesOf(1)[i] = i
<1>1. MultiplesOf(1) = <<1, 2, 3, 4, 5, 6, 7, 8, 9, 10, 11, 12, 13, 14, 15, 16>>
  BY DEF MultiplesOf
<1> DEFINE T == <<1, 2, 3, 4, 5, 6, 7, 8, 9, 10, 11, 12, 13, 14, 15, 16>>
<1>2. T \in [Entries -> Int]
  BY DEF Entries
<1>3. \A i \in Entries : T[i] = i
  BY DEF Entries
<1>4. QED
  BY <1>1, <1>2, <1>3

\* A recoded window names an entry of the table (or none) and its sign: the
\* window's digit (secp256k1.c:230-240, 582-590).
LEMMA GatherIsDigit ==
  ASSUME NEW t \in [Entries -> Int], \A i \in Entries : t[i] = i, NEW w \in 0..63
  PROVE  /\ Gather(t, BoothW5(w)) = Digit(w)
         /\ BoothW5(w) \div 2 \in 0..16
         /\ BoothW5(w) > 1 => BoothW5(w) \div 2 \in Entries
<1> DEFINE b == BoothW5(w)
<1>1. CASE w < 32
  <2>1. b = 2 * ((w \div 2) + (w % 2)) /\ w \div 32 = 0
    BY <1>1 DEF BoothW5
  <2>2. b \div 2 = (w + 1) \div 2 /\ b % 2 = 0 /\ b \div 2 \in 0..16 /\ b \in Nat
    BY <1>1, <2>1
  <2>3. Digit(w) = b \div 2
    BY <2>1, <2>2 DEF Digit
  <2> HIDE DEF b
  <2>4. b > 1 => b \div 2 \in Entries
    BY <2>2 DEF Entries
  <2>5. b <= 1 => b \div 2 = 0
    BY <2>2
  <2>6. Gather(t, b) = Digit(w)
    BY <2>2, <2>3, <2>4, <2>5 DEF Gather
  <2>7. QED
    BY <2>2, <2>4, <2>6 DEF b
<1>2. CASE w >= 32
  <2>1. b = 2 * (((63 - w) \div 2) + ((63 - w) % 2)) + 1 /\ w \div 32 = 1
    BY <1>2 DEF BoothW5
  <2>2. b \div 2 = (64 - w) \div 2 /\ b % 2 = 1 /\ b \div 2 \in 0..16 /\ b \in Nat
    BY <1>2, <2>1
  <2>3. Digit(w) = -(b \div 2)
    <3>1. ((w + 1) \div 2) - 32 = -((64 - w) \div 2)
      BY <1>2
    <3>2. QED
      BY <3>1, <2>1, <2>2 DEF Digit
  <2> HIDE DEF b
  <2>4. b > 1 => b \div 2 \in Entries
    BY <2>2 DEF Entries
  <2>5. b <= 1 => b \div 2 = 0
    BY <2>2
  <2>6. Gather(t, b) = Digit(w)
    BY <2>2, <2>3, <2>4, <2>5 DEF Gather
  <2>7. QED
    BY <2>2, <2>4, <2>6 DEF b
<1>3. QED
  BY <1>1, <1>2

----------------------------------------------------------------------------
(* The invariant. *)

\* Before the call.
LEMMA InitIInv == Init => IInv
<1> SUFFICES ASSUME Init PROVE IInv
  OBVIOUS
<1> USE DEF Init
<1>1. TypeOK
  <2>1. table \in [Entries -> Int]
    OBVIOUS
  <2>2. idx \in 0..Bits - 1
    BY BitsAssumption
  <2>3. QED
    BY <2>1, <2>2 DEF TypeOK
<1>2. InStorage
  BY DEF InStorage, EntrySize, StorageSize
<1>3. QED
  BY <1>1, <1>2 DEF IInv, CorrectOutsideGap

\* Every entry and the first temporary end before the storage does.
LEMMA Fits ==
  ASSUME NEW a \in 1..64, NEW i \in 0..16
  PROVE  i >= 0 /\ a + EntrySize * (i + 1) <= StorageSize
  BY DEF EntrySize, StorageSize

\* Facts about a scalar's windows at a bit position that the loop reaches.
LEMMA PositionFacts ==
  ASSUME NEW n \in Scalars, NEW i \in 1..Bits
  PROVE  /\ Window(n, i) = Shr(n, i - 1) % 64
         /\ Window(n, i) \in 0..63
         /\ i <= Bits - 6 => Rounded(n, i + 5) = ((Shr(n, i - 1) \div 32) + 1) \div 2
         /\ Rounded(n, i) \in Nat
         /\ 32 * (((Shr(n, i - 1) \div 32) + 1) \div 2) + Digit(Window(n, i)) = Rounded(n, i)
<1>1. i - 1 \in 0..Bits + 8 /\ i \in Int /\ (i + 5) - 1 = (i - 1) + 5
  BY BitsAssumption
<1>2. Shr(n, i - 1) \in Nat /\ Shr(n, (i - 1) + 5) = Shr(n, i - 1) \div 32
  BY <1>1, ShrMore
<1>3. Window(n, i) = Shr(n, i - 1) % 64
  BY WindowIsShift
<1>4. Window(n, i) \in 0..63
  BY <1>2, <1>3
<1>5. 32 * (((Shr(n, i - 1) \div 32) + 1) \div 2) + Digit(Shr(n, i - 1) % 64)
        = (Shr(n, i - 1) + 1) \div 2
  BY <1>2, Horner
<1>6. Rounded(n, i) \in Nat
  BY <1>2 DEF Rounded
<1>7. QED
  BY <1>1, <1>2, <1>3, <1>4, <1>5, <1>6 DEF Rounded

\* Every turn of the loop and the steps around it.
LEMMA NextIInv == IInv /\ [Next]_vars => IInv'
<1> SUFFICES ASSUME IInv, [Next]_vars PROVE IInv'
  OBVIOUS
<1>0. /\ TypeOK /\ s \in Scalars /\ Bits \in Nat /\ Bits >= 11 /\ Bits % 5 = 1
      /\ r \in Int /\ idx \in 0..Bits - 1 /\ align \in 1..64 /\ slot \in Int
  BY BitsAssumption DEF IInv, TypeOK
<1>1. CASE CopyPoint
  BY <1>0, <1>1 DEF CopyPoint, IInv, TypeOK, InStorage, CorrectOutsideGap, EntrySize, StorageSize
<1>2. CASE CopyFails
  BY <1>0, <1>2 DEF CopyFails, IInv, TypeOK, InStorage, CorrectOutsideGap
<1>3. CASE FillTable
  <2>1. table' \in [Entries -> Int] /\ \A i \in Entries : table'[i] = i
    BY <1>3, TableEntries DEF FillTable
  <2>2. idx' = Bits - 1 /\ idx' \in 0..Bits - 1
    BY <1>0, <1>3 DEF FillTable
  <2>3. slot' = 20 /\ slot' \in Int /\ InStorage'
    BY <1>0, <1>3 DEF FillTable, InStorage, EntrySize, StorageSize
  <2>4. pc' = "first" /\ ret' = ret /\ ret' = "none"
    BY <1>3 DEF FillTable, IInv
  <2>5. TypeOK'
    BY <1>0, <1>3, <2>1, <2>2, <2>3, <2>4 DEF FillTable, TypeOK
  <2>6. QED
    BY <2>1, <2>2, <2>3, <2>4, <2>5 DEF IInv, CorrectOutsideGap
<1>4. CASE FirstWindow
  <2> DEFINE w == FirstWindowBits(s, idx)
             t == BoothW5(w) \div 2
  <2>1. idx = Bits - 1 /\ pc = "first" /\ ret = "none" /\ \A i \in Entries : table[i] = i
    BY <1>4 DEF FirstWindow, IInv
  <2>2. w = Shr(s, Bits - 2) /\ w \in 0..3
    BY <1>0, <2>1, FirstWindowIsShift
  <2>3. w > 1 => t \in Entries /\ t = (w + 1) \div 2
    BY <2>2 DEF BoothW5, Entries
  <2>4. w = 0 => (w + 1) \div 2 = 0
    OBVIOUS
  <2>5. InGap(s) <=> w = 1
    BY <2>1 DEF InGap
  <2>6. Rounded(s, Bits - 1) = (w + 1) \div 2
    <3>1. (Bits - 1) - 1 = Bits - 2
      BY <1>0
    <3>2. QED
      BY <2>2, <3>1 DEF Rounded
  <2>7. r' = 32 * (IF w > 1 THEN table[t] ELSE 0)
    BY <1>4 DEF FirstWindow
  <2>8. slot' = IF w > 1 THEN t - 1 ELSE 16
    BY <1>4 DEF FirstWindow
  <2>9. /\ idx' = idx - 5 /\ pc' = "loop"
        /\ s' = s /\ given' = given /\ table' = table /\ ret' = ret /\ align' = align
    BY <1>4 DEF FirstWindow
  <2> HIDE DEF w, t
  <2>10. slot' \in 0..16
    BY <2>3, <2>8 DEF Entries
  <2>11. ~InGap(s) => r' = 32 * Rounded(s, Bits - 1)
    BY <2>1, <2>2, <2>3, <2>4, <2>5, <2>6, <2>7
  <2>12. r' \in Int
    <3>1. w > 1 => table[t] \in Int
      BY <1>0, <2>3 DEF TypeOK
    <3>2. QED
      BY <2>7, <3>1
  <2>13. /\ idx' \in 0..Bits - 1 /\ idx' % 5 = 0 /\ idx' <= Bits - 6 /\ idx' + 5 = Bits - 1
    BY <1>0, <2>1, <2>9
  <2>14. InStorage'
    BY <1>0, <2>9, <2>10, Fits DEF InStorage
  <2>15. TypeOK'
    BY <1>0, <2>9, <2>10, <2>12, <2>13 DEF TypeOK
  <2>16. InGap(s') = InGap(s) /\ Rounded(s', idx' + 5) = Rounded(s, Bits - 1)
    BY <2>9, <2>13
  <2>17. pc' = "loop" => /\ idx' % 5 = 0 /\ idx' <= Bits - 6
                         /\ ~InGap(s') => r' = 32 * Rounded(s', idx' + 5)
    BY <2>11, <2>13, <2>16
  <2>18. QED
    BY <2>1, <2>9, <2>14, <2>15, <2>17 DEF IInv, CorrectOutsideGap
<1>5. CASE NextWindow
  <2> DEFINE b == BoothW5(Window(s, idx))
  <2>1. /\ idx >= 5 /\ pc = "loop" /\ ret = "none" /\ \A i \in Entries : table[i] = i
        /\ idx % 5 = 0 /\ idx <= Bits - 6
        /\ ~InGap(s) => r = 32 * Rounded(s, idx + 5)
    BY <1>5 DEF NextWindow, IInv
  <2>2. idx \in 1..Bits
    BY <1>0, <2>1
  <2>3. /\ Window(s, idx) \in 0..63
        /\ Rounded(s, idx + 5) = ((Shr(s, idx - 1) \div 32) + 1) \div 2
        /\ Rounded(s, idx) \in Nat
        /\ 32 * (((Shr(s, idx - 1) \div 32) + 1) \div 2) + Digit(Window(s, idx)) = Rounded(s, idx)
    BY <1>0, <2>1, <2>2, PositionFacts
  <2>4. table \in [Entries -> Int]
    BY <1>0 DEF TypeOK
  <2>5. Gather(table, b) = Digit(Window(s, idx)) /\ b \div 2 \in 0..16 /\ (b > 1 => b \div 2 \in Entries)
    BY <2>1, <2>3, <2>4, GatherIsDigit
  <2>6. Digit(Window(s, idx)) \in Int
    BY <2>3 DEF Digit
  <2>7. /\ r' = 32 * (r + Gather(table, b))
        /\ slot' = IF b > 1 THEN b \div 2 - 1 ELSE 16
        /\ idx' = idx - 5
        /\ s' = s /\ given' = given /\ table' = table /\ pc' = pc /\ ret' = ret /\ align' = align
    BY <1>5 DEF NextWindow
  <2> HIDE DEF b
  <2>8. ~InGap(s) => r' = 32 * Rounded(s, idx)
    BY <1>0, <2>1, <2>3, <2>5, <2>6, <2>7
  <2>9. r' \in Int
    BY <1>0, <2>5, <2>6, <2>7
  <2>10. slot' \in 0..16
    BY <2>5, <2>7 DEF Entries
  <2>11. idx' \in 0..Bits - 1 /\ idx' % 5 = 0 /\ idx' <= Bits - 6 /\ idx' + 5 = idx
    BY <1>0, <2>1, <2>7
  <2>12. InStorage'
    BY <1>0, <2>7, <2>10, Fits DEF InStorage
  <2>13. TypeOK'
    BY <1>0, <2>7, <2>9, <2>10, <2>11 DEF TypeOK
  <2>14. InGap(s') = InGap(s) /\ Rounded(s', idx' + 5) = Rounded(s, idx)
    BY <2>7, <2>11
  <2>15. pc' = "loop" => /\ idx' % 5 = 0 /\ idx' <= Bits - 6
                         /\ ~InGap(s') => r' = 32 * Rounded(s', idx' + 5)
    BY <2>8, <2>11, <2>14
  <2>16. QED
    BY <2>1, <2>7, <2>12, <2>13, <2>15 DEF IInv, CorrectOutsideGap
<1>6. CASE FinalWindow
  <2> DEFINE v == (2 * Byte(s, 0)) % 64
             b == BoothW5(v)
  <2>1. /\ idx < 5 /\ pc = "loop" /\ \A i \in Entries : table[i] = i
        /\ idx % 5 = 0
        /\ ~InGap(s) => r = 32 * Rounded(s, idx + 5)
    BY <1>6 DEF FinalWindow, IInv
  <2>2. idx = 0
    BY <1>0, <2>1
  <2>3. s \in Nat /\ Shr(s, 0) = s /\ Shr(s, 0 + 4) = s \div 16
    <3>1. Shr(s, 0) = s /\ 0 \in 0..Bits + 8
      BY <1>0, ShrAssumption
    <3>2. s \in Nat
      BY <1>0, ScalarsAssumption
    <3>3. QED
      BY <1>0, <3>1, <3>2, ShrMore
  <2>4. v = (2 * s) % 64 /\ v \in 0..63
    <3>1. Byte(s, 0) = s % 256
      BY <2>3 DEF Byte
    <3>2. v = (2 * s) % 64
      BY <2>3, <3>1, HornerEnd
    <3>3. QED
      BY <2>3, <3>2
  <2>5. Rounded(s, idx + 5) = ((s \div 16) + 1) \div 2
    <3>1. (idx + 5) - 1 = 0 + 4
      BY <2>2
    <3>2. QED
      BY <2>3, <3>1 DEF Rounded
  <2>6. 32 * (((s \div 16) + 1) \div 2) + Digit(v) = s
    BY <2>3, <2>4, HornerEnd
  <2>7. table \in [Entries -> Int]
    BY <1>0 DEF TypeOK
  <2>8. Gather(table, b) = Digit(v) /\ b \div 2 \in 0..16 /\ (b > 1 => b \div 2 \in Entries)
    BY <2>1, <2>4, <2>7, GatherIsDigit
  <2>9. Digit(v) \in Int
    BY <2>4 DEF Digit
  <2>10. /\ r' = r + Gather(table, b)
         /\ slot' = IF b > 1 THEN b \div 2 - 1 ELSE 16
         /\ pc' = "done" /\ ret' = "OK"
         /\ s' = s /\ given' = given /\ table' = table /\ idx' = idx /\ align' = align
    BY <1>6 DEF FinalWindow
  <2> HIDE DEF v, b
  <2>11. ~InGap(s) => r' = s
    BY <2>1, <2>5, <2>6, <2>8, <2>10
  <2>12. r' \in Int
    BY <1>0, <2>8, <2>9, <2>10
  <2>13. slot' \in 0..16
    BY <2>8, <2>10 DEF Entries
  <2>14. InStorage'
    BY <1>0, <2>10, <2>13, Fits DEF InStorage
  <2>15. TypeOK'
    BY <1>0, <2>10, <2>12, <2>13 DEF TypeOK
  <2>16. CorrectOutsideGap'
    <3>1. InGap(s') = InGap(s)
      BY <2>10
    <3>2. QED
      BY <2>10, <2>11, <3>1 DEF CorrectOutsideGap
  <2>17. QED
    BY <2>10, <2>14, <2>15, <2>16 DEF IInv
<1>7. CASE UNCHANGED vars
  BY <1>7 DEF vars, IInv, TypeOK, InStorage, CorrectOutsideGap, InGap
<1>8. QED
  BY <1>1, <1>2, <1>3, <1>4, <1>5, <1>6, <1>7 DEF Next, Returned

----------------------------------------------------------------------------
\* The invariant holds throughout.
LEMMA Invariance == Spec => []IInv
  BY InitIInv, NextIInv, PTL DEF Spec

\* Every variable keeps its type: the bit position never goes negative.
THEOREM TypeCorrect == Spec => []TypeOK
<1>1. IInv => TypeOK
  BY DEF IInv
<1>2. QED
  BY <1>1, Invariance, PTL

\* For every scalar width, the result is the scalar times the point unless
\* the scalar's top bit is clear and the next one set (secp256k1.c:556-616).
THEOREM CorrectOutsideGapHolds == Spec => []CorrectOutsideGap
<1>1. IInv => CorrectOutsideGap
  BY DEF IInv
<1>2. QED
  BY <1>1, Invariance, PTL

\* No access to the table or the temporaries leaves table_storage, whatever
\* the alignment and the scalar (secp256k1.c:490-493).
THEOREM InStorageHolds == Spec => []InStorage
<1>1. IInv => InStorage
  BY DEF IInv
<1>2. QED
  BY <1>1, Invariance, PTL
=============================================================================
