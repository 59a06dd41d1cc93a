---------------------------- MODULE ScalarMulGen ----------------------------
(***************************************************************************)
(* secp256k1_scalar_mul_gen: r = scalar * G with signed (Booth) windows of *)
(* 7 bits, from the least significant window up, over the table that       *)
(* table_gen has left behind the library's globals, composed with the      *)
(* calls of table_gen and table_free that go before, between and after.    *)
(* The additions are of the kind that cannot double, so that they must     *)
(* never meet equal operands.                                              *)
(***************************************************************************)
EXTENDS PrecompTable

CONSTANTS
  Bits,      \* width of a scalar: 256 in the code
  Scalars    \* scalars to multiply with, below 2^Bits

\* As in the code: rows have 64 entries, one for each magnitude of a digit;
\* the last window reaches beyond the scalar's top bit but takes no bit from
\* beyond the one zero byte p_str has after it; a scalar may exceed the
\* order, but the order is so close below 2^Bits that what is missing does
\* not reach the top bit of the last window but one.
ASSUME WidthAssumption ==
  /\ Bits \in Nat /\ Bits % 8 = 0 /\ Multiples = 64
  /\ 7 * Windows > Bits /\ 7 * (Windows - 1) < Bits
  /\ N < TwoTo[Bits] /\ TwoTo[Bits] - N < TwoTo[7 * (Windows - 1) - 1]

ASSUME ScalarsAssumption == Scalars \subseteq 0..TwoTo[Bits] - 1

VARIABLES
  s,       \* the scalar; secp256k1_reduce leaves it as it is
  p, t,    \* the accumulator and the gathered entry
  i, idx,  \* window and bit position, as in the code
  at       \* where the multiplication is

mulVars == <<s, p, t, i, idx, at>>
vars    == <<tableVars, mulVars>>

----------------------------------------------------------------------------
\* p_str[n], of Bits \div 8 + 1 bytes of which the last is zero
Byte(n) == (s \div TwoTo[8 * n]) % 256

Pow2 == <<1, 2, 4, 8, 16, 32, 64, 128>>

\* Slip: one bit too few is kept.
Window_ShortMask(x) ==
  LET off == (x - 1) \div 8
  IN  ((Byte(off) + 256 * Byte(off + 1)) \div Pow2[((x - 1) % 8) + 1]) % 128

\* p_str[off] | p_str[off + 1] << 8, shifted right and masked to 8 bits
Window(x) ==
  LET off == (x - 1) \div 8
  IN  ((Byte(off) + 256 * Byte(off + 1)) \div Pow2[((x - 1) % 8) + 1]) % 256

\* Slip: a negative digit is complemented without the last carry.
BoothW7_NoCarry(w) ==
  LET neg == w \div 128
      d   == IF neg = 1 THEN 255 - w ELSE w
  IN  2 * (d \div 2) + neg

\* _booth_recode_w7: the digit's magnitude, shifted left, and its sign.
BoothW7(w) ==
  LET neg == w \div 128
      d   == IF neg = 1 THEN 255 - w ELSE w
  IN  2 * ((d \div 2) + (d % 2)) + neg

\* The entry of row n for a recoded window.
Gather(n, w) ==
  LET e == IF w > 1 THEN block[precomp][n][w \div 2] ELSE Infinity
  IN  IF w % 2 = 1 THEN PointNeg(e) ELSE e

----------------------------------------------------------------------------
Init ==
  /\ TableInit
  /\ s = 0 /\ p = Infinity /\ t = Infinity /\ i = 0 /\ idx = 0 /\ at = "idle"

\* A client multiplies once a table_gen has returned CRYPTO_OK and unless the
\* table was freed, and frees none while it multiplies.
Call ==
  /\ at = "idle" /\ storage \in live
  /\ \E u \in Threads : pc[u] = "idle" /\ ret[u] = "OK"
  /\ s' \in Scalars
  /\ at' = "first"
  /\ UNCHANGED <<tableVars, p, t, i, idx>>

\* A zero bit is shifted in below the scalar.  Z is set to one unless the
\* gathered entry is all zero.
FirstWindow ==
  /\ at = "first"
  /\ p' = Gather(0, BoothW7((2 * Byte(0)) % 256))
  /\ i' = 1 /\ idx' = 7
  /\ at' = "gather"
  /\ UNCHANGED <<tableVars, s, t>>

\* Slip: the rows are counted from 0 again.
GatherNext_RowBelow ==
  /\ at = "gather" /\ i < Windows
  /\ t' = Gather(i - 1, BoothW7(Window(idx)))
  /\ idx' = idx + 7
  /\ at' = "add"
  /\ UNCHANGED <<tableVars, s, p, i>>

GatherNext ==
  /\ at = "gather" /\ i < Windows
  /\ t' = Gather(i, BoothW7(Window(idx)))
  /\ idx' = idx + 7
  /\ at' = "add"
  /\ UNCHANGED <<tableVars, s, p, i>>

AddNext ==
  /\ at = "add"
  /\ p' = PointAddAffine(p, t)
  /\ i' = i + 1
  /\ at' = "gather"
  /\ UNCHANGED <<tableVars, s, t, idx>>

\* The locals go out of scope.
Return ==
  /\ at = "gather" /\ i = Windows
  /\ s' = 0 /\ p' = Infinity /\ t' = Infinity /\ i' = 0 /\ idx' = 0 /\ at' = "idle"
  /\ UNCHANGED tableVars

TableStep == at = "idle" /\ TableNext /\ UNCHANGED mulVars

Next == TableStep \/ Call \/ FirstWindow \/ GatherNext \/ AddNext \/ Return

Spec == Init /\ [][Next /\ TakeTurns]_vars

----------------------------------------------------------------------------
TypeOK ==
  /\ TableTypeOK
  /\ s \in 0..TwoTo[Bits] - 1
  /\ p \in Points /\ t \in Points
  /\ i \in 0..Windows /\ idx = 7 * (i + (IF at = "add" THEN 1 ELSE 0))
  /\ at \in {"idle", "first", "gather", "add"}

\* secp256k1.h:117: "r = scalar * generator", for scalars beyond the order
\* too, which secp256k1_reduce leaves unreduced.
ResultIsScalarTimesG == at = "gather" /\ i = Windows => p = s % N

\* The addition that cannot double never meets a finite point twice
\* (secp256k1.c:468): only the top window could wrap around the order, and
\* then the accumulator is negative.
NeverEqualOperands == at = "add" => p # t \/ p = Infinity

\* The accumulator is the part of the scalar below the bit position, less
\* what the carry bit passes on to the windows above (secp256k1.c:452-469).
PartialSum ==
  /\ TypeOK
  /\ at = "gather" =>
       LET low   == s % TwoTo[idx]
           carry == idx <= Bits /\ low >= TwoTo[idx - 1]
       IN  p = (IF carry THEN low - TwoTo[idx] ELSE low) % N
=============================================================================
