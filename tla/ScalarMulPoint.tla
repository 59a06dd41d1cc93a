--------------------------- MODULE ScalarMulPoint ---------------------------
(***************************************************************************)
(* secp256k1_scalar_mul_point: r = scalar * point with signed (Booth)      *)
(* windows of 5 bits, from the most significant window down, over a table  *)
(* of the multiples 1..16 of the point.                                    *)
(*                                                                         *)
(* A point of the computation is represented by the integer m such that it *)
(* is m times the caller's point (0 for the (0,0,0) that memset leaves):   *)
(* doubling, addition and negation of points, complete in this library     *)
(* (see Curve), are those of the integers.  The width of the scalar is a   *)
(* parameter; everything else is the code's.                               *)
(***************************************************************************)
EXTENDS Integers, Sequences

CONSTANTS
  Bits,        \* width of a scalar: 256 in the code
  Scalars,     \* scalars to multiply with, below 2^Bits
  Shr(_, _)    \* Shr(s, i) is s >> i

\* The windows end exactly at bit 0, there is at least one turn of the loop,
\* and the two bits of the first window lie in one byte, as for 256.
ASSUME BitsAssumption ==
  /\ Bits \in Nat /\ Bits >= 11
  /\ Bits % 5 = 1
  /\ (Bits - 2) % 8 # 7

ASSUME ScalarsAssumption == Scalars \subseteq Nat

ASSUME ShrAssumption ==
  \A s \in Scalars :
    /\ Shr(s, 0) = s
    /\ Shr(s, Bits) = 0
    /\ \A i \in 0..Bits + 16 : Shr(s, i) \in Nat /\ Shr(s, i + 1) = Shr(s, i) \div 2

VARIABLES
  s,        \* the scalar; secp256k1_reduce leaves it as it is
  given,    \* the point argument is not NULL
  table,    \* the 16 entries, by the multiple they should hold
  r,        \* the result object
  idx,      \* bit position, as in the code
  pc,
  ret,
  align,    \* offset of the table in table_storage
  slot      \* the last element of table and temp accessed, 0-based

vars == <<s, given, table, r, idx, pc, ret, align, slot>>

EntrySize == 96     \* sizeof(POINT256)

\* Slip: 21 elements, with nothing to spare for the alignment.
StorageSize_Unaligned == 2016

StorageSize == 2080   \* table_storage

Entries == 1..16

----------------------------------------------------------------------------
Byte(n, k) == Shr(n, 8 * k) % 256            \* p_str[k]

Pow2 == <<1, 2, 4, 8, 16, 32, 64, 128>>

\* p_str[off] | p_str[off + 1] << 8, shifted right and masked to 6 bits
Window(n, i) ==
  LET off == (i - 1) \div 8
  IN  ((Byte(n, off) + 256 * Byte(n, off + 1)) \div Pow2[((i - 1) % 8) + 1]) % 64

\* The first window looks at one byte only.
FirstWindowBits(n, i) == (Byte(n, (i - 1) \div 8) \div Pow2[((i - 1) % 8) + 1]) % 64

\* Slip: the bit below the window is not added.
BoothW5_NoCarry(w) ==
  LET neg == w \div 32
      d   == IF neg = 1 THEN 63 - w ELSE w
  IN  2 * (d \div 2) + neg

\* _booth_recode_w5: the digit's magnitude, shifted left, and its sign.
BoothW5(w) ==
  LET neg == w \div 32
      d   == IF neg = 1 THEN 63 - w ELSE w
  IN  2 * ((d \div 2) + (d % 2)) + neg

\* The entry for a recoded window: 0 for infinity, negated if the sign says so.
Gather(t, w) ==
  LET p == IF w > 1 THEN t[w \div 2] ELSE 0
  IN  IF w % 2 = 1 THEN -p ELSE p

\* The straight line of doublings and additions that fills the table, in the
\* code's order; temp[1..4] are the d and a values below as they are reused.
MultiplesOf(p) ==
  LET d2 == p + p     a3 == d2 + p    d4 == d2 + d2   d6 == a3 + a3   a5 == d4 + p
      a7 == d6 + p    d8 == d4 + d4   d12 == d6 + d6  d10 == a5 + a5  d14 == a7 + a7
  IN  <<p, d2, a3, d4, a5, d6, a7, d8, d8 + p, d10, d10 + p, d12, d12 + p, d14, d14 + p, d8 + d8>>

----------------------------------------------------------------------------
Init ==
  /\ s \in Scalars
  /\ given \in BOOLEAN
  /\ table = [i \in Entries |-> 0]
  /\ r = 0 /\ idx = 0 /\ pc = "copy" /\ ret = "none" /\ slot = 16
  /\ align \in 1..64     \* ALIGNPTR never yields 0

CopyPoint ==
  /\ pc = "copy" /\ given
  /\ pc' = "fill"
  /\ slot' = 16
  /\ UNCHANGED <<s, given, table, r, idx, ret, align>>

CopyFails ==
  /\ pc = "copy" /\ ~given
  /\ pc' = "done" /\ ret' = "ERR"
  /\ UNCHANGED <<s, given, table, r, idx, align, slot>>

FillTable ==
  /\ pc = "fill"
  /\ table' = MultiplesOf(1)
  /\ slot' = 20
  /\ idx' = Bits - 1
  /\ pc' = "first"
  /\ UNCHANGED <<s, given, r, ret, align>>

\* The code tests the window before it recodes it.
FirstWindow ==
  LET w == FirstWindowBits(s, idx)
      t == BoothW5(w) \div 2
  IN  /\ pc = "first"
      /\ r' = 32 * (IF w > 1 THEN table[t] ELSE 0)
      /\ slot' = IF w > 1 THEN t - 1 ELSE 16
      /\ idx' = idx - 5
      /\ pc' = "loop"
      /\ UNCHANGED <<s, given, table, ret, align>>

NextWindow ==
  LET w == BoothW5(Window(s, idx))
  IN  /\ pc = "loop" /\ idx >= 5
      /\ r' = 32 * (r + Gather(table, w))
      /\ slot' = IF w > 1 THEN w \div 2 - 1 ELSE 16
      /\ idx' = idx - 5
      /\ UNCHANGED <<s, given, table, pc, ret, align>>

FinalWindow ==
  LET w == BoothW5((2 * Byte(s, 0)) % 64)
  IN  /\ pc = "loop" /\ idx < 5
      /\ r' = r + Gather(table, w)
      /\ slot' = IF w > 1 THEN w \div 2 - 1 ELSE 16
      /\ pc' = "done" /\ ret' = "OK"
      /\ UNCHANGED <<s, given, table, idx, align>>

Returned == pc = "done" /\ UNCHANGED vars

Next == CopyPoint \/ CopyFails \/ FillTable \/ FirstWindow \/ NextWindow \/ FinalWindow \/ Returned

Spec == Init /\ [][Next]_vars

----------------------------------------------------------------------------
TypeOK ==
  /\ s \in Scalars /\ given \in BOOLEAN
  /\ table \in [Entries -> Int] /\ r \in Int
  /\ idx \in 0..Bits - 1
  /\ pc \in {"copy", "fill", "first", "loop", "done"}
  /\ ret \in {"none", "OK", "ERR"}
  /\ align \in 1..64 /\ slot \in Int

\* The scalars whose first window is the digit 1 from the bit below it: the
\* top bit clear, the next one set (a quarter of all scalars).
InGap(n) == FirstWindowBits(n, Bits - 1) = 1

\* The two bits of the first window and the signed digits of all windows add
\* up to the scalar (secp256k1.c:556-616), except in the gap.
CorrectOutsideGap == ret = "OK" /\ ~InGap(s) => r = s

\* Every element of table and temp that is accessed lies in table_storage,
\* however the array is aligned on the stack (secp256k1.c:490-493).
InStorage == slot >= 0 /\ align + EntrySize * (slot + 1) <= StorageSize

\* secp256k1.h:119: "r = scalar * point".
ResultIsScalarTimesPoint == ret = "OK" => r = s
=============================================================================
