------------------------------- MODULE Codec --------------------------------
(***************************************************************************)
(* Numbers of four limbs from and to bytes and hexadecimal digits:         *)
(* fp256_set_bytes, fp256_set_hex, fp256_get_bytes and fp256_get_hex, with *)
(* the conversions of single words in common.c, on a little-endian         *)
(* machine, and the comparison of such numbers.  A character of a          *)
(* hexadecimal string is its digit's value, NoDigit, or High if it has     *)
(* code 128 or more.                                                       *)
(***************************************************************************)
EXTENDS Integers, Sequences, SequencesExt

CONSTANTS
  D,           \* values of a digit: 16
  DigitOr,     \* the bitwise or of two digits
  W, H,        \* bytes of a limb: 8; of a 32-bit word: 4
  ByteInputs,  \* byte strings, of at most and of more than 4 * W bytes
  HexInputs,   \* hexadecimal strings, of at most and of more than 8 * W digits
  WordInputs   \* byte strings for one word

BB      == D * D    \* values of a byte
NoDigit == D
High    == D + 1

ASSUME BaseAssumption  == D \in Nat /\ D > 1 /\ W \in Nat \ {0} /\ H \in 1..W
ASSUME OrAssumption ==
  /\ DigitOr \in [0..D - 1 -> [0..D - 1 -> 0..D - 1]]
  /\ \A d \in 0..D - 1 : DigitOr[0][d] = d /\ DigitOr[d][0] = d
ASSUME InputAssumption ==
  /\ ByteInputs \subseteq Seq(0..BB - 1) /\ WordInputs \subseteq Seq(0..BB - 1)
  /\ HexInputs \subseteq Seq(0..High)

VARIABLES
  kind,    \* "bytes", "hex", or "u64" and "u32" for a single word
  order,   \* the byte order asked for
  input,   \* the caller's array
  beyond,  \* the byte that lies behind inv_ascii_table
  len,     \* blen or hexlen
  num, i,  \* the number's limbs, r in the code, and which is next
  out,     \* the array that get_bytes or get_hex fills
  written, \* the digits a word is converted to
  other,   \* the number it was compared with, and the result
  cmp,
  pc, ret

caller    == <<kind, order, input, beyond>>
codecVars == <<caller, len, num, i, out, written, other, cmp, pc, ret>>

Limbs == 0..3

----------------------------------------------------------------------------
\* The number with the given digits, the most significant one first.
Number(digits, base) ==
  LET upTo[k \in 0..Len(digits)] == IF k = 0 THEN 0 ELSE upTo[k - 1] * base + digits[k]
  IN  upTo[Len(digits)]

Zeros(n) == [k \in 1..n |-> 0]

Power(base, n) == Number(<<1>> \o Zeros(n), base)

\* BSWAP8, BSWAP4
BSwap(word) == Reverse(word)

\* A word as it lies in memory, and the number it is.
Load(word, o)  == Number(IF o = "little" THEN BSwap(word) ELSE word, BB)
Store(n, w, o) ==
  LET word == [k \in 1..w |-> (n \div Power(BB, k - 1)) % BB]
  IN  IF o = "little" THEN word ELSE BSwap(word)

\* Slip: the word is taken from the start of the zeros.
U8ToU64_NoOffset(in, o) == Load(SubSeq(Zeros(W) \o in, 1, W), o)

\* The input is put behind a word of zeros, and the word is loaded whose last
\* byte is the input's last, in either order.
U8ToU64(in, o) == Load(SubSeq(Zeros(W) \o in, Len(in) + 1, Len(in) + W), o)
U8ToU32(in, o) == Load(SubSeq(Zeros(H) \o in, Len(in) + 1, Len(in) + H), o)

U64ToU8(n, o) == Store(n, W, o)
U32ToU8(n, o) == Store(n, H, o)

ToBe32(n) == Load(Store(n, H, "little"), "big")
ToLe32(n) == n

U8ToHex(in) == [k \in 1..2 * Len(in) |->
  IF k % 2 = 1 THEN in[(k + 1) \div 2] \div D ELSE in[k \div 2] % D]

\* u32_to_hex: the k-th digit from the top, with the bytes in either order.
U32ToHex(n, o) ==
  LET Digit(k) == (n \div Power(D, 2 * H - k)) % D
  IN  [k \in 1..2 * H |-> Digit(IF o = "big" THEN k
                                ELSE IF k % 2 = 1 THEN 2 * H - k ELSE 2 * H + 2 - k)]

\* inv_ascii_table; what is read for High lies behind it.
InvAscii(c) == IF c < D THEN c ELSE IF c = NoDigit THEN BB - 1 ELSE beyond

\* Two bytes or-ed
OrBytes(x, y) == DigitOr[x \div D][y \div D] * D + DigitOr[x % D][y % D]

\* If there is an odd number of digits, the first makes a byte of its own; a
\* byte is the two table values, shifted and or-ed, and cut off.
HexToU8(in) ==
  LET odd  == Len(in) % 2
      rest == [k \in 1..Len(in) \div 2 |->
                 OrBytes((InvAscii(in[odd + 2 * k - 1]) * D) % BB, InvAscii(in[odd + 2 * k]))]
  IN  IF odd = 1 THEN <<InvAscii(in[1])>> \o rest ELSE rest

\* Slip: digits are accumulated in the word, and a wrong one carries over.
HexToU64_Accumulates(in, o) ==
  Number([k \in DOMAIN in |-> InvAscii(in[k])], D) % Power(BB, W)

HexToU64(in, o) ==
  LET bytes == HexToU8(in) IN U8ToU64(Zeros(W - Len(bytes)) \o bytes, o)

U64ToHex(n, o) == U8ToHex(U64ToU8(n, o))

SetWord(w)   == [k \in Limbs |-> IF k = 0 THEN w ELSE 0]
SetOne       == SetWord(1)
IsZero(a)    == \A k \in Limbs : a[k] = 0

\* Slip: the lowest limb is looked at first.
Cmp_LowFirst(a, b) ==
  IF a = b THEN 0
  ELSE LET k == CHOOSE k \in Limbs : a[k] # b[k] /\ \A n \in 0..k - 1 : a[n] = b[n]
       IN  IF a[k] > b[k] THEN 1 ELSE -1

\* fp256_cmp: the highest limb in which the two differ decides.
Cmp(a, b) ==
  IF a = b THEN 0
  ELSE LET k == CHOOSE k \in Limbs : a[k] # b[k] /\ \A n \in k + 1..3 : a[n] = b[n]
       IN  IF a[k] > b[k] THEN 1 ELSE -1

----------------------------------------------------------------------------
Unit  == IF kind = "bytes" THEN W ELSE 2 * W
Width == IF kind = "u64" THEN W ELSE H

ToLimb(digits) == IF kind = "bytes" THEN U8ToU64(digits, "big") ELSE HexToU64(digits, "big")

CodecInit ==
  /\ \/ kind = "bytes" /\ input \in ByteInputs /\ order = "big"
     \/ kind = "hex"   /\ input \in HexInputs  /\ order = "big"
     \/ kind = "u64"   /\ input \in WordInputs /\ order \in {"big", "little"}
     \/ kind = "u32"   /\ input \in WordInputs /\ order \in {"big", "little"}
  /\ beyond \in IF kind = "hex" /\ \E k \in DOMAIN input : input[k] = High
                THEN 0..BB - 1 ELSE {0}
  /\ len = Len(input)
  /\ num = [k \in Limbs |-> Power(BB, W) - 1]     \* what the object held before
  /\ i = 0 /\ out = <<>> /\ written = <<>> /\ other = num /\ cmp = 0
  /\ pc = (IF kind \in {"bytes", "hex"} THEN "set" ELSE "word") /\ ret = "none"

\* Slip: the length is not looked at.
SetBegins_AnyLength ==
  /\ pc = "set"
  /\ num' = [k \in Limbs |-> 0]
  /\ pc' = "loop" /\ ret' = ret
  /\ UNCHANGED <<caller, len, i, out, written, other, cmp>>

\* The number is cleared before the length is looked at.
SetBegins ==
  /\ pc = "set"
  /\ num' = [k \in Limbs |-> 0]
  /\ IF len > 4 * Unit THEN pc' = "done" /\ ret' = "ERR"
                       ELSE pc' = "loop" /\ ret' = ret
  /\ UNCHANGED <<caller, len, i, out, written, other, cmp>>

\* Full limbs, from the end of the array.
SetLimb ==
  /\ pc = "loop" /\ len >= Unit
  /\ num' = [num EXCEPT ![i] = ToLimb(SubSeq(input, len - Unit + 1, len))]
  /\ len' = len - Unit /\ i' = i + 1
  /\ UNCHANGED <<caller, out, written, other, cmp, pc, ret>>

\* What is left at the array's start.
SetRest ==
  /\ pc = "loop" /\ len < Unit
  /\ num' = IF len > 0 THEN [num EXCEPT ![i] = ToLimb(SubSeq(input, 1, len))] ELSE num
  /\ pc' = "get" /\ ret' = "OK"
  /\ UNCHANGED <<caller, len, i, out, written, other, cmp>>

FromLimb(n) == IF kind = "bytes" THEN U64ToU8(n, "big") ELSE U64ToHex(n, "big")

\* fp256_get_bytes or fp256_get_hex
Get ==
  /\ pc = "get"
  /\ out' = FromLimb(num[3]) \o FromLimb(num[2]) \o FromLimb(num[1]) \o FromLimb(num[0])
  /\ pc' = "done"
  /\ UNCHANGED <<caller, len, num, i, written, other, cmp, ret>>

\* Arrays longer than a word are refused, and nothing is written.
WordRefused ==
  /\ pc = "word" /\ len > Width
  /\ pc' = "done" /\ ret' = "ERR"
  /\ UNCHANGED <<caller, len, num, i, out, written, other, cmp>>

\* The conversions of a single word, there and back, and its digits.
ConvertWord ==
  /\ pc = "word" /\ len <= Width
  /\ IF kind = "u64"
       THEN /\ num'     = SetWord(U8ToU64(input, order))
            /\ out'     = U64ToU8(num'[0], order)
            /\ written' = U64ToHex(num'[0], order)
       ELSE /\ num'     = SetWord(U8ToU32(input, order))
            /\ out' \in {U32ToU8(num'[0], order),
                          U32ToU8(IF order = "big" THEN ToBe32(num'[0]) ELSE ToLe32(num'[0]), "little")}
            /\ written' = U32ToHex(num'[0], order)
  /\ pc' = "done" /\ ret' = "OK"
  /\ UNCHANGED <<caller, len, i, other, cmp>>

\* The number is compared with one made of its lowest limb, with 1, and with
\* its limbs in the other order.
Compare ==
  /\ pc = "done"
  /\ other' \in {SetWord(num[0]), SetOne, [k \in Limbs |-> num[3 - k]]}
  /\ cmp' = Cmp(num, other')
  /\ pc' = "compared"
  /\ UNCHANGED <<caller, len, num, i, out, written, ret>>

Returned == pc = "compared" /\ UNCHANGED codecVars

CodecNext ==
  \/ SetBegins \/ SetLimb \/ SetRest \/ Get \/ WordRefused \/ ConvertWord
  \/ Compare \/ Returned

CodecSpec == CodecInit /\ [][CodecNext]_codecVars

----------------------------------------------------------------------------
LimbBase == Power(BB, W)

Value(a) == a[0] + LimbBase * (a[1] + LimbBase * (a[2] + LimbBase * a[3]))

Base == IF kind = "bytes" THEN BB ELSE D

Legible == kind = "hex" => \A k \in DOMAIN input : input[k] < D

CodecTypeOK ==
  /\ kind \in {"bytes", "hex", "u64", "u32"} /\ order \in {"big", "little"}
  /\ beyond \in 0..BB - 1 /\ len \in 0..Len(input) /\ i \in 0..4
  /\ num \in [Limbs -> 0..LimbBase - 1] /\ other \in [Limbs -> 0..LimbBase - 1]
  /\ cmp \in {-1, 0, 1} /\ ret \in {"none", "OK", "ERR"}
  /\ pc \in {"set", "loop", "get", "word", "done", "compared"}

\* The limbs converted so far are the number written in the part of the
\* array behind len, and no limb beyond the fourth is written
\* (fp256.c:86-97, 136-147).
PartialNumber ==
  /\ CodecTypeOK
  /\ pc = "loop" /\ Legible => Value(num) = Number(SubSeq(input, len + 1, Len(input)), Base)
  /\ pc = "loop" /\ len > 0 => i \in Limbs

\* Written out again a number or a word is the array, filled up with zeros in
\* front, in either byte order; an array that is too long leaves zero, not the
\* object's old value, in a number, and leaves a word alone.  In little-endian
\* order the zeros are low bytes, so that a short array stands for a larger
\* number (common.c:67-195, fp256.c:75-163).
RoundTrip ==
  pc = "done" /\ Legible =>
    /\ ret = "ERR" =>
         IF kind \in {"bytes", "hex"} THEN Len(input) > 4 * Unit /\ IsZero(num)
         ELSE Len(input) > Width /\ \A k \in Limbs : num[k] = LimbBase - 1
    /\ ret = "OK" /\ kind \in {"bytes", "hex"} => out = Zeros(4 * Unit - Len(input)) \o input
    /\ ret = "OK" /\ kind \in {"u64", "u32"} =>
         /\ out = Zeros(Width - Len(input)) \o input
         /\ written = U8ToHex(out)
         /\ num[0] = IF order = "big" THEN Number(input, BB)
                   ELSE Number(Reverse(input), BB) * Power(BB, Width - Len(input))

\* A character that is no digit goes unreported, but even one for which the
\* table is read beyond its end spoils no more than the byte it belongs to
\* (common.c:211-230).
DamageIsLocal ==
  pc = "done" /\ kind = "hex" /\ ret = "OK" =>
    LET in == Zeros(4 * Unit - Len(input)) \o input
    IN  \A k \in 1..2 * Unit :
          in[2 * k - 1] < D /\ in[2 * k] < D =>
            out[2 * k - 1] = in[2 * k - 1] /\ out[2 * k] = in[2 * k]

\* fp256.h: "1 : a > b, 0 : a = b, -1 : a < b", as numbers.
CompareRight ==
  pc = "compared" =>
    /\ cmp = 1 <=> Value(num) > Value(other)
    /\ cmp = 0 <=> Value(num) = Value(other)
    /\ cmp = -1 <=> Value(num) < Value(other)
=============================================================================
