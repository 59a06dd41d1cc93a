------------------------------ MODULE MCCodec -------------------------------
(***************************************************************************)
(* Binary digits, bytes of two of them and limbs of two bytes: every       *)
(* hexadecimal string up to four limbs, short ones with characters that    *)
(* are no digits, every byte string over three bytes, one string of either *)
(* kind that is too long, and every array for one word.                    *)
(***************************************************************************)
EXTENDS Codec, Bitwise

OrTable == [x \in 0..D - 1 |-> [y \in 0..D - 1 |-> x | y]]

StringsOver(chars, m) == UNION {[1..n -> chars] : n \in 0..m}

SomeBytes == StringsOver({0, 1, 3}, 4 * W) \cup {[k \in 1..4 * W + 1 |-> 1]}

SomeHex == StringsOver(0..D - 1, 8 * W) \cup StringsOver(0..High, 2 * W + 1)
             \cup {[k \in 1..8 * W + 1 |-> 0]}

AllWords == StringsOver(0..BB - 1, W + 1)
=============================================================================
