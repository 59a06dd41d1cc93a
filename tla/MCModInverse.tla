---------------------------- MODULE MCModInverse ----------------------------
(***************************************************************************)
(* Primes whose product is above 2^269, so that their residues determine   *)
(* every exponent that occurs.                                             *)
(***************************************************************************)
EXTENDS ModInverse

Primes == {32749, 32719, 32717, 32713, 32707, 32693, 32687, 32653, 32647,
           32633, 32621, 32611, 32609, 32603, 32587, 32579, 32573, 32569}
=============================================================================
