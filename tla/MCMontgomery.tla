---------------------------- MODULE MCMontgomery ----------------------------
(***************************************************************************)
(* Limbs of two bits: all pairs of numbers of four limbs of which one at   *)
(* least is a residue.                                                     *)
(* The borrow that sqr_montq and from_mont misplace, of probability about  *)
(* 2^-64 a step in the code, is frequent here.                             *)
(***************************************************************************)
EXTENDS Montgomery
=============================================================================
