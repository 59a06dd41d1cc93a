---------------------------- MODULE MCCryptoInit ----------------------------
(***************************************************************************)
(* Three threads with two calls each: one that uses the library, one that  *)
(* deinitialises it, and one that initialises it again.  No symmetry, for  *)
(* the sake of the liveness properties.                                    *)
(***************************************************************************)
EXTENDS CryptoInit
=============================================================================
