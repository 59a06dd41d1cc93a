------------------------------- MODULE MCLock -------------------------------
(***************************************************************************)
(* Three threads with two calls each, on every build: enough for a third   *)
(* thread to enter between the stray leave of one and the leave of another *)
(* one.  No symmetry, for the sake of the liveness properties.             *)
(***************************************************************************)
EXTENDS Lock
=============================================================================
