----------------------------- MODULE MCSysRand ------------------------------
(***************************************************************************)
(* Two threads that race through the initialisation, and later calls that  *)
(* meet what the first ones left; lengths below, at and above a chunk.  No *)
(* symmetry, for the sake of the liveness property.                        *)
(***************************************************************************)
EXTENDS SysRand
=============================================================================
