----------------------------- MODULE MCFieldOps -----------------------------
(***************************************************************************)
(* Four limbs of two bits, so that every pair of residues is tried: the    *)
(* field's modulus is 256 - 3, with C below one limb as 2^32 + 977 is.     *)
(***************************************************************************)
EXTENDS FieldOps

\* A modulus with the top bit clear, and one that is all ones.
SomeModuli == {115, 255}

\* Small addresses are not mapped; another word lies at a large one.
SomeMemory == [w \in 0..B - 1 |-> IF w < 2 THEN Fault ELSE B - w]
=============================================================================
