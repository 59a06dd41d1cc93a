-------------------------- MODULE MCScalarMulPoint --------------------------
(***************************************************************************)
(* Every scalar of 16 bits, which takes two turns of the loop; bit 14 sits *)
(* at bit 6 of its byte, as bit 254 does.  Of the stack table's alignments *)
(* the nearest and the farthest.                                           *)
(***************************************************************************)
EXTENDS ScalarMulPoint

MCShr(n, i) == IF i >= Bits THEN 0 ELSE n \div 2^i

AllScalars == 0..(2^Bits - 1)

InitExtreme == Init /\ align \in {1, 64}

SpecExtreme == InitExtreme /\ [][Next]_vars
=============================================================================
