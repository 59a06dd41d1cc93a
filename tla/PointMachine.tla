---------------------------- MODULE PointMachine ----------------------------
(***************************************************************************)
(* What the point routines promise a caller that holds two points: group   *)
(* operations on logarithms, comparison, and conversion from and to affine *)
(* coordinates.  Curve implements it by Jacobian coordinates.  Once a call *)
(* has not been exact, nothing is promised.                                *)
(***************************************************************************)
EXTENDS PointByLog

\* What a holds when the given coordinates were not on the curve.
NotAPoint == -1

VARIABLES a, b, op, ret, exact

vars == <<a, b, op, ret, exact>>

Init == a = Infinity /\ b = Infinity /\ op = "none" /\ ret = "none" /\ exact = TRUE

Call(name, result) == op' = name /\ ret' = result

Set ==
  /\ \E k \in Points \ {Infinity} : a' = k
  /\ b' = b /\ Call("set_affine", "OK")

SetFails == a' = NotAPoint /\ b' = b /\ Call("set_affine", "ERR")

Keep == a # NotAPoint /\ b' = a /\ a' = a /\ Call("copy", "OK")

Dbl == a # NotAPoint /\ a' = PointDbl(a) /\ b' = b /\ Call("dbl", "none")

Add == a # NotAPoint /\ a' = PointAdd(a, b) /\ b' = b /\ Call("add", "none")

AddAffine == a # NotAPoint /\ a' = PointAddAffine(a, b) /\ b' = b /\ Call("add_affine", "none")

Cmp ==
  /\ a # NotAPoint
  /\ Call("cmp", IF a = b THEN "equal" ELSE "different")
  /\ UNCHANGED <<a, b>>

Normalise ==
  /\ a # NotAPoint
  /\ Call("normalise", IF a = Infinity THEN "ERR" ELSE "OK")
  /\ UNCHANGED <<a, b>>

Promised == Set \/ SetFails \/ Keep \/ Dbl \/ Add \/ AddAffine \/ Cmp \/ Normalise

Next == (exact /\ exact' /\ Promised) \/ ~exact'

Spec == Init /\ [][Next]_vars
=============================================================================
