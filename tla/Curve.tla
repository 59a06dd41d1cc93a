------------------------------- MODULE Curve --------------------------------
(***************************************************************************)
(* The point routines in Jacobian coordinates: secp256k1_point_dbl,        *)
(* point_add and point_add_affine (the same text generated for both        *)
(* instruction sets), point_cmp, point_is_on_curve, point_get_affine and   *)
(* point_set_affine, over a field F_q and the curve y^2 = x^3 + 7.         *)
(*                                                                         *)
(* An element of the field is the residue that its Montgomery form stands  *)
(* for.  secp256k1_mul_mont and secp256k1_to_mont are right for every      *)
(* operand (see Montgomery): the one is the product, the other makes the   *)
(* element x of the number x.  secp256k1_sqr_mont, without ADX, and        *)
(* secp256k1_from_mont are wrong for some operands, and with the squaring  *)
(* secp256k1_mod_inverse; so what they return are parameters, of which     *)
(* nothing is assumed but that it is reduced.  What the routines promise   *)
(* they promise as long as they come upon no operand for which these are   *)
(* wrong.                                                                  *)
(***************************************************************************)
EXTENDS PointByLog

CONSTANTS
  q,          \* the field's prime
  Gx, Gy,     \* the generator
  SqrMont,    \* what secp256k1_sqr_mont returns,
  FromMont,   \* secp256k1_from_mont,
  ModInverse  \* and secp256k1_mod_inverse

ASSUME CurveAssumption ==
  /\ q \in Nat /\ q > 7 /\ q % 2 = 1
  /\ Gx \in 0..q - 1 /\ Gy \in 0..q - 1 /\ (Gy * Gy) % q = (Gx * Gx * Gx + 7) % q

VARIABLES
  a, b,       \* the caller's two points: <<X, Y, Z>>
  op, ret,    \* the last call, and its result if it has one
  exact       \* history: no call came upon an operand these are wrong for

vars == <<a, b, op, ret, exact>>

F == 0..q - 1

x ** y == (x * y) % q
x -- y == (x - y) % q
Sqr(x) == SqrMont[x]
Cube(x) == x ** Sqr(x)
Half(x) == IF x % 2 = 0 THEN x \div 2 ELSE (x + q) \div 2

\* q is a prime: what is not zero has an inverse.
ASSUME FieldAssumption == \A x \in 1..q - 1 : \E y \in F : x ** y = 1

ASSUME MontAssumption ==
  /\ SqrMont \in [F -> F] /\ FromMont \in [F -> F] /\ ModInverse \in [1..q - 1 -> F]

\* All of these elements are squared rightly.
Squares(X) == \A x \in X : Sqr(x) = x ** x

IsInfinity(p) == p[3] = 0

Zero == <<0, 0, 0>>

----------------------------------------------------------------------------
\* gen_double
JacobianDbl(p) ==
  LET Y2 == Sqr(2 ** p[2])
      M  == 3 ** Sqr(p[1])
      S  == Y2 ** p[1]
      X3 == Sqr(M) -- (2 ** S)
  IN  <<X3, ((S -- X3) ** M) -- Half(Sqr(Y2)), 2 ** (p[3] ** p[2])>>

DblExact(p) == Squares({p[1], 2 ** p[2], Sqr(2 ** p[2]), 3 ** Sqr(p[1])})

\* U1 and S1 of the code, and U2 and S2 with the points exchanged: X and Y of
\* the first over the product of the Zs.
XOver(p1, p2) == p1[1] ** Sqr(p2[3])
YOver(p1, p2) == p1[2] ** Cube(p2[3])

\* Slip: U1 * H^2 is subtracted once only.
Chord_Once(U1, S1, H, R, ZZ) ==
  LET X3 == (Sqr(R) -- (U1 ** Sqr(H))) -- Cube(H)
  IN  <<X3, (R ** ((U1 ** Sqr(H)) -- X3)) -- (S1 ** Cube(H)), H ** ZZ>>

\* The sum from U1 and S1 of the first point, H = U2 - U1 and R = S2 - S1, and
\* the product of the Zs.
Chord(U1, S1, H, R, ZZ) ==
  LET X3 == (Sqr(R) -- (2 ** (U1 ** Sqr(H)))) -- Cube(H)
  IN  <<X3, (R ** ((U1 ** Sqr(H)) -- X3)) -- (S1 ** Cube(H)), H ** ZZ>>

\* Slip: equal points are not looked for.
Add_NoDouble(p1, p2) ==
  IF IsInfinity(p2) THEN p1
  ELSE IF IsInfinity(p1) THEN p2
  ELSE Chord(XOver(p1, p2), YOver(p1, p2), XOver(p2, p1) -- XOver(p1, p2), YOver(p2, p1) -- YOver(p1, p2),
             p1[3] ** p2[3])

\* gen_add: equal Xs are doubled, or cancel, if neither point is infinity.
JacobianAdd(p1, p2) ==
  LET H == XOver(p2, p1) -- XOver(p1, p2)
      R == YOver(p2, p1) -- YOver(p1, p2)
  IN  IF H = 0 /\ ~IsInfinity(p1) /\ ~IsInfinity(p2)
      THEN IF R = 0 THEN JacobianDbl(p1) ELSE Zero
      ELSE IF IsInfinity(p2) THEN p1
      ELSE IF IsInfinity(p1) THEN p2
      ELSE Chord(XOver(p1, p2), YOver(p1, p2), H, R, p1[3] ** p2[3])

\* Of the squares only those count that the result is made of.
AddExact(p1, p2) ==
  LET H == XOver(p2, p1) -- XOver(p1, p2)
      R == YOver(p2, p1) -- YOver(p1, p2)
  IN  IsInfinity(p1) \/ IsInfinity(p2) \/
        /\ Squares({p1[3], p2[3]})
        /\ IF H # 0 THEN Squares({H, R}) ELSE R = 0 => DblExact(p1)

\* gen_add_affine: no doubling; (0, 0) stands for infinity.
JacobianAddAffine(p, e) ==
  LET H == (Sqr(p[3]) ** e[1]) -- p[1]
      R == (Cube(p[3]) ** e[2]) -- p[2]
  IN  IF e = <<0, 0>> THEN p
      ELSE IF IsInfinity(p) THEN <<e[1], e[2], 1>>
      ELSE Chord(p[1], p[2], H, R, p[3])

AddAffineExact(p, e) ==
  e = <<0, 0>> \/ IsInfinity(p) \/
    Squares({p[3], (Sqr(p[3]) ** e[1]) -- p[1], (Cube(p[3]) ** e[2]) -- p[2]})

\* secp256k1_point_cmp returns 0: equal.
PointCmp(p1, p2) ==
  IF IsInfinity(p1) \/ IsInfinity(p2)
  THEN IsInfinity(p1) /\ IsInfinity(p2)
  ELSE XOver(p1, p2) = XOver(p2, p1) /\ YOver(p1, p2) = YOver(p2, p1)

CmpExact(p1, p2) == IsInfinity(p1) \/ IsInfinity(p2) \/ Squares({p1[3], p2[3]})

\* secp256k1_point_is_on_curve: a point at infinity always is.
IsOnCurve(p) ==
  IsInfinity(p) \/ Sqr(p[2]) = (Cube(p[1]) + 7 ** Sqr(Cube(p[3]))) % q

OnCurveExact(p) == IsInfinity(p) \/ Squares({p[1], p[2], p[3], Cube(p[3])})

\* secp256k1_point_get_affine, of a point that is not infinity
GetAffine(p) ==
  LET zi == ModInverse[p[3]]
  IN  <<FromMont[Sqr(zi) ** p[1]], FromMont[(zi ** Sqr(zi)) ** p[2]]>>

GetAffineExact(p) ==
  LET zi == ModInverse[p[3]]
  IN  /\ p[3] ** zi = 1 /\ Squares({zi})
      /\ \A x \in {Sqr(zi) ** p[1], (zi ** Sqr(zi)) ** p[2]} : FromMont[x] = x

----------------------------------------------------------------------------
\* Both points are variables of the caller that memset has cleared.
Init == a = Zero /\ b = Zero /\ op = "none" /\ ret = "none" /\ exact = TRUE

\* The caller stops at a call that was not exact: nothing is promised then.
Call(name, result, callExact) ==
  exact /\ op' = name /\ ret' = result /\ exact' = callExact

\* secp256k1_point_set_affine fills the point in before it is tested;
\* secp256k1_to_mont makes the elements of the numbers.
FillIn(x, y) == a' = <<x, y, 1>> /\ b' = b

SetAffine(x, y) ==
  /\ FillIn(x, y)
  /\ Call("set_affine", IF IsOnCurve(a') THEN "OK" ELSE "ERR", OnCurveExact(a'))

\* A caller does not go on with a point that set_affine has refused.
Refused == op = "set_affine" /\ ret = "ERR"

Copy == ~Refused /\ b' = a /\ a' = a /\ Call("copy", "OK", TRUE)

\* The result is written over the first operand.
PointDblInPlace ==
  ~Refused /\ a' = JacobianDbl(a) /\ b' = b /\ Call("dbl", "none", DblExact(a))

PointAddInPlace ==
  ~Refused /\ a' = JacobianAdd(a, b) /\ b' = b /\ Call("add", "none", AddExact(a, b))

\* The affine operand is b's, or zero if get_affine refuses it.
PointAddAffineInPlace ==
  /\ ~Refused
  /\ LET e == IF IsInfinity(b) THEN <<0, 0>> ELSE GetAffine(b)
     IN  /\ a' = JacobianAddAffine(a, e) /\ b' = b
         /\ Call("add_affine", "none",
                 AddAffineExact(a, e) /\ (IsInfinity(b) \/ GetAffineExact(b)))

Compare ==
  /\ ~Refused
  /\ Call("cmp", IF PointCmp(a, b) THEN "equal" ELSE "different", CmpExact(a, b))
  /\ UNCHANGED <<a, b>>

\* get_affine and set_affine of its result; infinity is refused.
Normalise ==
  /\ ~Refused
  /\ IF IsInfinity(a)
     THEN Call("normalise", "ERR", TRUE) /\ UNCHANGED <<a, b>>
     ELSE LET e == GetAffine(a)
          IN  /\ FillIn(e[1], e[2])
              /\ Call("normalise", IF IsOnCurve(a') THEN "OK" ELSE "ERR",
                      GetAffineExact(a) /\ OnCurveExact(a'))

Stopped == ~exact /\ UNCHANGED vars

Next ==
  \/ \E x, y \in F : SetAffine(x, y)
  \/ Copy \/ PointDblInPlace \/ PointAddInPlace \/ PointAddAffineInPlace
  \/ Compare \/ Normalise \/ Stopped

Spec == Init /\ [][Next]_vars

----------------------------------------------------------------------------
Triples == F \X F \X F

TypeOK ==
  /\ a \in Triples /\ b \in Triples
  /\ op \in {"none", "set_affine", "copy", "dbl", "add", "add_affine", "cmp", "normalise"}
  /\ ret \in {"none", "OK", "ERR", "equal", "different"}
  /\ exact \in BOOLEAN

\* The reference: true squares and inverses, and the curve's equation in
\* Jacobian form.
Square(x) == x ** x
Cubed(x) == x ** Square(x)

Reciprocal[z \in 1..q - 1] == CHOOSE w \in F : z ** w = 1

OnTheCurve(p) == Square(p[2]) = (Cubed(p[1]) + 7 ** Square(Cubed(p[3]))) % q

\* Whatever routines a caller combines, in place or not, every point that it
\* holds satisfies the curve's equation, as long as no operand was met that
\* is squared or converted wrongly, and except for coordinates that set_affine
\* has filled in and refused.  A point at infinity satisfies it too: no routine
\* yields a Z of 0 with arbitrary X and Y, from which doubling would go on
\* (secp256k1-x86_64.pl:1781-2581, secp256k1.c:652-664).
StaysOnCurve ==
  /\ TypeOK
  /\ exact => OnTheCurve(b) /\ (OnTheCurve(a) \/ Refused)

\* The multiples of G by the affine group law.
AffineAdd(e, f) ==
  IF e[1] = f[1] /\ (e[2] + f[2]) % q = 0 THEN <<0, 0>>
  ELSE LET m == IF e = f THEN (3 ** Square(e[1])) ** Reciprocal[2 ** e[2]]
                ELSE (f[2] -- e[2]) ** Reciprocal[f[1] -- e[1]]
           x == (Square(m) -- e[1]) -- f[1]
       IN  <<x, (m ** (e[1] -- x)) -- e[2]>>

Multiple[k \in 0..N - 1] ==
  IF k = 0 THEN <<0, 0>> ELSE IF k = 1 THEN <<Gx, Gy>> ELSE AffineAdd(Multiple[k - 1], <<Gx, Gy>>)

\* The points of the curve are a cyclic group of order N that G generates, and
\* AffineAdd is its law.
ASSUME GroupAssumption ==
  /\ {Multiple[k] : k \in 1..N - 1} = {e \in F \X F : OnTheCurve(<<e[1], e[2], 1>>)}
  /\ \A k, l \in 1..N - 1 :
       /\ AffineAdd(Multiple[k], Multiple[l]) = Multiple[PointAdd(k, l)]
       /\ Multiple[k] = Multiple[l] => k = l

AffineLog[e \in {Multiple[k] : k \in 1..N - 1}] == CHOOSE k \in 1..N - 1 : Multiple[k] = e

\* The affine coordinates that X, Y and Z stand for
ToAffine(p) ==
  LET w == Reciprocal[p[3]] IN <<Square(w) ** p[1], (w ** Square(w)) ** p[2]>>

\* The logarithm of a point to the base G, or -1 off the curve
Log(p) ==
  IF IsInfinity(p) THEN 0
  ELSE IF OnTheCurve(p) THEN AffineLog[ToAffine(p)]
  ELSE -1

\* In terms of logarithms the routines do what PointMachine says: doubling
\* and addition are complete, addition of an affine point is except for equal
\* points, comparison is equality of points whatever their Zs, conversion to
\* affine coordinates and back keeps the point, and affine coordinates are
\* accepted exactly if they are on the curve; all this up to the first call
\* that comes upon an operand that sqr_mont, from_mont or mod_inverse is wrong
\* for (secp256k1-x86_64.pl:1781-2581, secp256k1.c:159-227, 623-664).
Machine == INSTANCE PointMachine WITH a <- Log(a), b <- Log(b)

ImplementsPointMachine == Machine!Spec
=============================================================================
