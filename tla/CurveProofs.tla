------------------------------ MODULE CurveProofs ------------------------------
(***************************************************************************)
(* What the lemmas of PointsProofs about single operations say of the      *)
(* behaviours of module Curve.                                             *)
(***************************************************************************)
EXTENDS Curve, PointsProofs, TLAPS

-----------------------------------------------------------------------------
(* The group's own copies of the operations are the operations             *)

LEMMA SameConstants ==
    /\ Law!Broken = Broken /\ Law!NoZ = NoZ /\ Law!fe_clear = fe_clear
    /\ Law!gej_set_infinity = gej_set_infinity /\ Law!Infinity = Infinity
    /\ Law!Points = Points
  BY Zenon DEF Law!Broken, Broken, Law!NoZ, NoZ, Law!fe_clear, fe_clear, Law!Fe, Fe,
     Law!gej_set_infinity, gej_set_infinity, Law!Gej, Gej, Law!Infinity, Infinity,
     Law!Points, Points

LEMMA SameMakers ==
    /\ \A x, m, n : Law!Fe(x, m, n) = Fe(x, m, n)
    /\ \A x : Law!set_int(x) = set_int(x)
    /\ \A x : Law!Sound(x) <=> Sound(x)
    /\ \A x, y, b : Law!Ge(x, y, b) = Ge(x, y, b)
    /\ \A x, y, z, b : Law!Gej(x, y, z, b) = Gej(x, y, z, b)
    /\ \A x, y : Law!With(x, y) = With(x, y)
  BY Zenon DEF Law!Fe, Fe, Law!set_int, set_int, Law!Sound, Sound, Law!Ge, Ge, Law!Gej, Gej,
     Law!With, With

LEMMA SameFieldSteps ==
    /\ \A x, y : Law!mul(x, y) = mul(x, y)
    /\ \A x : Law!sqr(x) = sqr(x)
    /\ \A x, y : Law!fe_add(x, y) = fe_add(x, y)
    /\ \A x, m : Law!fe_negate(x, m) = fe_negate(x, m)
    /\ \A x, m : Law!mul_int(x, m) = mul_int(x, m)
    /\ \A x : Law!normalize_weak(x) = normalize_weak(x)
    /\ \A x : Law!normalize(x) = normalize(x)
    /\ \A x : Law!normalizes_to_zero(x) <=> normalizes_to_zero(x)
<1>1. \A x, y : Law!mul(x, y) = mul(x, y)
  BY Zenon DEF Law!mul, mul, Law!Fe, Fe, Law!Broken, Broken
<1>2. \A x : Law!sqr(x) = sqr(x)
  BY <1>1 DEF Law!sqr, sqr
<1>3. \A x, y : Law!fe_add(x, y) = fe_add(x, y)
  BY Zenon DEF Law!fe_add, fe_add, Law!Fe, Fe, Law!Broken, Broken
<1>4. \A x, m : Law!fe_negate(x, m) = fe_negate(x, m)
  BY Zenon DEF Law!fe_negate, fe_negate, Law!Fe, Fe, Law!Broken, Broken
<1>5. \A x, m : Law!mul_int(x, m) = mul_int(x, m)
  BY Zenon DEF Law!mul_int, mul_int, Law!Fe, Fe, Law!Broken, Broken
<1>6. \A x : Law!normalize_weak(x) = normalize_weak(x)
  BY Zenon DEF Law!normalize_weak, normalize_weak, Law!Sound, Sound, Law!Broken, Broken
<1>7. \A x : Law!normalize(x) = normalize(x)
  BY Zenon DEF Law!normalize, normalize, Law!Sound, Sound, Law!Fe, Fe, Law!Broken, Broken
<1>8. \A x : Law!normalizes_to_zero(x) <=> normalizes_to_zero(x)
  BY Zenon DEF Law!normalizes_to_zero, normalizes_to_zero
<1> QED
  BY <1>1, <1>2, <1>3, <1>4, <1>5, <1>6, <1>7, <1>8

LEMMA SameChoices ==
    /\ \A x, y, b : Law!cmov(x, y, b) = cmov(x, y, b)
    /\ \A x, y : Law!fe_equal(x, y) <=> fe_equal(x, y)
    /\ \A x, e : Law!Power(x, e) = Power(x, e)
    /\ \A x : Law!fe_inv(x) = fe_inv(x)
<1>1. \A x, y, b : Law!cmov(x, y, b) = cmov(x, y, b)
  BY Zenon DEF Law!cmov, cmov, Law!Sound, Sound, Law!Fe, Fe, Law!Broken, Broken
<1>2. \A x, y : Law!fe_equal(x, y) <=> fe_equal(x, y)
  BY Zenon, SameFieldSteps DEF Law!fe_equal, fe_equal, Law!normalizes_to_zero,
     normalizes_to_zero, Law!fe_add, fe_add, Law!fe_negate, fe_negate, Law!Fe, Fe,
     Law!Broken, Broken
<1>3. \A x, e : Law!Power(x, e) = Power(x, e)
  BY Zenon DEF Law!Power, Power
<1>4. \A x : Law!fe_inv(x) = fe_inv(x)
  BY <1>3, SameMakers, SameConstants DEF Law!fe_inv, fe_inv
<1> QED
  BY <1>1, <1>2, <1>3, <1>4

LEMMA SameRoots ==
    /\ \A x : Law!fe_sqrt(x) = fe_sqrt(x)
    /\ \A x : Law!is_quad_var(x) <=> is_quad_var(x)
    /\ \A x : Law!set_xquad(x) = set_xquad(x)
    /\ \A x, y : Law!set_xo_var(x, y) = set_xo_var(x, y)
<1>1. \A x : Law!fe_sqrt(x) = fe_sqrt(x)
  BY SameFieldSteps, SameChoices, SameMakers, SameConstants DEF Law!fe_sqrt, fe_sqrt
<1>2. \A x : Law!is_quad_var(x) <=> is_quad_var(x)
  BY <1>1 DEF Law!is_quad_var, is_quad_var
<1>3. \A x : Law!set_xquad(x) = set_xquad(x)
  BY <1>1, SameFieldSteps, SameMakers DEF Law!set_xquad, set_xquad
<1>4. \A x, y : Law!set_xo_var(x, y) = set_xo_var(x, y)
  BY <1>3, SameFieldSteps DEF Law!set_xo_var, set_xo_var
<1> QED
  BY <1>1, <1>2, <1>3, <1>4

LEMMA SameConversions ==
    /\ \A x, y : Law!set_gej_zinv(x, y) = set_gej_zinv(x, y)
    /\ \A x : Law!ge_neg(x) = ge_neg(x)
    /\ \A x : Law!set_gej(x) = set_gej(x)
    /\ \A x : Law!set_ge(x) = set_ge(x)
    /\ \A x : Law!gej_neg(x) = gej_neg(x)
    /\ \A x : Law!Affine(x) = Affine(x)
    /\ \A x, y : Law!rescale(x, y) = rescale(x, y)
<1>1. \A x, y : Law!set_gej_zinv(x, y) = set_gej_zinv(x, y)
  BY SameFieldSteps, SameMakers DEF Law!set_gej_zinv, set_gej_zinv
<1>2. /\ \A x : Law!ge_neg(x) = ge_neg(x)
      /\ \A x : Law!gej_neg(x) = gej_neg(x)
  BY SameFieldSteps DEF Law!ge_neg, ge_neg, Law!gej_neg, gej_neg
<1>3. \A x : Law!set_gej(x) = set_gej(x)
  BY <1>1, SameChoices DEF Law!set_gej, set_gej
<1>4. \A x : Law!set_ge(x) = set_ge(x)
  BY SameMakers DEF Law!set_ge, set_ge
<1>5. \A x : Law!Affine(x) = Affine(x)
  BY SameMakers, SameConstants DEF Law!Affine, Affine
<1>6. \A x, y : Law!rescale(x, y) = rescale(x, y)
  BY SameFieldSteps, SameMakers DEF Law!rescale, rescale
<1> QED
  BY <1>1, <1>2, <1>3, <1>4, <1>5, <1>6

LEMMA SameTests ==
    /\ \A x, y : Law!eq_x_var(x, y) <=> eq_x_var(x, y)
    /\ \A x : Law!gej_is_valid_var(x) <=> gej_is_valid_var(x)
    /\ \A x : Law!ge_is_valid_var(x) <=> ge_is_valid_var(x)
    /\ \A x : Law!has_quad_y_var(x) <=> has_quad_y_var(x)
<1>1. \A x, y : Law!eq_x_var(x, y) <=> eq_x_var(x, y)
  BY SameFieldSteps, SameChoices DEF Law!eq_x_var, eq_x_var
<1>2. \A x, y, b : Law!OnCurve(x, y, b) <=> OnCurve(x, y, b)
  BY SameFieldSteps, SameChoices DEF Law!OnCurve, OnCurve
<1>3. \A x : Law!gej_is_valid_var(x) <=> gej_is_valid_var(x)
  BY <1>2, SameFieldSteps DEF Law!gej_is_valid_var, gej_is_valid_var
<1>4. \A x : Law!ge_is_valid_var(x) <=> ge_is_valid_var(x)
  BY <1>2, SameFieldSteps, SameMakers DEF Law!ge_is_valid_var, ge_is_valid_var
<1>5. \A x : Law!has_quad_y_var(x) <=> has_quad_y_var(x)
  BY SameFieldSteps, SameRoots DEF Law!has_quad_y_var, has_quad_y_var
<1> QED
  BY <1>1, <1>3, <1>4, <1>5

LEMMA SameSums ==
    /\ \A s : Law!Opposite(s) = Opposite(s)
    /\ \A s, t : Law!Plus(s, t) = Plus(s, t)
<1>1. \A s : Law!Opposite(s) = Opposite(s)
  BY SameConstants DEF Law!Opposite, Opposite
<1>2. \A s, t : Law!Plus(s, t) = Plus(s, t)
  BY Zenon, SameConstants, <1>1 DEF Law!Plus, Plus, Law!Opposite, Opposite, Law!Infinity, Infinity
<1> QED
  BY <1>1, <1>2

LEMMA SameAdd ==
    ASSUME \A x : Law!double_var(x) = double_var(x), NEW a, NEW u1, NEW u2, NEW s1, NEW s2, NEW bz
    PROVE  Law!Add(a, u1, u2, s1, s2, bz) = Add(a, u1, u2, s1, s2, bz)
<1> DEFINE h == fe_add(fe_negate(u1, 1), u2)
<1> DEFINE l == fe_add(fe_negate(s1, 1), s2)
<1> DEFINE t == mul(u1, sqr(h))
<1> DEFINE h3 == mul(h, sqr(h))
<1> DEFINE x == fe_add(fe_negate(fe_add(mul_int(t, 2), h3), 3), sqr(l))
<1> DEFINE y == fe_add(mul(fe_add(fe_negate(x, 5), t), l), fe_negate(mul(h3, s1), 1))
<1> DEFINE rzr == IF bz = NoZ THEN h ELSE mul(h, bz)
<1>1. Add(a, u1, u2, s1, s2, bz) =
        IF normalizes_to_zero(h)
        THEN IF normalizes_to_zero(l) THEN double_var(a)
             ELSE With([a EXCEPT !.inf = TRUE], set_int(0))
        ELSE With(Gej(x, y, mul(a.z, rzr), FALSE), rzr)
  BY Zenon DEF Add
<1> DEFINE lh == Law!fe_add(Law!fe_negate(u1, 1), u2)
<1> DEFINE ll == Law!fe_add(Law!fe_negate(s1, 1), s2)
<1> DEFINE lt == Law!mul(u1, Law!sqr(lh))
<1> DEFINE lh3 == Law!mul(lh, Law!sqr(lh))
<1> DEFINE lx == Law!fe_add(Law!fe_negate(Law!fe_add(Law!mul_int(lt, 2), lh3), 3), Law!sqr(ll))
<1> DEFINE ly == Law!fe_add(Law!mul(Law!fe_add(Law!fe_negate(lx, 5), lt), ll),
                            Law!fe_negate(Law!mul(lh3, s1), 1))
<1> DEFINE lrzr == IF bz = Law!NoZ THEN lh ELSE Law!mul(lh, bz)
<1>2. Law!Add(a, u1, u2, s1, s2, bz) =
        IF Law!normalizes_to_zero(lh)
        THEN IF Law!normalizes_to_zero(ll) THEN Law!double_var(a)
             ELSE Law!With([a EXCEPT !.inf = TRUE], Law!set_int(0))
        ELSE Law!With(Law!Gej(lx, ly, Law!mul(a.z, lrzr), FALSE), lrzr)
  BY Zenon DEF Law!Add
<1> HIDE DEF rzr, y, x, h3, t, l, h, lrzr, ly, lx, lh3, lt, ll, lh
<1>3. lh = h /\ ll = l
  BY SameFieldSteps DEF lh, h, ll, l
<1>4. lt = t /\ lh3 = h3
  BY <1>3, SameFieldSteps DEF lt, t, lh3, h3
<1>5. lx = x
  BY <1>3, <1>4, SameFieldSteps DEF lx, x
<1>6. ly = y
  BY <1>3, <1>4, <1>5, SameFieldSteps DEF ly, y
<1>7. lrzr = rzr
  BY <1>3, SameFieldSteps, SameConstants DEF lrzr, rzr
<1>8. /\ Law!normalizes_to_zero(lh) <=> normalizes_to_zero(h)
      /\ Law!normalizes_to_zero(ll) <=> normalizes_to_zero(l)
      /\ Law!With([a EXCEPT !.inf = TRUE], Law!set_int(0)) = With([a EXCEPT !.inf = TRUE], set_int(0))
      /\ Law!With(Law!Gej(lx, ly, Law!mul(a.z, lrzr), FALSE), lrzr)
            = With(Gej(x, y, mul(a.z, rzr), FALSE), rzr)
  BY <1>3, <1>5, <1>6, <1>7, SameFieldSteps, SameMakers
<1>9. Law!double_var(a) = double_var(a)
  OBVIOUS
<1> DEFINE lend == Law!With([a EXCEPT !.inf = TRUE], Law!set_int(0))
<1> DEFINE end == With([a EXCEPT !.inf = TRUE], set_int(0))
<1> DEFINE lsum == Law!With(Law!Gej(lx, ly, Law!mul(a.z, lrzr), FALSE), lrzr)
<1> DEFINE sum == With(Gej(x, y, mul(a.z, rzr), FALSE), rzr)
<1>10. lend = end /\ lsum = sum
  BY <1>8
<1>11. /\ Add(a, u1, u2, s1, s2, bz) =
            IF normalizes_to_zero(h) THEN IF normalizes_to_zero(l) THEN double_var(a) ELSE end ELSE sum
       /\ Law!Add(a, u1, u2, s1, s2, bz) =
            IF Law!normalizes_to_zero(lh)
            THEN IF Law!normalizes_to_zero(ll) THEN Law!double_var(a) ELSE lend ELSE lsum
  BY <1>1, <1>2
<1> HIDE DEF lend, end, lsum, sum
<1> QED
  BY <1>8, <1>9, <1>10, <1>11

LEMMA SameAdditions ==
    /\ \A x : Law!double_var(x) = double_var(x)
    /\ \A x, y : Law!add_var(x, y) = add_var(x, y)
    /\ \A x, y : Law!add_ge_var(x, y) = add_ge_var(x, y)
    /\ \A x, y, z : Law!add_zinv_var(x, y, z) = add_zinv_var(x, y, z)
<1>1. \A x : Law!double_var(x) = double_var(x)
  BY SameFieldSteps, SameMakers DEF Law!double_var, double_var
<1>2. \A x, u1, u2, s1, s2, bz : Law!Add(x, u1, u2, s1, s2, bz) = Add(x, u1, u2, s1, s2, bz)
  BY <1>1, SameAdd
<1>3. \A x, y : Law!add_var(x, y) = add_var(x, y)
  BY <1>2, SameFieldSteps, SameMakers, SameConstants DEF Law!add_var, add_var
<1>4. \A x, y : Law!add_ge_var(x, y) = add_ge_var(x, y)
  BY <1>2, SameFieldSteps, SameMakers, SameConstants, SameConversions
     DEF Law!add_ge_var, add_ge_var
<1>5. \A x, y, z : Law!add_zinv_var(x, y, z) = add_zinv_var(x, y, z)
  BY <1>2, SameFieldSteps, SameMakers, SameConstants, SameConversions
     DEF Law!add_zinv_var, add_zinv_var
<1> QED
  BY <1>1, <1>3, <1>4, <1>5

LEMMA SameDegenerate == \A x, y : Law!Degenerate(x, y) <=> Degenerate(x, y)
  BY SameFieldSteps DEF Law!Degenerate, Degenerate

LEMMA SameConstantTime == \A x, y : Law!add_ge(x, y) = add_ge(x, y)
<1> SUFFICES ASSUME NEW a, NEW b PROVE Law!add_ge(a, b) = add_ge(a, b)
  OBVIOUS
<1> DEFINE u1 == normalize_weak(a.x)
<1> DEFINE u2 == mul(b.x, sqr(a.z))
<1> DEFINE s1 == normalize_weak(a.y)
<1> DEFINE s2 == mul(mul(b.y, sqr(a.z)), a.z)
<1> DEFINE t == fe_add(u1, u2)
<1> DEFINE m == fe_add(s1, s2)
<1> DEFINE f == fe_negate(u2, 1)
<1> DEFINE rr == fe_add(sqr(t), mul(u1, f))
<1> DEFINE e == Degenerate(m, rr)
<1> DEFINE rr_alt == cmov(mul_int(s1, 2), rr, ~e)
<1> DEFINE m_alt == cmov(fe_add(f, u1), m, ~e)
<1> DEFINE n == cmov(sqr(sqr(m_alt)), m, e)
<1> DEFINE q == fe_negate(mul(sqr(m_alt), t), 1)
<1> DEFINE x == normalize_weak(fe_add(sqr(rr_alt), q))
<1> DEFINE y == normalize_weak(fe_negate(fe_add(mul(fe_add(mul_int(x, 2), q), rr_alt), n), 3))
<1> DEFINE z == mul(a.z, m_alt)
<1>1. add_ge(a, b) = Gej(cmov(mul_int(x, 4), b.x, a.inf), cmov(mul_int(y, 4), b.y, a.inf),
                         cmov(mul_int(z, 2), set_int(1), a.inf), normalizes_to_zero(z) /\ ~a.inf)
  BY Zenon DEF add_ge
<1> DEFINE lu1 == Law!normalize_weak(a.x)
<1> DEFINE lu2 == Law!mul(b.x, Law!sqr(a.z))
<1> DEFINE ls1 == Law!normalize_weak(a.y)
<1> DEFINE ls2 == Law!mul(Law!mul(b.y, Law!sqr(a.z)), a.z)
<1> DEFINE lt == Law!fe_add(lu1, lu2)
<1> DEFINE lm == Law!fe_add(ls1, ls2)
<1> DEFINE lf == Law!fe_negate(lu2, 1)
<1> DEFINE lrr == Law!fe_add(Law!sqr(lt), Law!mul(lu1, lf))
<1> DEFINE le == Law!Degenerate(lm, lrr)
<1> DEFINE lrr_alt == Law!cmov(Law!mul_int(ls1, 2), lrr, ~le)
<1> DEFINE lm_alt == Law!cmov(Law!fe_add(lf, lu1), lm, ~le)
<1> DEFINE ln == Law!cmov(Law!sqr(Law!sqr(lm_alt)), lm, le)
<1> DEFINE lq == Law!fe_negate(Law!mul(Law!sqr(lm_alt), lt), 1)
<1> DEFINE lx == Law!normalize_weak(Law!fe_add(Law!sqr(lrr_alt), lq))
<1> DEFINE ly == Law!normalize_weak(Law!fe_negate(
                    Law!fe_add(Law!mul(Law!fe_add(Law!mul_int(lx, 2), lq), lrr_alt), ln), 3))
<1> DEFINE lz == Law!mul(a.z, lm_alt)
<1>2. Law!add_ge(a, b) =
        Law!Gej(Law!cmov(Law!mul_int(lx, 4), b.x, a.inf), Law!cmov(Law!mul_int(ly, 4), b.y, a.inf),
                Law!cmov(Law!mul_int(lz, 2), Law!set_int(1), a.inf),
                Law!normalizes_to_zero(lz) /\ ~a.inf)
  BY Zenon DEF Law!add_ge
<1> HIDE DEF z, y, x, q, n, m_alt, rr_alt, e, rr, f, m, t, s2, s1, u2, u1,
             lz, ly, lx, lq, ln, lm_alt, lrr_alt, le, lrr, lf, lm, lt, ls2, ls1, lu2, lu1
<1>3. lu1 = u1 /\ lu2 = u2 /\ ls1 = s1 /\ ls2 = s2
  BY SameFieldSteps DEF lu1, u1, lu2, u2, ls1, s1, ls2, s2
<1>4. lt = t /\ lm = m /\ lf = f
  BY <1>3, SameFieldSteps DEF lt, t, lm, m, lf, f
<1>5. lrr = rr
  BY <1>3, <1>4, SameFieldSteps DEF lrr, rr
<1>6. le <=> e
  BY <1>4, <1>5, SameDegenerate DEF le, e
<1>7. lrr_alt = rr_alt
  <2>1. \A u, v : Law!cmov(u, v, ~le) = cmov(u, v, ~e)
    BY Zenon, <1>6, SameChoices
  <2> QED
    BY <1>3, <1>5, <2>1, SameFieldSteps DEF lrr_alt, rr_alt
<1>8. lm_alt = m_alt
  <2>1. \A u, v : Law!cmov(u, v, ~le) = cmov(u, v, ~e)
    BY Zenon, <1>6, SameChoices
  <2> QED
    BY <1>3, <1>4, <2>1, SameFieldSteps DEF lm_alt, m_alt
<1>9. ln = n
  <2>1. \A u, v : Law!cmov(u, v, le) = cmov(u, v, e)
    BY Zenon, <1>6, SameChoices
  <2> QED
    BY <1>4, <1>8, <2>1, SameFieldSteps DEF ln, n
<1>10. lq = q
  BY <1>4, <1>8, SameFieldSteps DEF lq, q
<1>11. lx = x
  BY <1>7, <1>10, SameFieldSteps DEF lx, x
<1>12. ly = y
  BY <1>7, <1>9, <1>10, <1>11, SameFieldSteps DEF ly, y
<1>13. lz = z
  BY <1>8, SameFieldSteps DEF lz, z
<1>14. /\ Law!cmov(Law!mul_int(lx, 4), b.x, a.inf) = cmov(mul_int(x, 4), b.x, a.inf)
       /\ Law!cmov(Law!mul_int(ly, 4), b.y, a.inf) = cmov(mul_int(y, 4), b.y, a.inf)
       /\ Law!cmov(Law!mul_int(lz, 2), Law!set_int(1), a.inf) = cmov(mul_int(z, 2), set_int(1), a.inf)
       /\ (Law!normalizes_to_zero(lz) /\ ~a.inf) <=> (normalizes_to_zero(z) /\ ~a.inf)
  BY Zenon, <1>11, <1>12, <1>13, SameFieldSteps, SameChoices, SameMakers
<1> QED
  BY Zenon, <1>1, <1>2, <1>14, SameMakers
-----------------------------------------------------------------------------
(* Operations in a row                                                     *)

\* The point in Jacobian coordinates stands for the one that the law gives, and a
\* ratio that was told is that of the z's.
GroupInv ==
    /\ Stands(x1, x2)
    /\ Sound(x3) => x1.z.v = (x4 * x3.v) % p

LEMMA ItsPoint ==
    ASSUME NEW a, NEW t, Stands(a, t)
    PROVE  t \in Points \/ t = Infinity
  BY Zenon DEF Stands

LEMMA NotSound == ~Sound(Broken)
<1>1. Broken.m = 99
  BY DEF Broken
<1> QED
  BY <1>1 DEF Sound

LEMMA Choosing ==
    ASSUME NEW t, t \in Law!Other
    PROVE  t \in Points \/ t = Infinity
  BY SameConstants DEF Law!Other

LEMMA OnItsZs ==
    ASSUME NEW z \in Zs
    PROVE  z \in Int /\ z % p # 0
<1>1. z \in 1 .. p - 1
  BY PartsAssumption DEF Law!ZsAssumption
<1> QED
  BY <1>1, Small, PrimeType

LEMMA GroupInit == Law!Init => GroupInv
<1> SUFFICES ASSUME Law!Init PROVE GroupInv
  OBVIOUS
<1>1. x2 \in Points \/ x2 = Infinity
  BY SameConstants DEF Law!Init
<1>2. x1 = IF x2 = Infinity THEN gej_set_infinity ELSE set_ge(Affine(x2))
  <2>1. x1 = IF x2 = Law!Infinity THEN Law!gej_set_infinity ELSE Law!set_ge(Law!Affine(x2))
    BY DEF Law!Init
  <2> QED
    BY <2>1, SameConstants, SameConversions
<1>3. Stands(x1, x2)
  <2>1. CASE x2 = Infinity
    BY <1>2, <2>1, InfinityStands
  <2>2. CASE x2 # Infinity
    BY <1>1, <1>2, <2>2, AffineStands, SetGeStands
  <2> QED
    BY <2>1, <2>2
<1>4. x3 = Broken
  BY SameConstants DEF Law!Init
<1> QED
  BY <1>3, <1>4, NotSound DEF GroupInv

LEMMA Becoming ==
    ASSUME NEW w, NEW t, Law!Becomes(w, t), Stands(w.r, t), RatioIs(x1, w)
    PROVE  GroupInv'
<1>1. x1' = w.r /\ x2' = t /\ x4' = x1.z.v
      /\ x3' = IF x1.inf \/ w.r.inf THEN Broken ELSE w.rzr
  BY SameConstants DEF Law!Becomes
<1>2. Stands(x1, x2)'
  BY <1>1 DEF Stands, AtInfinity, Finite
<1>3. ASSUME Sound(x3')
      PROVE  x1'.z.v = (x4' * x3'.v) % p
  <2>1. ~x1.inf /\ ~w.r.inf /\ x3' = w.rzr
    BY <1>1, <1>3, NotSound
  <2>2. w.r.z.v = (x1.z.v * w.rzr.v) % p
    BY <1>3, <2>1 DEF RatioIs
  <2> QED
    BY <1>1, <2>1, <2>2
<1> QED
  BY <1>2, <1>3 DEF GroupInv, Sound

LEMMA DoubleKeeps == GroupInv /\ Law!Double => GroupInv'
<1> SUFFICES ASSUME GroupInv, Law!Double PROVE GroupInv'
  OBVIOUS
<1>1. Law!Becomes(double_var(x1), Plus(x2, x2))
  BY SameAdditions, SameSums DEF Law!Double
<1> QED
  BY <1>1, DoubleStands, Becoming DEF GroupInv

LEMMA AddVarKeeps == GroupInv /\ Law!AddVar => GroupInv'
<1> SUFFICES ASSUME GroupInv, Law!AddVar PROVE GroupInv'
  OBVIOUS
<1>1. PICK t \in Law!Other : \E b \in Law!Forms(t) : Law!Becomes(Law!add_var(x1, b), Law!Plus(x2, t))
  BY DEF Law!AddVar
<1>2. PICK b \in Law!Forms(t) : Law!Becomes(Law!add_var(x1, b), Law!Plus(x2, t))
  BY <1>1
<1>3. Law!Becomes(add_var(x1, b), Plus(x2, t))
  BY <1>2, SameAdditions, SameSums
<1>4. PICK z \in Zs : b = rescale(set_ge(Affine(t)), set_int(z))
  BY SameConversions, SameMakers DEF Law!Forms
<1>5. Stands(b, t)
  BY <1>4, Choosing, OnItsZs, OnZ
<1> QED
  BY <1>3, <1>5, AddVarStands, Becoming DEF GroupInv

LEMMA AddDoubledKeeps == GroupInv /\ Law!AddDoubled => GroupInv'
<1> SUFFICES ASSUME GroupInv, Law!AddDoubled PROVE GroupInv'
  OBVIOUS
<1>1. PICK t \in Law!Other :
        Law!Becomes(Law!add_var(x1, Law!double_var(Law!set_ge(Law!Affine(t))).r),
                    Law!Plus(x2, Law!Plus(t, t)))
  BY DEF Law!AddDoubled
<1> DEFINE b == double_var(set_ge(Affine(t))).r
<1>2. Law!Becomes(add_var(x1, b), Plus(x2, Plus(t, t)))
  BY <1>1, SameAdditions, SameSums, SameConversions
<1>3. Stands(b, Plus(t, t))
  BY Choosing, AffineStands, SetGeStands, DoubleStands
<1> HIDE DEF b
<1> QED
  BY <1>2, <1>3, AddVarStands, Becoming DEF GroupInv

LEMMA AddGeVarKeeps == GroupInv /\ Law!AddGeVar => GroupInv'
<1> SUFFICES ASSUME GroupInv, Law!AddGeVar PROVE GroupInv'
  OBVIOUS
<1>1. PICK t \in Law!Other : Law!Becomes(Law!add_ge_var(x1, Law!Affine(t)), Law!Plus(x2, t))
  BY DEF Law!AddGeVar
<1>2. Law!Becomes(add_ge_var(x1, Affine(t)), Plus(x2, t))
  BY <1>1, SameAdditions, SameSums, SameConversions
<1>3. StandsGe(Affine(t), t)
  BY Choosing, AffineStands
<1> QED
  BY <1>2, <1>3, AddGeVarStands, Becoming DEF GroupInv

\* Where no ratio is told.
LEMMA BecomingUntold ==
    ASSUME NEW r, NEW t, Law!Becomes(Law!With(r, Law!Broken), t), Stands(r, t)
    PROVE  GroupInv'
<1> DEFINE w == With(r, Broken)
<1>1. w.r = r /\ w.rzr = Broken
  BY DEF With
<1>2. Law!Becomes(w, t)
  BY SameMakers, SameConstants
<1>3. RatioIs(x1, w)
  BY <1>1, NotSound DEF RatioIs
<1> HIDE DEF w
<1> QED
  BY <1>1, <1>2, <1>3, Becoming

LEMMA AddGeKeeps == GroupInv /\ Law!AddGe => GroupInv'
<1> SUFFICES ASSUME GroupInv, Law!AddGe PROVE GroupInv'
  OBVIOUS
<1>1. PICK t \in Law!Other \ {Law!Infinity} :
        \/ Law!Becomes(Law!With(Law!add_ge(x1, Law!Affine(t)), Law!Broken), Law!Plus(x2, t))
        \/ Law!Becomes(Law!With(Law!add_ge(x1, Law!ge_neg(Law!Affine(t))), Law!Broken),
                       Law!Plus(x2, Law!Opposite(t)))
  BY DEF Law!AddGe
<1>2. t \in Points
  BY Choosing, SameConstants
<1>3. StandsGe(Affine(t), t)
  BY <1>2, AffineStands
<1>4. CASE Law!Becomes(Law!With(Law!add_ge(x1, Law!Affine(t)), Law!Broken), Law!Plus(x2, t))
  <2>1. Law!Becomes(Law!With(add_ge(x1, Affine(t)), Law!Broken), Plus(x2, t))
    BY <1>4, SameConstantTime, SameSums, SameConversions
  <2>2. Stands(add_ge(x1, Affine(t)), Plus(x2, t))
    BY <1>2, <1>3, AddGeStands DEF GroupInv
  <2> QED
    BY <2>1, <2>2, BecomingUntold
<1>5. CASE Law!Becomes(Law!With(Law!add_ge(x1, Law!ge_neg(Law!Affine(t))), Law!Broken),
                       Law!Plus(x2, Law!Opposite(t)))
  <2>1. Law!Becomes(Law!With(add_ge(x1, ge_neg(Affine(t))), Law!Broken), Plus(x2, Opposite(t)))
    BY <1>5, SameConstantTime, SameSums, SameConversions
  <2>2. Opposite(t) \in Points /\ StandsGe(ge_neg(Affine(t)), Opposite(t))
    BY <1>2, <1>3, OppositeIs, GeNegStands
  <2>3. Stands(add_ge(x1, ge_neg(Affine(t))), Plus(x2, Opposite(t)))
    BY <2>2, AddGeStands DEF GroupInv
  <2> QED
    BY <2>1, <2>3, BecomingUntold
<1> QED
  BY <1>1, <1>4, <1>5

LEMMA AddZinvKeeps == GroupInv /\ Law!AddZinv => GroupInv'
<1> SUFFICES ASSUME GroupInv, Law!AddZinv PROVE GroupInv'
  OBVIOUS
<1> DEFINE b(t, z) == rescale(set_ge(Affine(t)), fe_inv(set_int(z)))
<1>1. PICK t \in Law!Other, z \in Zs :
        Law!Becomes(Law!With(add_zinv_var(x1, Ge(b(t, z).x, b(t, z).y, b(t, z).inf), set_int(z)),
                             Law!Broken), Plus(x2, t))
  BY SameAdditions, SameConversions, SameMakers, SameChoices, SameSums DEF Law!AddZinv
<1>2. t \in Points \/ t = Infinity
  BY Choosing
<1>7. Is(set_int(z), z, 1) /\ z \in Int
  BY OnItsZs, SetIs
<1>3. PICK I \in Int : Is(fe_inv(set_int(z)), I, 1) /\ (z * I) % p = 1
  BY OnItsZs, SetIs, InverseIs
<1>4. Is(fe_inv(set_int(z)), I, 2) /\ I % p # 0
  <2>1. ASSUME I % p = 0 PROVE FALSE
    <3>1. 0 % p = 0 /\ 0 * z = 0 /\ I * z = z * I /\ 0 \in Int /\ I % p = 0 % p
      BY <1>7, <2>1, PrimeType
    <3>2. (I * z) % p = (0 * z) % p
      BY ONLY I \in Int, 0 \in Int, <1>7, <3>1, Scaled, Zenon
    <3> QED
      BY <1>3, <3>1, <3>2
  <2> QED
    BY <1>3, <2>1, Also
<1>5. Stands(set_ge(Affine(t)), t)
  BY <1>2, AffineStands, SetGeStands
<1>6. Stands(b(t, z), t) /\ b(t, z).z.v = (set_ge(Affine(t)).z.v * fe_inv(set_int(z)).v) % p
  BY <1>4, <1>5, RescaleStands
<1>8. (b(t, z).z.v * set_int(z).v) % p = 1
  <2>1. set_ge(Affine(t)).z.v = 1
    BY PrimeType DEF set_ge, Gej, set_int, Fe
  <2>2. fe_inv(set_int(z)).v = I % p /\ set_int(z).v = z % p
    BY <1>3, <1>7, ItsValue
  <2>3. b(t, z).z.v = I % p
    BY <1>6, <2>1, <2>2, SameOfSame
  <2>4. (b(t, z).z.v * set_int(z).v) % p = (I * z) % p
    BY <1>7, <2>2, <2>3, SameOfSame, SameProduct
  <2>5. I * z = z * I
    BY <1>7
  <2> QED
    BY <1>3, <2>4, <2>5
<1>9. Inverted(b(t, z), t, set_int(z))
  BY <1>8 DEF Inverted
<1>10. Stands(add_zinv_var(x1, Ge(b(t, z).x, b(t, z).y, b(t, z).inf), set_int(z)), Plus(x2, t))
  <2> HIDE DEF b
  <2> QED
    BY <1>6, <1>7, <1>9, AddZinvStands DEF GroupInv
<1> QED
  BY <1>1, <1>10, BecomingUntold

LEMMA NegateKeeps == GroupInv /\ Law!Negate => GroupInv'
<1> SUFFICES ASSUME GroupInv, Law!Negate PROVE GroupInv'
  OBVIOUS
<1> DEFINE w == With(gej_neg(x1), set_int(1))
<1>1. Law!Becomes(w, Opposite(x2))
  BY SameConversions, SameMakers, SameSums DEF Law!Negate
<1>2. w.r = gej_neg(x1) /\ w.rzr = set_int(1)
  BY DEF With
<1>3. Stands(w.r, Opposite(x2)) /\ w.r.z = x1.z
  BY <1>2, NegateStands DEF GroupInv
<1>4. w.rzr.v = 1
  BY <1>2, PrimeType DEF set_int, Fe
<1>5. RatioIs(x1, w)
  <2>1. CASE x2 \in Points
    <3>1. PICK u, v, z : \E n \in Int, x \in Int, y \in Int : Form(x1, x2, n, x, y, u, v, z)
      BY <2>1, FiniteForm DEF GroupInv
    <3>2. PICK n \in Int, x \in Int, y \in Int : Form(x1, x2, n, x, y, u, v, z)
      BY <3>1
    <3>3. Is(x1.z, n, 2)
      BY <3>2 DEF Form
    <3>4. x1.z.v = n % p
      BY <3>3, ItsValue
    <3>5. x1.z.v = (x1.z.v * 1) % p
      BY <3>4, SameOfSame
    <3> QED
      BY <1>3, <1>4, <3>5 DEF RatioIs
  <2>2. CASE x2 = Infinity
    BY <2>2, InfinityForm DEF RatioIs, GroupInv
  <2> QED
    BY <2>1, <2>2, ItsPoint DEF GroupInv
<1> HIDE DEF w
<1> QED
  BY <1>1, <1>3, <1>5, Becoming

LEMMA RescaleKeeps == GroupInv /\ Law!Rescale => GroupInv'
<1> SUFFICES ASSUME GroupInv, Law!Rescale PROVE GroupInv'
  OBVIOUS
<1>1. PICK z \in Zs : Law!Becomes(With(rescale(x1, set_int(z)), set_int(z)), x2)
  BY SameConversions, SameMakers DEF Law!Rescale
<1> DEFINE w == With(rescale(x1, set_int(z)), set_int(z))
<1>2. w.r = rescale(x1, set_int(z)) /\ w.rzr = set_int(z)
  BY DEF With
<1>3. Is(set_int(z), z, 2)
  BY OnItsZs, SetIs, Also
<1>4. Stands(w.r, x2) /\ w.r.z.v = (x1.z.v * w.rzr.v) % p
  BY <1>2, <1>3, OnItsZs, RescaleStands DEF GroupInv
<1>5. RatioIs(x1, w)
  BY <1>4 DEF RatioIs
<1>6. Law!Becomes(w, x2)
  BY <1>1
<1> HIDE DEF w
<1> QED
  BY <1>4, <1>5, <1>6, Becoming

LEMMA GroupNext == GroupInv /\ Law!Next => GroupInv'
  BY DoubleKeeps, AddVarKeeps, AddDoubledKeeps, AddGeVarKeeps, AddGeKeeps, AddZinvKeeps,
     NegateKeeps, RescaleKeeps DEF Law!Next

\* What the invariant says of the coordinates, and what they are read as.
LEMMA ItsNumbers ==
    ASSUME GroupInv, x2 \in Points
    PROVE  \E n \in Int : /\ n % p # 0 /\ x1.inf = FALSE
                          /\ Is(x1.x, x2.x * (n * n), 6) /\ Is(x1.y, x2.y * (n * n * n), 4)
                          /\ Is(x1.z, n, 2)
<1>1. PICK u, v, w : \E n \in Int, x \in Int, y \in Int : Form(x1, x2, n, x, y, u, v, w)
  BY FiniteForm DEF GroupInv
<1>2. PICK n \in Int, x \in Int, y \in Int : Form(x1, x2, n, x, y, u, v, w)
  BY <1>1
<1>3. x1.inf = FALSE
  <2>1. x1 = Gej(u, v, w, FALSE)
    BY <1>2 DEF Form
  <2>2. Gej(u, v, w, FALSE).inf = FALSE
    BY Zenon DEF Gej
  <2> QED
    BY Zenon, <2>1, <2>2
<1>4. /\ n % p # 0
      /\ Is(x1.x, x2.x * (n * n), 6) /\ Is(x1.y, x2.y * (n * n * n), 4) /\ Is(x1.z, n, 2)
  BY <1>2 DEF Form
<1> QED
  BY <1>3, <1>4

LEMMA ItsCoordinates ==
    ASSUME x2 \in Points
    PROVE  /\ x2.x \in Int /\ x2.y \in Int /\ x2.x % p = x2.x /\ x2.y % p = x2.y
           /\ x2.x \in 0 .. p - 1 /\ x2.y \in 0 .. p - 1 /\ x2 # Infinity
<1>1. PICK x \in Int, y \in Int, k \in Int :
          x2 = [x |-> x, y |-> y] /\ 0 <= x /\ x < p /\ 0 <= y /\ y < p
  BY PointIs
<1>2. x \in 0 .. p - 1 /\ y \in 0 .. p - 1 /\ x2.x = x /\ x2.y = y
  BY <1>1, PrimeType
<1> QED
  BY <1>2, Small, NoInfinity

LEMMA InfiniteFlag ==
    ASSUME GroupInv, x2 = Infinity
    PROVE  x1.inf = TRUE
<1>1. AtInfinity(x1)
  BY InfinityForm DEF GroupInv
<1>2. PICK u, v, w : x1 = Gej(u, v, w, TRUE)
  BY <1>1 DEF AtInfinity
<1>3. Gej(u, v, w, TRUE).inf = TRUE
  BY Zenon DEF Gej
<1> QED
  BY Zenon, <1>2, <1>3

LEMMA OnItsZ ==
    ASSUME NEW x \in Int, NEW c \in Int, NEW n \in Int, c % p = n % p
    PROVE  /\ (x * c * c) % p = (x * (n * n)) % p
           /\ (((x * c * c) % p) * c) % p = (x * (n * n * n)) % p
<1> DEFINE d == x * c
<1> DEFINE e == x * n
<1>1. d \in Int /\ e \in Int /\ x % p \in Int
  BY SameOfSame
<1>2. d % p = e % p
  BY <1>1, SameProduct
<1> HIDE DEF d, e
<1> DEFINE f == d * c
<1> DEFINE g == e * n
<1>3. f \in Int /\ g \in Int
  BY <1>1
<1>4. f % p = g % p
  BY <1>1, <1>2, SameProduct
<1> HIDE DEF f, g
<1> DEFINE h == f % p
<1>5. h \in Int /\ h % p = g % p
  BY <1>3, <1>4, SameOfSame
<1> HIDE DEF h
<1>6. (h * c) % p = (g * n) % p
  BY <1>3, <1>5, SameProduct
<1>7. g = x * (n * n) /\ g * n = x * (n * n * n)
  BY DEF g, e
<1>8. x * c * c = f
  BY DEF f, d
<1> QED
  BY <1>4, <1>6, <1>7, <1>8 DEF h

LEMMA LawFollowed == GroupInv => Law!FollowsTheLaw
<1> SUFFICES ASSUME GroupInv PROVE Law!FollowsTheLaw
  OBVIOUS
<1>1. CASE x2 = Infinity
  <2>1. (x2 = Infinity) = TRUE
    BY <1>1
  <2> QED
    BY <1>1, InfiniteFlag, SameConstants DEF Law!FollowsTheLaw
<1>2. CASE x2 \in Points
  <2>1. PICK n \in Int : /\ n % p # 0 /\ x1.inf = FALSE
                         /\ Is(x1.x, x2.x * (n * n), 6) /\ Is(x1.y, x2.y * (n * n * n), 4)
                         /\ Is(x1.z, n, 2)
    BY <1>2, ItsNumbers
  <2>2. /\ x2.x \in Int /\ x2.y \in Int /\ x2 # Infinity
    BY <1>2, ItsCoordinates
  <2> DEFINE c == x1.z.v
  <2>3. c \in Int /\ c = n % p /\ c % p = n % p
    BY <2>1, ItsValue
  <2>4. x1.x.v = (x2.x * (n * n)) % p /\ x1.y.v = (x2.y * (n * n * n)) % p
    <3>1. x2.x * (n * n) \in Int /\ x2.y * (n * n * n) \in Int
      BY <2>2
    <3> QED
      BY <2>1, <3>1, ItsValue
  <2> HIDE DEF c
  <2>5. /\ (x2.x * c * c) % p = (x2.x * (n * n)) % p
        /\ (((x2.y * c * c) % p) * c) % p = (x2.y * (n * n * n)) % p
    BY <2>2, <2>3, OnItsZ
  <2>11. x1.x.v = (x2.x * c * c) % p /\ x1.y.v = (((x2.y * c * c) % p) * c) % p
    BY <2>4, <2>5
  <2>12. (x2 = Infinity) = FALSE
    BY <2>2
  <2>13. c # 0
    BY <2>1, <2>3
  <2> QED
    BY <2>1, <2>11, <2>12, <2>13, SameConstants DEF Law!FollowsTheLaw, c
<1> QED
  BY <1>1, <1>2, ItsPoint DEF GroupInv

LEMMA MagnitudesAllowed == GroupInv => Law!MagnitudesKept
<1> SUFFICES ASSUME GroupInv PROVE Law!MagnitudesKept
  OBVIOUS
<1>1. ASSUME NEW a, NEW A \in Int, NEW m \in Int, m <= 32, Is(a, A, m)
      PROVE  Law!Sound(a)
  <2>1. a.m \in Int /\ a.m <= m
    BY <1>1, ItsValue
  <2> QED
    BY <1>1, <2>1 DEF Law!Sound
<1>2. PICK X \in Int, Y \in Int, Z \in Int : Is(x1.x, X, 6) /\ Is(x1.y, Y, 4) /\ Is(x1.z, Z, 2)
  <2>1. CASE x2 \in Points
    <3>1. PICK n \in Int : /\ Is(x1.x, x2.x * (n * n), 6) /\ Is(x1.y, x2.y * (n * n * n), 4)
                           /\ Is(x1.z, n, 2)
      BY <2>1, ItsNumbers
    <3>2. x2.x * (n * n) \in Int /\ x2.y * (n * n * n) \in Int
      BY <2>1, ItsCoordinates
    <3> QED
      BY <3>1, <3>2
  <2>2. CASE x2 = Infinity
    <3>1. AtInfinity(x1)
      BY <2>2, InfinityForm DEF GroupInv
    <3>2. PICK u, v, w : /\ x1 = Gej(u, v, w, TRUE)
                         /\ \E A \in Int, B \in Int, C \in Int :
                                Is(u, A, 6) /\ Is(v, B, 4) /\ Is(w, C, 2)
      BY <3>1 DEF AtInfinity
    <3>3. x1.x = u /\ x1.y = v /\ x1.z = w
      BY <3>2 DEF Gej
    <3> QED
      BY <3>2, <3>3
  <2> QED
    BY <2>1, <2>2, ItsPoint DEF GroupInv
<1>3. Law!Sound(x1.x) /\ Law!Sound(x1.y) /\ Law!Sound(x1.z)
  BY <1>1, <1>2
<1> QED
  BY <1>3 DEF Law!MagnitudesKept

LEMMA ReadAlike == GroupInv => Law!ReadersAgree
<1> SUFFICES ASSUME GroupInv PROVE Law!ReadersAgree
  OBVIOUS
<1>1. CASE x2 = Infinity
  <2>1. x1.inf = TRUE
    BY <1>1, InfiniteFlag
  <2>2. ~gej_is_valid_var(x1) /\ ~has_quad_y_var(x1)
    BY <2>1 DEF gej_is_valid_var, has_quad_y_var
  <2>3. set_gej(x1).inf
    BY <2>1 DEF set_gej, set_gej_zinv, Ge
  <2> QED
    BY <2>1, <2>2, <2>3, SameTests, SameConversions DEF Law!ReadersAgree
<1>2. CASE x2 \in Points
  <2>1. x1.inf = FALSE
    BY <1>2, ItsNumbers
  <2>2. x2.x \in Int /\ x2.y \in Int /\ x2.x % p = x2.x /\ x2.y % p = x2.y /\ x2 # Infinity
    BY <1>2, ItsCoordinates
  <2> DEFINE t == set_gej(x1)
  <2>3. PICK u, v : t = Ge(u, v, FALSE) /\ Is(u, x2.x, 1) /\ Is(v, x2.y, 1)
    <3>1. Unscaled(t, x2)
      BY SetGejStands DEF GroupInv
    <3> QED
      BY <2>2, <3>1 DEF Unscaled
  <2> HIDE DEF t
  <2>4. t.x = u /\ t.y = v
    BY <2>3 DEF Ge
  <2>5. t.x.v = x2.x /\ t.y.v = x2.y
    <3>1. u.v = x2.x % p /\ v.v = x2.y % p
      BY <2>2, <2>3, ItsValue
    <3> QED
      BY <2>2, <2>4, <3>1
  <2>6. ge_is_valid_var(t)
    BY <1>2, <2>3, GeIsValid
  <2>7. gej_is_valid_var(x1)
    BY <1>2, GejIsValid DEF GroupInv
  <2>8. ASSUME NEW s \in Law!Other \ {Law!Infinity}
        PROVE  Law!eq_x_var(Law!set_int(s.x), x1) = (s.x = x2.x)
    <3>1. s \in Points
      BY Choosing, SameConstants
    <3>2. PICK x \in Int, y \in Int, k \in Int :
              s = [x |-> x, y |-> y] /\ 0 <= x /\ x < p /\ 0 <= y /\ y < p
      BY <3>1, PointIs
    <3>3. s.x = x /\ x % p = x
      BY <3>2, Small, PrimeType
    <3>4. Is(set_int(x), x, 1)
      BY SetIs
    <3>5. eq_x_var(set_int(x), x1) <=> x % p = x2.x
      BY <1>2, <3>4, EqXIs DEF GroupInv
    <3>6. Law!eq_x_var(Law!set_int(s.x), x1) <=> s.x = x2.x
      BY <3>3, <3>5, SameTests, SameMakers
    <3> QED
      BY <3>6 DEF Law!eq_x_var, Law!fe_equal, Law!normalizes_to_zero
  <2>9. Law!has_quad_y_var(x1) = (\E k \in 1 .. p - 1 : (k * k) % p = x2.y)
    <3>1. has_quad_y_var(x1) <=> \E k \in 1 .. p - 1 : (k * k) % p = x2.y
      BY <1>2, HasQuadIs DEF GroupInv
    <3>2. Law!has_quad_y_var(x1) <=> \E k \in 1 .. p - 1 : (k * k) % p = x2.y
      BY <3>1, SameTests
    <3>3. Law!has_quad_y_var(x1) \in BOOLEAN
      BY Zenon DEF Law!has_quad_y_var
    <3> QED
      BY Zenon, <3>2, <3>3
  <2>10. ASSUME NEW odd \in {0, 1}
         PROVE  LET s == Law!set_xo_var(Law!normalize(t.x), odd)
                IN  s.ok /\ s.r.y.v % 2 = odd /\ s.r.y.v \in {x2.y, p - x2.y}
    <3> DEFINE w == normalize(t.x)
    <3> DEFINE s == set_xo_var(w, odd)
    <3>1. Is(w, x2.x, 1)
      <4>1. Is(normalize(u), x2.x, 1)
        BY <2>2, <2>3, NormalIs
      <4> QED
        BY <2>4, <4>1
    <3> HIDE DEF w
    <3>4. OfParity(s, x2, w, odd)
      BY Zenon, <1>2, <3>1, XoGives
    <3>3. Law!set_xo_var(Law!normalize(t.x), odd) = s
      BY SameFieldSteps, SameRoots DEF w
    <3> HIDE DEF s
    <3>2. /\ s.ok
          /\ \E y \in {x2.y, p - x2.y} : y % 2 = odd /\ s.r.y.v = y
      BY <3>4 DEF OfParity
    <3> QED
      BY <3>2, <3>3
  <2>11. Law!set_gej(x1) = t
    BY SameConversions DEF t
  <2>12. Law!ge_is_valid_var(t) /\ Law!gej_is_valid_var(x1)
    BY <2>6, <2>7, SameTests
  <2> QED
    BY Zenon, <2>1, <2>5, <2>8, <2>9, <2>10, <2>11, <2>12 DEF Law!ReadersAgree
<1> QED
  BY <1>1, <1>2, ItsPoint DEF GroupInv

LEMMA RatioKept == GroupInv => Law!RatioTracksZ
  BY SameMakers DEF GroupInv, Law!RatioTracksZ

\* After any operations in a row on points of any such curve, in Jacobian and affine
\* coordinates, equal, opposite or at infinity, the coordinates stand for the point that
\* the chord-and-tangent law gives; no operand has a magnitude that the next operation
\* does not allow; the ratio of the z's is exact; and conversion, the tests for the
\* curve, comparison of x and the parity and the square root of y read the same point
\* (group_impl.h:100, :168, :232-304, :366, :419, :468, :525, :691).
THEOREM PointsAreTheLaws == Spec => []PointsFollowTheLaw
<1> DEFINE Inv == part = "group" => GroupInv
<1>1. Init => Inv
  <2> SUFFICES ASSUME Init, part = "group" PROVE GroupInv
    OBVIOUS
  <2>1. Law!Init
    BY DEF Init
  <2> QED
    BY <2>1, GroupInit
<1>2. Inv /\ [Next]_vars => Inv'
  <2> SUFFICES ASSUME Inv, [Next]_vars, part' = "group" PROVE GroupInv'
    OBVIOUS
  <2>1. part = "group"
    BY DEF Next, vars
  <2>2. CASE Next
    <3>1. Law!Next
      BY <2>1, <2>2 DEF Next
    <3> QED
      BY <2>1, <3>1, GroupNext
  <2>3. CASE UNCHANGED vars
    BY <2>1, <2>3 DEF vars, GroupInv, Stands, AtInfinity, Finite, Sound
  <2> QED
    BY <2>2, <2>3
<1>3. Inv => PointsFollowTheLaw
  BY LawFollowed, MagnitudesAllowed, RatioKept, ReadAlike DEF PointsFollowTheLaw
<1> QED
  BY <1>1, <1>2, <1>3, PTL DEF Spec

-----------------------------------------------------------------------------
(* The signatures' own copies                                              *)

LEMMA SigningConstants ==
    /\ Signing!Broken = Broken /\ Signing!fe_clear = fe_clear /\ Signing!Infinity = Infinity
    /\ Signing!Points = Points
  BY Zenon DEF Signing!Broken, Broken, Signing!fe_clear, fe_clear, Signing!Fe, Fe,
     Signing!Infinity, Infinity, Signing!Points, Points

LEMMA SigningMakers ==
    /\ \A x, m, n : Signing!Fe(x, m, n) = Fe(x, m, n)
    /\ \A x : Signing!set_int(x) = set_int(x)
    /\ \A x, y, b : Signing!Ge(x, y, b) = Ge(x, y, b)
    /\ \A x, y, z, b : Signing!Gej(x, y, z, b) = Gej(x, y, z, b)
  BY Zenon DEF Signing!Fe, Fe, Signing!set_int, set_int, Signing!Ge, Ge, Signing!Gej, Gej

LEMMA SigningSteps ==
    /\ \A x, y : Signing!mul(x, y) = mul(x, y)
    /\ \A x : Signing!sqr(x) = sqr(x)
    /\ \A x, y : Signing!fe_add(x, y) = fe_add(x, y)
    /\ \A x : Signing!normalize_weak(x) = normalize_weak(x)
    /\ \A x : Signing!normalize(x) = normalize(x)
    /\ \A x, y : Signing!fe_equal(x, y) <=> fe_equal(x, y)
    /\ \A x : Signing!fe_inv(x) = fe_inv(x)
<1>1. \A x, y : Signing!mul(x, y) = mul(x, y)
  BY Zenon DEF Signing!mul, mul, Signing!Fe, Fe, Signing!Broken, Broken
<1>2. \A x : Signing!sqr(x) = sqr(x)
  BY <1>1 DEF Signing!sqr, sqr
<1>3. \A x, y : Signing!fe_add(x, y) = fe_add(x, y)
  BY Zenon DEF Signing!fe_add, fe_add, Signing!Fe, Fe, Signing!Broken, Broken
<1>4. \A x : Signing!normalize_weak(x) = normalize_weak(x)
  BY Zenon DEF Signing!normalize_weak, normalize_weak, Signing!Sound, Sound, Signing!Broken,
     Broken
<1>5. \A x : Signing!normalize(x) = normalize(x)
  BY Zenon DEF Signing!normalize, normalize, Signing!Sound, Sound, Signing!Fe, Fe,
     Signing!Broken, Broken
<1>6. \A x, y : Signing!fe_equal(x, y) <=> fe_equal(x, y)
  BY Zenon DEF Signing!fe_equal, fe_equal, Signing!normalizes_to_zero,
     normalizes_to_zero, Signing!fe_add, fe_add, Signing!fe_negate, fe_negate, Signing!Fe, Fe,
     Signing!Broken, Broken
<1>7. \A x, e : Signing!Power(x, e) = Power(x, e)
  BY Zenon DEF Signing!Power, Power
<1>8. \A x : Signing!fe_inv(x) = fe_inv(x)
  BY <1>7, SigningMakers, SigningConstants DEF Signing!fe_inv, fe_inv
<1> QED
  BY <1>1, <1>2, <1>3, <1>4, <1>5, <1>6, <1>8

LEMMA SigningPoints ==
    /\ \A x : Signing!set_gej(x) = set_gej(x)
    /\ \A x : Signing!set_ge(x) = set_ge(x)
    /\ \A x : Signing!Affine(x) = Affine(x)
    /\ \A x, y : Signing!rescale(x, y) = rescale(x, y)
    /\ \A x, y : Signing!eq_x_var(x, y) <=> eq_x_var(x, y)
<1>1. \A x, y : Signing!set_gej_zinv(x, y) = set_gej_zinv(x, y)
  BY SigningSteps, SigningMakers DEF Signing!set_gej_zinv, set_gej_zinv
<1>2. \A x : Signing!set_gej(x) = set_gej(x)
  BY <1>1, SigningSteps DEF Signing!set_gej, set_gej
<1>3. \A x : Signing!set_ge(x) = set_ge(x)
  BY SigningMakers DEF Signing!set_ge, set_ge
<1>4. \A x : Signing!Affine(x) = Affine(x)
  BY SigningMakers, SigningConstants DEF Signing!Affine, Affine
<1>5. \A x, y : Signing!rescale(x, y) = rescale(x, y)
  BY SigningSteps, SigningMakers DEF Signing!rescale, rescale
<1>6. \A x, y : Signing!eq_x_var(x, y) <=> eq_x_var(x, y)
  BY SigningSteps DEF Signing!eq_x_var, eq_x_var
<1> QED
  BY <1>2, <1>3, <1>4, <1>5, <1>6

LEMMA SigningSums ==
    /\ \A s, t : Signing!Plus(s, t) = Plus(s, t)
    /\ \A k : Signing!Times(k) = Times(k)
    /\ \A k : Signing!Neg(k) = Neg(k)
<1>1. \A s : Signing!Opposite(s) = Opposite(s)
  BY SigningConstants DEF Signing!Opposite, Opposite
<1>2. \A s, t : Signing!Plus(s, t) = Plus(s, t)
  BY Zenon, SigningConstants, <1>1 DEF Signing!Plus, Plus, Signing!Opposite, Opposite,
     Signing!Infinity, Infinity
<1>3. Signing!Multiples = Multiples
  BY Zenon DEF Signing!Multiples, Multiples, Signing!Plus, Plus, Signing!Opposite, Opposite,
     Signing!Infinity, Infinity, Signing!G, G, Signing!Points, Points
<1>4. \A k : Signing!Times(k) = Times(k)
  BY Zenon, <1>3 DEF Signing!Times, Times
<1>5. \A k : Signing!Neg(k) = Neg(k)
  BY Zenon DEF Signing!Neg, Neg
<1> QED
  BY <1>2, <1>4, <1>5

-----------------------------------------------------------------------------
(* Signatures                                                              *)

\* The scalar that a verification multiplies the generator with.
Recovered(r, s, m, k) == Recover(Signing!scalar_inverse(s), r, m, k)

\* What the verification comes to.
Passes(r, s, m, k) ==
    /\ ~(2 * s > Order) /\ r # 0 /\ s # 0
    /\ Times(Recovered(r, s, m, k)) # Infinity
    /\ Times(Recovered(r, s, m, k)).x % Order = r

LEMMA Sizes ==
    /\ 2 * Order > p /\ Order < p
    /\ \A z \in Zs : z \in Int /\ z % p # 0
    /\ Null \notin BOOLEAN
<1>1. ASSUME NEW z \in Zs PROVE z \in Int /\ z % p # 0
  <2>1. z \in 1 .. p - 1
    BY PartsAssumption DEF Signing!InputsAssumption
  <2> QED
    BY <2>1, Small, PrimeType
<1> QED
  BY <1>1, PartsAssumption DEF Signing!SizesAssumption, Signing!InputsAssumption

LEMMA InverseOf ==
    ASSUME NEW s \in 0 .. Order - 1
    PROVE  /\ Signing!scalar_inverse(s) \in Int
           /\ s # 0 => Equal(Signing!scalar_inverse(s) * s, 1)
<1>1. CASE s = 0
  BY <1>1 DEF Signing!scalar_inverse
<1>2. CASE s # 0
  <2>1. s \in 1 .. Order - 1
    BY <1>2, OrderType
  <2>2. PICK k \in 1 .. Order - 1 :
             /\ k = (CHOOSE j \in 1 .. Order - 1 : (j * s) % Order = 1)
             /\ Equal(k * s, 1)
    BY <2>1, ScalarInverse
  <2>3. Signing!scalar_inverse(s) = k
    BY <1>2, <2>2, Zenon DEF Signing!scalar_inverse
  <2> QED
    BY <2>2, <2>3, OrderType
<1> QED
  BY <1>1, <1>2

LEMMA RecoveredType ==
    ASSUME NEW r \in Int, NEW s \in 0 .. Order - 1, NEW m \in Int, NEW k \in Int
    PROVE  Recovered(r, s, m, k) \in Int
  BY Zenon, InverseOf, Combined DEF Recovered, SumIs

LEMMA ComputedIs ==
    ASSUME NEW k \in Int, NEW z \in Zs
    PROVE  Stands(Signing!Computed(k, z), Times(k)) /\ Times(k) \in Elements
<1>1. Times(k) \in Elements
  BY TimesType
<1>2. Signing!Computed(k, z) = rescale(set_ge(Affine(Times(k))), set_int(z))
  BY Zenon, SigningSums, SigningPoints, SigningMakers DEF Signing!Computed
<1> QED
  BY <1>1, <1>2, ComputedStands, Sizes

LEMMA VerifyIs ==
    ASSUME NEW r \in 0 .. Order - 1, NEW s \in 0 .. Order - 1, NEW m \in Int, NEW k \in Int,
           NEW z \in Zs
    PROVE  Signing!ecdsa_verify([r |-> r, s |-> s], m, k % Order, z) <=> Passes(r, s, m, k)
<1> DEFINE u == Recovered(r, s, m, k)
<1> DEFINE c == Signing!Computed(u, z)
<1>1. u \in Int
  BY RecoveredType, OrderType
<1>2. Stands(c, Times(u)) /\ Times(u) \in Elements
  BY <1>1, ComputedIs
<1>3. Signing!ecdsa_verify([r |-> r, s |-> s], m, k % Order, z)
        <=> /\ ~(2 * s > Order) /\ r # 0 /\ s # 0
            /\ ~c.inf /\ Signing!SameX(r, c)
  BY Zenon DEF Signing!ecdsa_verify, Signing!sig_verify, Signing!is_high, Signing!set_b32,
     Signing!scalar_mul, Recovered, Recover
<1>4. Signing!SameX(r, c)
        <=> \/ eq_x_var(set_int(r), c)
            \/ r < p - Order /\ eq_x_var(fe_add(set_int(r), set_int(Order)), c)
  BY Zenon, SigningPoints, SigningSteps, SigningMakers DEF Signing!SameX, Signing!const_order
<1> HIDE DEF u, c
<1>5. (~c.inf /\ Signing!SameX(r, c)) <=> (Times(u) # Infinity /\ Times(u).x % Order = r)
  <2>1. (/\ ~c.inf
         /\ \/ eq_x_var(set_int(r), c)
            \/ r < p - Order /\ eq_x_var(fe_add(set_int(r), set_int(Order)), c))
        <=> Times(u) # Infinity /\ Times(u).x % Order = r
    BY <1>2, VerifyTells, Sizes
  <2> QED
    BY Zenon, <1>4, <2>1
<1> QED
  BY Zenon, <1>3, <1>5 DEF Passes, u

\* A signature that is made fits, with either s.
LEMMA SignedPasses ==
    ASSUME NEW n \in 1 .. Order - 1, NEW r \in 0 .. Order - 1, r # 0, r = Times(n).x % Order,
           NEW k \in Int, NEW m \in Int, NEW s0,
           s0 = HighOrLow(Signing!scalar_inverse(n), r, k, m),
           s0 # 0, NEW s, s = IF 2 * s0 > Order THEN Neg(s0) ELSE s0
    PROVE  s \in 0 .. Order - 1 /\ Passes(r, s, m, k)
<1>1. PICK i \in Int : i = Signing!scalar_inverse(n) /\ Equal(i * n, 1)
  BY InverseOf, OrderType
<1>2. r \in Int /\ s0 \in 0 .. Order - 1
  <2>1. r \in Int
    BY OrderType
  <2> QED
    BY Zenon, <1>1, <2>1, SignedS
<1>3. /\ s \in 0 .. Order - 1 /\ ~(2 * s > Order) /\ s # 0
      /\ \E e \in {1, -1} : Equal(s, e * s0)
  BY Zenon, <1>2, LowIs
<1>4. PICK d \in {1, -1} : Equal(s, d * s0)
  BY <1>3
<1>5. s \in 1 .. Order - 1
  BY <1>3, OrderType
<1>6. PICK w \in Int : w = Signing!scalar_inverse(s) /\ Equal(w * s, 1)
  BY <1>3, InverseOf
<1>7. Equal(s, d * HighOrLow(i, r, k, m))
  BY Zenon, <1>1, <1>4
<1> DEFINE u == Recovered(r, s, m, k)
<1>8. Times(u) \in Points /\ Times(u).x = Times(n).x
  <2>1. i \in Int /\ w \in Int /\ d \in {1, -1}
    BY <1>1, <1>4, <1>6
  <2>2. IsSigned(n, r, k, m, i, s, d, w)
    BY Zenon, <1>1, <1>2, <1>5, <1>6, <1>7, <2>1 DEF IsSigned
  <2>3. ComesBack(n, r, k, m, w)
    BY ONLY <2>2, NonceReturns, Zenon
  <2> QED
    BY Zenon, <1>6, <2>3 DEF Recovered, ComesBack
<1> HIDE DEF u
<1>10. Times(u) # Infinity
  BY <1>8, NoInfinity
<1> QED
  BY Zenon, <1>3, <1>8, <1>10 DEF Passes, u

-----------------------------------------------------------------------------
(* Calls in a row                                                          *)

\* A made signature is accepted on whatever z, and a failed call has left none.
SigningInv ==
    /\ x1 \in Nat /\ x2 \in Nat
    /\ x3 \in {"nonce", "signed", "failed", "given"}
    /\ x3 = "nonce" => x4 = Signing!Unset /\ x5 = Null
    /\ x3 = "signed" =>
           /\ \E r, s \in 0 .. Order - 1 : x4 = [r |-> r, s |-> s] /\ Passes(r, s, x2, x1)
           /\ x5 # FALSE
    /\ x3 = "failed" => x4 = Signing!Unset /\ x5 # TRUE
    /\ x3 = "given" =>
           /\ \E r, s \in 0 .. Order - 1 : x4 = [r |-> r, s |-> s]
           /\ Signing!VerifyIsEcdsa

LEMMA SigningInit == Signing!Init => SigningInv
<1> SUFFICES ASSUME Signing!Init PROVE SigningInv
  OBVIOUS
<1>1. x1 \in Nat /\ x2 \in Nat
  BY PartsAssumption DEF Signing!Init, Signing!InputsAssumption
<1>2. x3 \in {"nonce", "failed"} /\ x4 = Signing!Unset /\ x5 = Null
  BY Zenon DEF Signing!Init
<1>3. Null # TRUE
  BY Sizes
<1> QED
  BY <1>1, <1>2, <1>3 DEF SigningInv

LEMMA TryNonceKeeps == SigningInv /\ Signing!TryNonce => SigningInv'
<1> SUFFICES ASSUME SigningInv, Signing!TryNonce PROVE SigningInv'
  OBVIOUS
<1>0. x3 = "nonce" /\ x1' = x1 /\ x2' = x2 /\ x5' = x5 /\ x1 \in Nat /\ x2 \in Nat /\ x5 = Null
  BY DEF SigningInv, Signing!TryNonce
<1>1. PICK n \in Drawn, z \in Zs :
        LET non == Signing!set_b32(n)
            sig == Signing!sig_sign(x1, Signing!set_b32(x2).v, non.v, z)
        IN  /\ ~non.overflow /\ non.v # 0 /\ sig.ret
            /\ x4' = [r |-> sig.r, s |-> sig.s] /\ x3' = "signed"
  BY DEF Signing!TryNonce
<1> DEFINE sig == Signing!sig_sign(x1, x2 % Order, n, z)
<1>2. n \in 1 .. Order - 1 /\ n % Order = n
  <2>1. n \in Nat
    BY PartsAssumption DEF Signing!InputsAssumption
  <2>2. ~(n >= Order) /\ n % Order # 0
    BY <1>1 DEF Signing!set_b32
  <2>3. n \in 0 .. Order - 1
    BY <2>1, <2>2, OrderType
  <2>4. n % Order = n
    BY <2>3, RestOfRest
  <2> QED
    BY <2>2, <2>3, <2>4, OrderType
<1>3. sig.ret /\ x4' = [r |-> sig.r, s |-> sig.s] /\ x3' = "signed"
  <2>1. Signing!set_b32(n).v = n % Order /\ Signing!set_b32(x2).v = x2 % Order
    BY DEF Signing!set_b32
  <2> QED
    BY Zenon, <1>1, <1>2, <2>1
<1> DEFINE c == Signing!Computed(n, z)
<1> DEFINE r == normalize(set_gej(c).x).v % Order
<1> DEFINE s0 == HighOrLow(Signing!scalar_inverse(n), r, x1, x2)
<1> DEFINE s == IF 2 * s0 > Order THEN Neg(s0) ELSE s0
<1>4. sig = [ret |-> s0 # 0, r |-> r, s |-> s]
  BY Zenon, SigningPoints, SigningSteps, SigningSums
     DEF Signing!sig_sign, Signing!scalar_mul, Signing!is_high, HighOrLow
<1>5. Times(n) \in Points /\ Stands(c, Times(n))
  <2>1. n \in Int /\ n % Order # 0
    BY <1>2, OrderType
  <2> QED
    BY <2>1, TimesFinite, ComputedIs
<1>6. r = Times(n).x % Order /\ r \in 0 .. Order - 1 /\ r # 0
  <2>1. r = Times(n).x % Order
    BY Zenon, <1>5, XRead
  <2>2. Times(n).x \in Int
    BY <1>5, PointIs
  <2>3. Times(n).x % Order \in 0 .. Order - 1
    BY <2>2, RestType
  <2>4. Times(n).x % Order # 0
    <3>1. Signing!Times(n).x % Order # 0
      BY <1>2, PartsAssumption DEF Signing!NonceAssumption
    <3> QED
      BY Zenon, <3>1, SigningSums
  <2> QED
    BY Zenon, <2>1, <2>3, <2>4
<1> HIDE DEF sig, r, c
<1>7. s0 # 0
  <2> HIDE DEF s0, s
  <2>1. sig.ret = (s0 # 0)
    BY <1>4
  <2> QED
    BY Zenon, <1>3, <2>1
<1>8. s \in 0 .. Order - 1 /\ Passes(r, s, x2, x1)
  <2>1. x1 \in Int /\ x2 \in Int
    BY <1>0
  <2>2. s0 = HighOrLow(Signing!scalar_inverse(n), r, x1, x2)
    OBVIOUS
  <2>3. s = IF 2 * s0 > Order THEN Neg(s0) ELSE s0
    OBVIOUS
  <2> HIDE DEF s0, s
  <2> QED
    BY Zenon, <1>2, <1>6, <1>7, <2>1, <2>2, <2>3, SignedPasses
<1> HIDE DEF s0, s
<1>9. x4' = [r |-> r, s |-> s]
  <2>1. sig.r = r /\ sig.s = s
    BY <1>4
  <2> QED
    BY <1>3, <2>1
<1>10. Null # FALSE
  BY Sizes
<1>11. \E a, b \in 0 .. Order - 1 : x4' = [r |-> a, s |-> b] /\ Passes(a, b, x2', x1')
  BY Zenon, <1>0, <1>6, <1>8, <1>9
<1>12. x5' # FALSE /\ x3' = "signed"
  BY <1>0, <1>3, <1>10
<1> QED
  BY <1>0, <1>11, <1>12 DEF SigningInv

LEMMA NonceFailsKeeps == SigningInv /\ Signing!NonceFails => SigningInv'
<1> SUFFICES ASSUME SigningInv, Signing!NonceFails PROVE SigningInv'
  OBVIOUS
<1>1. /\ x3 = "nonce" /\ x3' = "failed" /\ x1' = x1 /\ x2' = x2 /\ x4' = x4 /\ x5' = x5
      /\ x1 \in Nat /\ x2 \in Nat /\ x5 = Null /\ x4 = Signing!Unset
  BY DEF SigningInv, Signing!NonceFails
<1>2. Null # TRUE
  BY Sizes
<1>3. x5' # TRUE /\ x4' = Signing!Unset'
  BY <1>1, <1>2 DEF Signing!Unset
<1> QED
  BY <1>1, <1>3 DEF SigningInv

LEMMA GivenKeeps == SigningInv /\ Signing!Given => SigningInv'
<1> SUFFICES ASSUME SigningInv, Signing!Given PROVE SigningInv'
  OBVIOUS
<1>1. /\ x3 = "nonce" /\ x3' = "given" /\ x1' = x1 /\ x2' = x2 /\ x5' = x5
      /\ x1 \in Nat /\ x2 \in Nat /\ x5 = Null
  BY DEF SigningInv, Signing!Given
<1>2. PICK r \in 0 .. Order - 1, s \in 0 .. Order - 1 :
          x4' \in {[r |-> r, s |-> s], Signing!signature_normalize([r |-> r, s |-> s])}
  BY DEF Signing!Given
<1>3. Neg(s) \in 0 .. Order - 1
  BY NegIs
<1>4. Signing!signature_normalize([r |-> r, s |-> s])
        \in {[r |-> r, s |-> s], [r |-> r, s |-> Neg(s)]}
  <2>1. [[r |-> r, s |-> s] EXCEPT !.s = Neg(@)] = [r |-> r, s |-> Neg(s)]
    OBVIOUS
  <2> QED
    BY <2>1, SigningSums DEF Signing!signature_normalize
<1>5. \E a, b \in 0 .. Order - 1 : x4' = [r |-> a, s |-> b]
  BY <1>2, <1>3, <1>4
<1>6. Signing!VerifyIsEcdsa'
  BY <1>1 DEF Signing!VerifyIsEcdsa
<1> QED
  BY <1>1, <1>5, <1>6 DEF SigningInv

\* The standard's formula, as the property has it.
Standard(r, s, m, k) ==
    LET R == BothParts(Signing!scalar_inverse(s), r, m, k)
    IN  /\ r \in 1 .. Order - 1
        /\ s \in 1 .. Order \div 2
        /\ R # Infinity
        /\ R.x % Order = r

LEMMA PassesTheStandard ==
    ASSUME NEW r \in 0 .. Order - 1, NEW s \in 0 .. Order - 1, NEW m \in Int, NEW k \in Int
    PROVE  Passes(r, s, m, k) <=> Standard(r, s, m, k)
<1>1. PICK w \in Int : w = Signing!scalar_inverse(s)
  BY InverseOf
<1>2. r \in Int /\ s \in Int
  BY OrderType
<1> DEFINE u == Recovered(r, s, m, k)
<1>3. u = Recover(w, r, m, k)
  BY Zenon, <1>1 DEF Recovered
<1>4. u \in Int
  BY <1>2, RecoveredType
<1> HIDE DEF u
<1>5. PICK v \in Int : v = w * m + (w * r) * k
  <2>1. w * m + (w * r) * k \in Int
    BY <1>2
  <2> QED
    BY <2>1
<1>6. Equal(u, v) /\ BothParts(w, r, m, k) = Times(v)
  <2>1. /\ Equal(Recover(w, r, m, k), w * m + (w * r) * k)
        /\ BothParts(w, r, m, k) = Times(w * m + (w * r) * k)
    <3>1. w \in Int /\ m \in Int /\ r \in Int /\ k \in Int
      BY <1>1, <1>2
    <3>2. SumIs(w, r, m, k)
      BY <3>1, Combined
    <3> QED
      BY Zenon, <3>2 DEF SumIs
  <2> QED
    BY Zenon, <1>3, <1>5, <2>1
<1>7. Times(u) = Times(v)
  BY <1>4, <1>6, SameTimes
<1>8. (~(2 * s > Order) /\ s # 0) <=> s \in 1 .. Order \div 2
  BY <1>2, OrderType
<1>9. r # 0 <=> r \in 1 .. Order - 1
  BY <1>2, OrderType
<1>10. Standard(r, s, m, k)
         <=> /\ r \in 1 .. Order - 1 /\ s \in 1 .. Order \div 2
             /\ Times(u) # Infinity /\ Times(u).x % Order = r
  BY Zenon, <1>1, <1>6, <1>7 DEF Standard
<1>11. Passes(r, s, m, k)
         <=> /\ ~(2 * s > Order) /\ r # 0 /\ s # 0
             /\ Times(u) # Infinity /\ Times(u).x % Order = r
  BY Zenon DEF Passes, u
<1> QED
  BY Zenon, <1>8, <1>9, <1>10, <1>11

LEMMA VerifyKeeps == SigningInv /\ Signing!Verify => SigningInv'
<1> SUFFICES ASSUME SigningInv, Signing!Verify PROVE SigningInv'
  OBVIOUS
<1>1. /\ x3 \in {"signed", "failed", "given"} /\ x3' = x3 /\ x1' = x1 /\ x2' = x2 /\ x4' = x4
      /\ x1 \in Nat /\ x2 \in Nat
  BY DEF SigningInv, Signing!Verify
<1>2. PICK z \in Zs : x5' = Signing!ecdsa_verify(x4, x2, x1 % Order, z)
  BY DEF Signing!Verify
<1>3. PICK r \in 0 .. Order - 1, s \in 0 .. Order - 1 :
          /\ x4 = [r |-> r, s |-> s]
          /\ x3 = "signed" => Passes(r, s, x2, x1)
          /\ x3 = "failed" => r = 0 /\ s = 0
  <2>1. CASE x3 = "signed" \/ x3 = "given"
    <3>1. x3 # "failed"
      BY <2>1
    <3> QED
      BY <2>1, <3>1, Zenon DEF SigningInv
  <2>2. CASE x3 = "failed"
    <3>1. x4 = [r |-> 0, s |-> 0]
      BY <2>2 DEF SigningInv, Signing!Unset
    <3>2. 0 \in 0 .. Order - 1 /\ x3 # "signed"
      BY <2>2, OrderType
    <3> QED
      BY Zenon, <3>1, <3>2
  <2> QED
    BY <1>1, <2>1, <2>2
<1>4. x1 \in Int /\ x2 \in Int
  BY <1>1
<1>5. x5' <=> Passes(r, s, x2, x1)
  <2>1. Signing!ecdsa_verify([r |-> r, s |-> s], x2, x1 % Order, z) <=> Passes(r, s, x2, x1)
    BY <1>4, VerifyIs
  <2> QED
    BY Zenon, <1>2, <1>3, <2>1
<1>6. x5' \in BOOLEAN
  <2>1. Signing!ecdsa_verify(x4, x2, x1 % Order, z) \in BOOLEAN
    BY Zenon DEF Signing!ecdsa_verify, Signing!sig_verify
  <2> QED
    BY Zenon, <1>2, <2>1
<1>7. CASE x3 = "signed"
  <2>1. Passes(r, s, x2', x1') /\ x4' = [r |-> r, s |-> s]
    BY Zenon, <1>1, <1>3, <1>7
  <2>2. x5' # FALSE
    BY Zenon, <1>3, <1>5, <1>7
  <2>3. \E a, b \in 0 .. Order - 1 : x4' = [r |-> a, s |-> b] /\ Passes(a, b, x2', x1')
    BY Zenon, <2>1
  <2> QED
    BY <1>1, <1>7, <2>2, <2>3 DEF SigningInv
<1>8. CASE x3 = "failed"
  <2>1. x5' # TRUE
    <3>1. ~Passes(r, s, x2, x1)
      BY Zenon, <1>3, <1>8 DEF Passes
    <3> QED
      BY Zenon, <1>5, <3>1
  <2>2. x4' = Signing!Unset
    BY <1>1, <1>8 DEF SigningInv
  <2> QED
    BY <1>1, <1>8, <2>1, <2>2 DEF SigningInv, Signing!Unset
<1>9. CASE x3 = "given"
  <2>1. \E a, b \in 0 .. Order - 1 : x4' = [r |-> a, s |-> b]
    BY Zenon, <1>1, <1>3
  <2>2. x5' = Standard(r, s, x2, x1)
    <3>1. x5' <=> Standard(r, s, x2, x1)
      BY Zenon, <1>4, <1>5, PassesTheStandard
    <3>2. Standard(r, s, x2, x1) \in BOOLEAN
      BY Zenon DEF Standard
    <3>3. CASE x5' = TRUE
      <4>1. Standard(r, s, x2, x1) = TRUE
        BY Zenon, <3>1, <3>2, <3>3
      <4> QED
        BY <3>3, <4>1
    <3>4. CASE x5' = FALSE
      <4>1. Standard(r, s, x2, x1) = FALSE
        BY Zenon, <3>1, <3>2, <3>4
      <4> QED
        BY <3>4, <4>1
    <3> QED
      BY <1>6, <3>3, <3>4
  <2>3. Signing!VerifyIsEcdsa'
    <3>1. x4'.r = r /\ x4'.s = s
      BY <1>1, <1>3
    <3>2. x5' = Standard(x4'.r, x4'.s, x2', x1')
      BY Zenon, <1>1, <2>2, <3>1
    <3>3. Signing!VerifyIsEcdsa' <=> (x3' = "given" /\ x5' # Null =>
              LET w == Signing!scalar_inverse(x4'.s)
                  R == Signing!Plus(Signing!Times(Signing!scalar_mul(w, x2')),
                         Signing!Times(Signing!scalar_mul(Signing!scalar_mul(w, x4'.r), x1')))
              IN  x5' = /\ x4'.r \in 1 .. Order - 1
                        /\ x4'.s \in 1 .. Order \div 2
                        /\ R # Signing!Infinity
                        /\ R.x % Order = x4'.r)
      BY Zenon DEF Signing!VerifyIsEcdsa, Signing!scalar_inverse
    <3>4. ASSUME NEW w, NEW a, NEW m, NEW k
          PROVE  Signing!Plus(Signing!Times(Signing!scalar_mul(w, m)),
                     Signing!Times(Signing!scalar_mul(Signing!scalar_mul(w, a), k)))
                 = BothParts(w, a, m, k)
      BY Zenon, SigningSums DEF BothParts, Signing!scalar_mul
    <3> QED
      BY Zenon, <3>2, <3>3, <3>4, SigningConstants DEF Standard
  <2> QED
    BY <1>1, <1>9, <2>1, <2>3 DEF SigningInv
<1> QED
  BY <1>1, <1>7, <1>8, <1>9

LEMMA SigningNext == SigningInv /\ Signing!Next => SigningInv'
  BY TryNonceKeeps, NonceFailsKeeps, GivenKeeps, VerifyKeeps DEF Signing!Next

LEMMA SigningShows == SigningInv => Signing!SignedIsAccepted /\ Signing!VerifyIsEcdsa
<1> SUFFICES ASSUME SigningInv PROVE Signing!SignedIsAccepted /\ Signing!VerifyIsEcdsa
  OBVIOUS
<1>1. x3 = "signed" => ~Signing!is_high(x4.s) /\ x5 # FALSE
  <2> SUFFICES ASSUME x3 = "signed" PROVE ~Signing!is_high(x4.s) /\ x5 # FALSE
    OBVIOUS
  <2>1. PICK r \in 0 .. Order - 1, s \in 0 .. Order - 1 :
            x4 = [r |-> r, s |-> s] /\ Passes(r, s, x2, x1)
    BY Zenon DEF SigningInv
  <2>2. ~(2 * s > Order)
    BY Zenon, <2>1 DEF Passes
  <2>3. x4.s = s
    BY <2>1
  <2> QED
    BY <2>2, <2>3 DEF SigningInv, Signing!is_high
<1>2. Signing!VerifyIsEcdsa
  <2>1. CASE x3 = "given"
    BY <2>1 DEF SigningInv
  <2>2. CASE x3 # "given"
    BY <2>2 DEF Signing!VerifyIsEcdsa
  <2> QED
    BY <2>1, <2>2
<1>3. x3 = "failed" => x5 # TRUE
  BY DEF SigningInv
<1> QED
  BY Zenon, <1>1, <1>2, <1>3 DEF Signing!SignedIsAccepted

\* On any such curve, of a prime order and with associative sums: what is signed, with
\* whatever nonce and on whatever z, has the low s and is accepted for its key and
\* message; what a failed call leaves never is; and for every r and s of the range the
\* verification, which avoids the inversion of z, says what the standard's formula
\* says (secp256k1.c:387, ecdsa_impl.h:245-264, :284-304).
THEOREM SignaturesAreEcdsas == Spec => []SignaturesVerify
<1> DEFINE Inv == part = "ecdsa" => SigningInv
<1>1. Init => Inv
  <2> SUFFICES ASSUME Init, part = "ecdsa" PROVE SigningInv
    OBVIOUS
  <2>1. Signing!Init
    BY DEF Init
  <2> QED
    BY <2>1, SigningInit
<1>2. Inv /\ [Next]_vars => Inv'
  <2> SUFFICES ASSUME Inv, [Next]_vars, part' = "ecdsa" PROVE SigningInv'
    OBVIOUS
  <2>1. part = "ecdsa"
    BY DEF Next, vars
  <2>2. CASE Next
    <3>1. Signing!Next
      BY <2>1, <2>2 DEF Next
    <3> QED
      BY <2>1, <3>1, SigningNext
  <2>3. CASE UNCHANGED vars
    BY <2>1, <2>3 DEF vars, SigningInv, Signing!VerifyIsEcdsa, Signing!Unset, Passes, Recovered
  <2> QED
    BY <2>2, <2>3
<1>3. Inv => SignaturesVerify
  BY SigningShows DEF SignaturesVerify
<1> QED
  BY <1>1, <1>2, <1>3, PTL DEF Spec
================================================================================
