--------------------------------- MODULE Group ---------------------------------
(***************************************************************************)
(* Operations on one point in a row, as module Points writes them, beside  *)
(* the point of the curve that each should give.                           *)
(***************************************************************************)
EXTENDS Points

CONSTANTS
    Zs,         \* z-coordinates of the operands, not zero
    MaxSteps    \* bound: operations in a row

ZsAssumption == Zs \subseteq 1 .. p - 1

VARIABLES
    a,      \* a point in Jacobian coordinates
    q,      \* the point it stands for
    ratio,  \* what the last operation says z was multiplied with, or Broken
    zBefore,
    steps

vars == <<a, q, ratio, zBefore, steps>>

Init ==
    /\ q \in Points \cup {Infinity}
    /\ a = IF q = Infinity THEN gej_set_infinity ELSE set_ge(Affine(q))
    /\ ratio = Broken /\ zBefore = 0 /\ steps = 0

Becomes(w, t) ==
    /\ steps < MaxSteps /\ steps' = steps + 1
    /\ a' = w.r /\ q' = t
    /\ ratio' = IF a.inf \/ w.r.inf THEN Broken ELSE w.rzr
    /\ zBefore' = a.z.v

Double == Becomes(double_var(a), Plus(q, q))

\* The other operand: the point itself or its opposite, one with the same y, and
\* any other, on some z, and as sums and doublings leave their magnitudes.
Other == {t \in Points \cup {Infinity} :
              \/ t.y \in {q.y, Opposite(q).y} \/ t = Infinity \/ t.x < 4}

Forms(t) == {rescale(set_ge(Affine(t)), set_int(z)) : z \in Zs}

AddVar == \E t \in Other : \E b \in Forms(t) :
    Becomes(add_var(a, b), Plus(q, t))

\* A point that has just been doubled, with the magnitudes that leaves.
AddDoubled == \E t \in Other :
    Becomes(add_var(a, double_var(set_ge(Affine(t))).r), Plus(q, Plus(t, t)))

AddGeVar == \E t \in Other : Becomes(add_ge_var(a, Affine(t)), Plus(q, t))

\* The other operand negated, as the tables' lookups do.
AddGe == \E t \in Other \ {Infinity} :
    \/ Becomes(With(add_ge(a, Affine(t)), Broken), Plus(q, t))
    \/ Becomes(With(add_ge(a, ge_neg(Affine(t))), Broken), Plus(q, Opposite(t)))

\* b's z is 1 / zi.
AddZinv == \E t \in Other, zi \in Zs :
    LET b == rescale(set_ge(Affine(t)), fe_inv(set_int(zi)))
    IN  Becomes(With(add_zinv_var(a, Ge(b.x, b.y, b.inf), set_int(zi)), Broken), Plus(q, t))

Negate == Becomes(With(gej_neg(a), set_int(1)), Opposite(q))

Rescale == \E s \in Zs : Becomes(With(rescale(a, set_int(s)), set_int(s)), q)

Next ==
    \/ Double \/ AddVar \/ AddDoubled \/ AddGeVar \/ AddGe \/ AddZinv \/ Negate \/ Rescale

Spec == Init /\ [][Next]_vars

-----------------------------------------------------------------------------

\* After any operations in a row, with equal, opposite, infinite operands and
\* with those that only share y or -y, the coordinates stand for the point the
\* curve's law gives, and z is not zero (group_impl.h:366, :419, :468, :525).
FollowsTheLaw ==
    /\ a.inf = (q = Infinity)
    /\ ~a.inf => /\ a.z.v # 0
                 /\ a.x.v = (q.x * a.z.v * a.z.v) % p
                 /\ a.y.v = (((q.y * a.z.v * a.z.v) % p) * a.z.v) % p

\* No operation is handed a magnitude it does not allow, whatever produced its
\* operand; the comments' magnitudes are what the next caller relies on.
MagnitudesKept == Sound(a.x) /\ Sound(a.y) /\ Sound(a.z)

\* Where the code asks for the ratio of z's, to bring a table to one z, the
\* ratio is exact (rzr).
RatioTracksZ == Sound(ratio) => a.z.v = (zBefore * ratio.v) % p

\* Every reader of a point agrees with the law, with and without inverting z:
\* conversion, the test for the curve, comparison of x, and the parity of y.
ReadersAgree ==
    /\ ~a.inf =>
           LET t == set_gej(a)  IN
           /\ t.x.v = q.x /\ t.y.v = q.y /\ ge_is_valid_var(t) /\ gej_is_valid_var(a)
           /\ \A s \in Other \ {Infinity} : eq_x_var(set_int(s.x), a) = (s.x = q.x)
           /\ has_quad_y_var(a) = (\E k \in 1 .. p - 1 : (k * k) % p = q.y)
           /\ \A odd \in {0, 1} :
                  LET s == set_xo_var(normalize(t.x), odd)
                  IN  s.ok /\ s.r.y.v % 2 = odd /\ s.r.y.v \in {q.y, p - q.y}
    /\ a.inf => ~gej_is_valid_var(a) /\ ~has_quad_y_var(a) /\ set_gej(a).inf
=============================================================================
