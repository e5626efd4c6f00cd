-------------------------------- MODULE Points --------------------------------
(***************************************************************************)
(* Points of the curve y^2 = x^3 + 7 (secp256k1/group_impl.h): affine (ge) *)
(* and Jacobian (gej), where (x, y, z) stands for (x / z^2, y / z^3).  The  *)
(* point at infinity is a flag; its coordinates are whatever they were.    *)
(*                                                                         *)
(* A field element is its number, the magnitude of its limbs and whether   *)
(* it is normalized: what Field10x26 asks of the callers is checked here,  *)
(* where nothing in the build checks it, and an element whose operands did *)
(* not meet it is Broken from then on.  The formulas are the code's for    *)
(* any prime; the instance is a small curve of prime order.                *)
(***************************************************************************)
EXTENDS Integers, Sequences

CONSTANTS
    p,          \* the field's prime
    CURVE_B

\* As for secp256k1: roots are powers, 1 has three cube roots, -B has none.
ASSUME CurveAssumption ==
    /\ p \in Nat /\ p % 4 = 3 /\ p % 3 = 1 /\ CURVE_B \in 1 .. 31
    /\ \A x \in 0 .. p - 1 : (x * x * x + CURVE_B) % p # 0

-----------------------------------------------------------------------------
(* Field elements, and what Field10x26 asks of those who use them          *)

Broken == [v |-> 0, m |-> 99, n |-> FALSE]
Fe(val, m, n) == [v |-> val % p, m |-> m, n |-> n]
Sound(a) == a.m <= 32

set_int(k) == Fe(k, 1, TRUE)
fe_clear == Fe(0, 0, TRUE)
mul(a, b) == IF a.m <= 8 /\ b.m <= 8 THEN Fe(a.v * b.v, 1, FALSE) ELSE Broken
sqr(a) == mul(a, a)
fe_add(a, b) == IF a.m + b.m <= 32 THEN Fe(a.v + b.v, a.m + b.m, FALSE) ELSE Broken
fe_negate(a, m) == IF a.m <= m /\ m < 32 THEN Fe(-a.v, m + 1, FALSE) ELSE Broken
mul_int(a, k) == IF a.m * k <= 32 THEN Fe(a.v * k, a.m * k, FALSE) ELSE Broken
normalize_weak(a) == IF Sound(a) THEN [a EXCEPT !.m = 1] ELSE Broken
normalize(a) == IF Sound(a) THEN Fe(a.v, 1, TRUE) ELSE Broken
normalizes_to_zero(a) == a.v = 0
fe_equal(a, b) == normalizes_to_zero(fe_add(fe_negate(a, 1), b))
cmov(r, a, flag) ==
    IF Sound(r) /\ Sound(a)
    THEN Fe(IF flag THEN a.v ELSE r.v, IF a.m > r.m THEN a.m ELSE r.m, r.n /\ a.n)
    ELSE Broken

Power(x, e) ==
    LET pow[k \in 0 .. e] ==
            IF k = 0 THEN 1
            ELSE LET half == pow[k \div 2] IN (half * half * (IF k % 2 = 1 THEN x ELSE 1)) % p
    IN  pow[e]

\* As p is a prime, with p % 4 = 3.
ASSUME PrimeAssumption ==
    /\ \A x \in 1 .. p - 1 : (x * Power(x, p - 2)) % p = 1
    /\ \A y \in 0 .. p - 1 : Power((y * y) % p, (p + 1) \div 4) \in {y, p - y}

\* The chains of module FieldChains.
fe_inv(a) == IF a.m <= 8 THEN Fe(Power(a.v, p - 2), 1, FALSE) ELSE Broken
fe_sqrt(a) ==
    LET r == IF a.m <= 8 THEN Fe(Power(a.v, (p + 1) \div 4), 1, FALSE) ELSE Broken
    IN  [r |-> r, ok |-> fe_equal(sqr(r), a)]
is_quad_var(a) == fe_sqrt(a).ok

-----------------------------------------------------------------------------
(* Points and conversions                                                  *)

Ge(x, y, inf) == [x |-> x, y |-> y, inf |-> inf]
Gej(x, y, z, inf) == [x |-> x, y |-> y, z |-> z, inf |-> inf]

set_gej_zinv(a, zi) ==
    LET zi2 == sqr(zi) IN Ge(mul(a.x, zi2), mul(a.y, mul(zi2, zi)), a.inf)

set_xy(x, y) == Ge(x, y, FALSE)
ge_neg(a) == [a EXCEPT !.y = fe_negate(normalize_weak(@), 1)]
set_gej(a) == set_gej_zinv(a, fe_inv(a.z))
set_ge(a) == Gej(a.x, a.y, set_int(1), a.inf)
gej_set_infinity == Gej(fe_clear, fe_clear, fe_clear, TRUE)
gej_neg(a) == [a EXCEPT !.y = fe_negate(normalize_weak(@), 1)]

set_xquad(x) ==
    LET s == fe_sqrt(fe_add(set_int(CURVE_B), mul(x, sqr(x))))
    IN  [r |-> Ge(x, s.r, FALSE), ok |-> s.ok]

set_xo_var(x, odd) ==
    LET q == set_xquad(x)
        y == normalize(q.r.y)
    IN  [q EXCEPT !.r.y = IF (y.v % 2) # odd THEN fe_negate(y, 1) ELSE y]

eq_x_var(x, a) == fe_equal(mul(sqr(a.z), x), normalize_weak(a.x))

OnCurve(y2, x3, b) == fe_equal(y2, normalize_weak(fe_add(x3, b)))

gej_is_valid_var(a) ==
    LET z2 == sqr(a.z)
    IN  ~a.inf /\ OnCurve(sqr(a.y), mul(sqr(a.x), a.x), mul_int(mul(sqr(z2), z2), CURVE_B))

ge_is_valid_var(a) ==
    ~a.inf /\ OnCurve(sqr(a.y), mul(sqr(a.x), a.x), set_int(CURVE_B))

has_quad_y_var(a) == ~a.inf /\ is_quad_var(mul(a.y, a.z))

-----------------------------------------------------------------------------
(* Addition; rzr is what z has been multiplied with.  The result replaces  *)
(* a, as it does for the callers.                                          *)

\* An affine operand has no z.
NoZ == [Broken EXCEPT !.n = TRUE]

With(r, rzr) == [r |-> r, rzr |-> rzr]

double_var(a) ==
    LET t1 == mul_int(sqr(a.x), 3)
        t2 == sqr(t1)
        yy == mul_int(sqr(a.y), 2)
        t4 == mul_int(sqr(yy), 2)
        t3 == mul(yy, a.x)
        x == fe_add(fe_negate(mul_int(t3, 4), 4), t2)
        y == fe_add(mul(t1, fe_add(mul_int(t3, 6), fe_negate(t2, 1))), fe_negate(t4, 2))
    IN  IF a.inf THEN With(a, set_int(1))
        ELSE With(Gej(x, y, mul_int(mul(a.z, a.y), 2), FALSE), mul_int(normalize_weak(a.y), 2))

\* Both x on one z and both y on one z^3: equal, opposite, or different points.
\* bz is the z of the other operand.
Add(a, u1, u2, s1, s2, bz) ==
    LET h == fe_add(fe_negate(u1, 1), u2)
        i == fe_add(fe_negate(s1, 1), s2)
        i2 == sqr(i)  h2 == sqr(h)  h3 == mul(h, h2)  t == mul(u1, h2)
        x == fe_add(fe_negate(fe_add(mul_int(t, 2), h3), 3), i2)
        y == fe_add(mul(fe_add(fe_negate(x, 5), t), i), fe_negate(mul(h3, s1), 1))
        rzr == IF bz = NoZ THEN h ELSE mul(h, bz)
    IN  IF normalizes_to_zero(h)
        THEN IF normalizes_to_zero(i) THEN double_var(a)
             ELSE With([a EXCEPT !.inf = TRUE], set_int(0))
        ELSE With(Gej(x, y, mul(a.z, rzr), FALSE), rzr)

add_var(a, b) ==
    LET z22 == sqr(b.z)  z12 == sqr(a.z)
    IN  IF a.inf THEN With(b, Broken)
        ELSE IF b.inf THEN With(a, set_int(1))
        ELSE Add(a, mul(a.x, z22), mul(b.x, z12),
                 mul(mul(a.y, z22), b.z), mul(mul(b.y, z12), a.z), b.z)

add_ge_var(a, b) ==
    LET z12 == sqr(a.z)
    IN  IF a.inf THEN With(set_ge(b), Broken)
        ELSE IF b.inf THEN With(a, set_int(1))
        ELSE Add(a, normalize_weak(a.x), mul(b.x, z12),
                 normalize_weak(a.y), mul(mul(b.y, z12), a.z), NoZ)

\* b is (b.x, b.y, 1 / bzinv).
add_zinv_var(a, b, bzinv) ==
    LET az == mul(a.z, bzinv)
        z12 == sqr(az)
        q == set_gej_zinv(b, bzinv)
    IN  IF b.inf THEN a
        ELSE IF a.inf THEN Gej(q.x, q.y, set_int(1), b.inf)
        ELSE Add(a, normalize_weak(a.x), mul(b.x, z12),
                 normalize_weak(a.y), mul(mul(b.y, z12), az), NoZ).r

\* Mutant: the case of y1 = -y2 with different x is not seen.
Degenerate_Never(m, rr) == FALSE

Degenerate(m, rr) == normalizes_to_zero(m) /\ normalizes_to_zero(rr)

\* In constant time, for any a and a finite b.
add_ge(a, b) ==
    LET zz == sqr(a.z)
        u1 == normalize_weak(a.x)
        u2 == mul(b.x, zz)
        s1 == normalize_weak(a.y)
        s2 == mul(mul(b.y, zz), a.z)
        t == fe_add(u1, u2)
        m == fe_add(s1, s2)
        minusU2 == fe_negate(u2, 1)
        rr == fe_add(sqr(t), mul(u1, minusU2))
        degenerate == Degenerate(m, rr)
        rr_alt == cmov(mul_int(s1, 2), rr, ~degenerate)
        m_alt == cmov(fe_add(minusU2, u1), m, ~degenerate)
        nn == sqr(m_alt)
        q == fe_negate(mul(nn, t), 1)
        n == cmov(sqr(nn), m, degenerate)
        z == mul(a.z, m_alt)
        x == normalize_weak(fe_add(sqr(rr_alt), q))
        y == normalize_weak(fe_negate(fe_add(mul(fe_add(mul_int(x, 2), q), rr_alt), n), 3))
    IN  Gej(cmov(mul_int(x, 4), b.x, a.inf), cmov(mul_int(y, 4), b.y, a.inf),
            cmov(mul_int(z, 2), set_int(1), a.inf), normalizes_to_zero(z) /\ ~a.inf)

rescale(a, s) ==
    LET zz == sqr(s)
    IN  Gej(mul(a.x, zz), mul(mul(a.y, zz), s), mul(a.z, s), a.inf)

-----------------------------------------------------------------------------
(* What the operations stand for: the chord-and-tangent law                *)

Points == {q \in [x : 0 .. p - 1, y : 0 .. p - 1] :
               (q.y * q.y) % p = (q.x * q.x * q.x + CURVE_B) % p}
Infinity == [x |-> -1, y |-> -1]

Opposite(s) == IF s = Infinity THEN s ELSE [s EXCEPT !.y = (p - @) % p]

Plus(s, t) ==
    LET inverse(d) == CHOOSE k \in 1 .. p - 1 : (k * d) % p = 1
        slope == IF s = t THEN (3 * s.x * s.x * inverse((2 * s.y) % p)) % p
                 ELSE ((t.y - s.y) * inverse((t.x - s.x) % p)) % p
        x == (slope * slope - s.x - t.x) % p
    IN  IF s = Infinity THEN t ELSE IF t = Infinity THEN s
        ELSE IF t = Opposite(s) THEN Infinity
        ELSE [x |-> x, y |-> (slope * (s.x - x) - s.y) % p]

\* A parsed point's coordinates are normalized.
Affine(t) == IF t = Infinity THEN Ge(fe_clear, fe_clear, TRUE)
             ELSE Ge(set_int(t.x), set_int(t.y), FALSE)
=============================================================================
