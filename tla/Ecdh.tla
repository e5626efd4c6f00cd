---------------------------------- MODULE Ecdh ----------------------------------
(***************************************************************************)
(* Shared secrets (secp256k1/main_impl.h), and the multiplication in       *)
(* constant time under them (secp256k1_ecmult_const): digits none of which *)
(* is zero, every entry of the table looked at, the addition that has no   *)
(* branches, and in the end the skew of the digits taken off again.        *)
(***************************************************************************)
EXTENDS OddMultiples

CONSTANTS
    Scalars,    \* bound: of 32 bytes, as the number they are
    Logs        \* bound: the points, by their logarithms

\* As in the code the windows fill the scalar's bits exactly.
WindowAssumption == Bits % (WINDOW_A - 1) = 0 /\ Logs \subseteq 1 .. Order - 1

\* Mutant: y is never exchanged for its negation.
CONST_TABLE_GET_GE_AnySign(pre, n) ==
    LET e == pre[((IF n > 0 THEN n ELSE -n) \div 2) + 1]
    IN  Ge(e.x, cmov(e.y, fe_negate(e.y, 1), FALSE), FALSE)

CONST_TABLE_GET_GE(pre, n) ==
    LET e == pre[((IF n > 0 THEN n ELSE -n) \div 2) + 1]
    IN  Ge(e.x, cmov(e.y, fe_negate(e.y, 1), n < 0), FALSE)

\* What is added for the skew: -a, or -2a.
Correction(a, skew) ==
    LET twice == set_gej(double_var(set_ge(a)).r)
    IN  ge_neg(ge_from_storage(IF skew = 2 THEN ge_to_storage(twice) ELSE ge_to_storage(a)))


\* With the z that was left out.
Whole(r, Z) == [r EXCEPT !.z = mul(@, Z)]

\* The hash is one of these two, and nothing else goes in.
hashfp(x, y) == [version |-> IF y.v % 2 = 1 THEN 3 ELSE 2, x |-> x.v]

-----------------------------------------------------------------------------

VARIABLES
    log, scalar,    \* the call's arguments
    pre_a, Z,       \* the table, and the z it is on
    digits,         \* secp256k1_wnaf_const
    r, i,           \* the loop: digit i is the next, -1: all are done
    output          \* Null: none

vars == <<log, scalar, pre_a, Z, digits, r, i, output>>

point == Affine(Times(log))

\* A scalar that is zero, or above the order, has no secret.
Fails == scalar >= Order \/ scalar = 0

Init ==
    /\ log \in Logs /\ scalar \in Scalars
    /\ pre_a = <<>> /\ Z = set_int(1) /\ r = gej_set_infinity /\ output = Null
    /\ digits = Null
    /\ i = WNAF_SIZE(WINDOW_A - 1) + 1

\* Digits and table, and the highest digit's entry, which is set and not added.
Start ==
    LET d == Const(scalar, WINDOW_A - 1)
        t == odd_multiples_table(TABLE_SIZE(WINDOW_A), set_ge(point))
        pre == globalz_set_table_gej(t.prej, t.zr)
        weak == [k \in DOMAIN pre |-> [pre[k] EXCEPT !.y = normalize_weak(@)]]
        top == WNAF_SIZE(WINDOW_A - 1)
    IN  /\ i = top + 1 /\ ~Fails
        /\ digits' = d /\ pre_a' = weak /\ Z' = Last(t.prej).z
        /\ r' = set_ge(CONST_TABLE_GET_GE(weak, d.wnaf[top]))
        /\ i' = top - 1
        /\ UNCHANGED <<log, scalar, output>>

Doubled(s) == FoldLeft(LAMBDA q, j : double_var(q).r, s, Indices(WINDOW_A - 1))

Turn ==
    /\ i \in 0 .. WNAF_SIZE(WINDOW_A - 1) - 1
    /\ r' = add_ge(Doubled(r), CONST_TABLE_GET_GE(pre_a, digits.wnaf[i]))
    /\ i' = i - 1
    /\ UNCHANGED <<log, scalar, pre_a, Z, digits, output>>

\* secp256k1_ecdh with the result; what it hashes is affine and normalized.
Finish ==
    LET res == add_ge(Whole(r, Z), Correction(point, digits.skew))
        pt == set_gej(res)
    IN  /\ i = -1 /\ output = Null
        /\ r' = res
        /\ output' = hashfp(normalize(pt.x), normalize(pt.y))
        /\ UNCHANGED <<log, scalar, pre_a, Z, digits, i>>

Next == Start \/ Turn \/ Finish

Spec == Init /\ [][Next]_vars

-----------------------------------------------------------------------------

\* What the digits above i come to.
Prefix ==
    LET w == WINDOW_A - 1
        top == WNAF_SIZE(w)
    IN  FoldLeft(LAMBDA s, k : s * 2^w + digits.wnaf[top + 1 - k], 0, Indices(top - i))

\* While the loop runs the accumulator is, on the z that is left out, the
\* multiple the digits so far call for, and never infinite: a double that takes
\* no infinity is enough for it (ecmult_const_impl.h:193), and the entry before
\* the loop can be set where others are added.
NeverInfinite ==
    digits # Null /\ output = Null =>
        /\ ~r.inf
        /\ StandsFor(r, r.z.v * Z.v % p, Times(Prefix * log))

\* The secret is a function of the product of the two logarithms, so that both
\* ends of an exchange get the same; and there is none for a scalar that is no
\* key, whatever the point (main_impl.h:40).
SecretIsOfTheProduct ==
    /\ output # Null =>
          LET s == Times(log * scalar)
          IN  output = [version |-> 2 + (s.y % 2), x |-> s.x]
    /\ Fails => output = Null
=============================================================================
