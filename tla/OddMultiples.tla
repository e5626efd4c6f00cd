------------------------------ MODULE OddMultiples ------------------------------
(***************************************************************************)
(* Tables of the odd multiples of a point, for the modules that multiply   *)
(* with signed digits (secp256k1/ecmult_impl.h): a, 3a, 5a, ..., brought   *)
(* to one z, which the multiplication then leaves out.                     *)
(***************************************************************************)
EXTENDS Generator

CONSTANT WINDOW_A       \* 5

\* a, 3a, 5a, ... where 2a is affine, and the ratios of their z's.
odd_multiples_table(n, a) ==
    LET d == double_var(a).r
        a_ge == set_gej_zinv(a, d.z)
        Grow(t, i) ==
            LET s == add_ge_var(Last(t.prej), Ge(d.x, d.y, FALSE))
            IN  [prej |-> Append(t.prej, s.r), zr |-> Append(t.zr, s.rzr)]
        all == FoldLeft(Grow, [prej |-> <<Gej(a_ge.x, a_ge.y, a.z, FALSE)>>, zr |-> <<d.z>>],
                        Indices(n - 1))
    IN  [all EXCEPT !.prej[n].z = mul(@, d.z)]

\* On the z of the last: the others are multiplied by the ratios in between.
globalz_set_table_gej(a, zr) ==
    LET len == Len(a)
        zs[i \in 1 .. len - 1] == IF i = len - 1 THEN zr[len] ELSE mul(zs[i + 1], zr[i + 1])
    IN  [i \in 1 .. len |->
            IF i = len THEN Ge(a[i].x, normalize_weak(a[i].y), FALSE)
            ELSE set_gej_zinv(a[i], zs[i])]

\* Digit k of a table of 1, 3, 5, ...
TABLE_GET_GE(pre, k) ==
    IF k > 0 THEN pre[(k + 1) \div 2] ELSE [pre[(1 - k) \div 2] EXCEPT !.y = fe_negate(@, 1)]
=============================================================================
