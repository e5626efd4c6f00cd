-------------------------------- MODULE Strauss --------------------------------
(***************************************************************************)
(* Sums of multiples of points (secp256k1_ecmult_strauss_wnaf): tables of  *)
(* odd multiples that share one z which the loop leaves out, the table of  *)
(* the generator that is affine, and a loop that doubles and looks up.     *)
(* The field elements carry their magnitudes, as module Points has them.   *)
(***************************************************************************)
EXTENDS OddMultiples

CONSTANTS
    WINDOW_G,       \* 16
    Inputs          \* bound: calls, see VARIABLES

\* x from the ratio that was stored in its place.
RecoveredX(dx, rzr, zi2) == fe_add(fe_negate(mul(rzr, zi2), 1), dx)

\* Affine, with one inversion: on the way up only y and the ratio are stored.
odd_multiples_table_storage_var(n, a) ==
    LET d == double_var(a).r
        p_ge == set_gej_zinv(a, d.z)
        Up(t, i) ==
            LET s == add_ge_var(t.pj, Ge(d.x, d.y, FALSE))
            IN  [pj |-> s.r, pre |-> Append(t.pre, [x |-> fe_to_storage(normalize(s.rzr)),
                                                    y |-> fe_to_storage(normalize(t.pj.y))])]
        up == FoldLeft(Up, [pj |-> Gej(p_ge.x, p_ge.y, a.z, FALSE), pre |-> <<>>], Indices(n - 1))
        zi == fe_inv(mul(up.pj.z, d.z))
        dx_over_dz_squared == mul(sqr(mul(zi, up.pj.z)), d.x)
        Down(t, i) ==
            LET stored == ge_from_storage(up.pre[n - i])
                z == mul(t.zi, stored.x)
                zi2 == sqr(z)
            IN  [zi |-> z,
                 pre |-> <<ge_to_storage(Ge(RecoveredX(dx_over_dz_squared, stored.x, zi2),
                                            mul(stored.y, mul(zi2, z)), FALSE))>> \o t.pre]
    IN  FoldLeft(Down, [zi |-> zi, pre |-> <<ge_to_storage(set_gej_zinv(up.pj, zi))>>],
                 Indices(n - 1)).pre

TABLE_GET_GE_STORAGE(pre, k) ==
    LET r == ge_from_storage(pre[((IF k > 0 THEN k ELSE -k) + 1) \div 2])
    IN  IF k > 0 THEN r ELSE [r EXCEPT !.y = fe_negate(@, 1)]

-----------------------------------------------------------------------------

VARIABLES
    in,     \* the points, by their logarithms and z's, and the scalars; ng may be Null
    pre_g,  \* of the context
    used,   \* the points that are not skipped: input_pos
    prej, zr,   \* the points' tables, one behind the other
    pre_a, Z,   \* the same on one z, that z
    wnaf,   \* the digits: of the used points, and of G behind them
    r, i    \* the loop

vars == <<in, pre_g, used, prej, zr, pre_a, Z, wnaf, r, i>>

Point(np) == rescale(set_ge(Affine(Times(in.log[np]))), set_int(in.z[np]))

Call ==
    /\ in \in Inputs
    /\ pre_g = odd_multiples_table_storage_var(TABLE_SIZE(WINDOW_G), set_ge(Affine(G)))
    /\ used = <<>> /\ prej = <<>> /\ zr = <<>> /\ pre_a = <<>>
    /\ Z = set_int(1) /\ wnaf = <<>> /\ r = gej_set_infinity /\ i = -1

Init == Call

Skipped(np) == in.na[np] = 0 \/ Point(np).inf

\* The next point that counts, on the z that the last table has ended with.
Tables ==
    LET left == {np \in 1 .. Len(in.na) : ~Skipped(np) /\ \A k \in Range(used) : np > k}
        np == Min(left)
        a == Point(np)
        t == odd_multiples_table(TABLE_SIZE(WINDOW_A),
                                 IF used = <<>> THEN a ELSE rescale(a, Last(prej).z))
    IN  /\ pre_a = <<>> /\ i = -1 /\ left # {}
        /\ used' = Append(used, np)
        /\ prej' = prej \o t.prej
        /\ zr' = zr \o (IF used = <<>> THEN t.zr ELSE [t.zr EXCEPT ![1] = mul(@, a.z)])
        /\ wnaf' = Append(wnaf, Naf(in.na[np], WINDOW_A))
        /\ UNCHANGED <<in, pre_g, pre_a, Z, r, i>>

BitsOf(d) == Max({0} \cup {b + 1 : b \in {k \in DOMAIN d : d[k] # 0}})

Start ==
    LET all == wnaf \o (IF in.ng = Null THEN <<>> ELSE <<Naf(in.ng, WINDOW_G)>>)
        bits == Max({0} \cup {BitsOf(all[k]) : k \in DOMAIN all})
    IN  /\ pre_a = <<>> /\ i = -1 /\ bits > 0
        /\ \A np \in 1 .. Len(in.na) : Skipped(np) \/ np \in Range(used)
        /\ pre_a' = globalz_set_table_gej(prej, zr)
        /\ Z' = IF used = <<>> THEN set_int(1) ELSE Last(prej).z
        /\ wnaf' = all
        /\ i' = bits
        /\ UNCHANGED <<in, pre_g, used, prej, zr, r>>

TableOf(no) == SubSeq(pre_a, (no - 1) * TABLE_SIZE(WINDOW_A) + 1, no * TABLE_SIZE(WINDOW_A))

\* Mutant: the entry of G is added as if it were on the common z.
AddG_NoZ(s, g, z) == add_ge_var(s, g).r

AddG(s, g, z) == add_zinv_var(s, g, z)

\* After the loop.
PutBack(s, z) == IF s.inf THEN s ELSE [s EXCEPT !.z = mul(@, z)]

\* Bit i - 1: the points' entries, then that of G.
Turn ==
    LET At(s, no) == LET k == wnaf[no][i - 1]
                     IN  IF k = 0 THEN s ELSE add_ge_var(s, TABLE_GET_GE(TableOf(no), k)).r
        points == FoldLeft(At, double_var(r).r, Indices(Len(used)))
        ng == IF in.ng = Null THEN 0 ELSE Last(wnaf)[i - 1]
        sum == IF ng = 0 THEN points ELSE AddG(points, TABLE_GET_GE_STORAGE(pre_g, ng), Z)
    IN  /\ i > 0
        /\ i' = i - 1
        /\ r' = IF i = 1 THEN PutBack(sum, Z) ELSE sum
        /\ UNCHANGED <<in, pre_g, used, prej, zr, pre_a, Z, wnaf>>

Next == Tables \/ Start \/ Turn

Spec == Init /\ [][Next]_vars

-----------------------------------------------------------------------------

\* On the common z the tables hold the odd multiples of the points that count,
\* whatever the points' own z's, and G's table holds affine ones; every entry can
\* be negated as it is (ecmult_impl.h:80, :508).
TablesHoldOddMultiples ==
    /\ \A k \in DOMAIN pre_a :
           LET no == (k - 1) \div TABLE_SIZE(WINDOW_A)
               mult == 2 * (k - 1 - no * TABLE_SIZE(WINDOW_A)) + 1
           IN  /\ StandsFor(pre_a[k], Z.v, Times(mult * in.log[used[no + 1]]))
               /\ pre_a[k].y.m = 1
    /\ \A k \in DOMAIN pre_g :
           StandsFor(ge_from_storage(pre_g[k]), 1, Times(2 * k - 1))

\* What the digits from bit i on come to, all by their logarithms.
Prefix ==
    LET From(d) == FoldLeft(LAMBDA s, b : 2 * s + d[Bits - b], 0, [b \in 1 .. Bits - i |-> b])
        terms == Append([no \in 1 .. Len(used) |-> From(wnaf[no]) * in.log[used[no]]],
                        IF in.ng = Null THEN 0 ELSE From(Last(wnaf)))
    IN  FoldLeft(LAMBDA s, no : s + terms[no], 0, Indices(Len(terms)))

\* In every turn the accumulator, with the z that is left out, is the sum that
\* the digits read so far call for: also when it passes through infinity, or
\* meets its own entry or the opposite of it (ecmult_impl.h:556).
AccumulatesTheSum ==
    i >= 0 => StandsFor(r, IF i = 0 THEN r.z.v ELSE r.z.v * Z.v % p, Times(Prefix))

\* The result is the sum of the multiples that was asked for, with skipped points
\* and scalars 0 among them, and no field operation was handed a magnitude it does
\* not allow.
EndsWithTheSum ==
    i = 0 =>
        LET ng == IF in.ng = Null THEN 0 ELSE in.ng
            all == FoldLeft(LAMBDA s, np : s + in.na[np] * in.log[np], ng, Indices(Len(in.na)))
        IN  /\ StandsFor(r, r.z.v, Times(all))
            /\ Sound(r.x) /\ Sound(r.y) /\ Sound(r.z)
=============================================================================
