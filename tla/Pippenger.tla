------------------------------- MODULE Pippenger -------------------------------
(***************************************************************************)
(* Sums of many multiples of points (secp256k1_ecmult_pippenger_wnaf): for *)
(* each digit's place a point goes into the bucket of its digit, and the   *)
(* buckets are summed up with the weights 1, 3, 5, ... by running sums,    *)
(* one doubling of which is put off to the end.                            *)
(***************************************************************************)
EXTENDS Generator

CONSTANTS Inputs, BucketWindows     \* bounds: calls, see VARIABLES

VARIABLES
    in,             \* the points, by their logarithms, and the scalars
    bucket_window,
    used, wnaf,     \* the points that are not skipped, and their digits
    r, i            \* the sum, and the places that are left

vars == <<in, bucket_window, used, wnaf, r, i>>

w == bucket_window + 1
pt(np) == Affine(Times(in.log[np]))
Negated(q) == ge_neg(q)

Init ==
    /\ in \in Inputs /\ bucket_window \in BucketWindows
    /\ used = SelectSeq(Indices(Len(in.sc)),
                        LAMBDA np : in.sc[np] # 0 /\ in.log[np] % Order # 0)
    /\ wnaf = [no \in DOMAIN used |-> Fixed(in.sc[used[no]], w)]
    /\ r = gej_set_infinity
    /\ i = IF used = <<>> THEN 0 ELSE WNAF_SIZE(w)

Into(buckets, k, q) == [buckets EXCEPT ![k] = add_ge_var(@, q).r]

\* Once, in the lowest place.
Unskewed(buckets, no, place) ==
    IF place = 0 /\ Skew(in.sc[used[no]]) = 1 THEN Into(buckets, 0, Negated(pt(used[no])))
    ELSE buckets

\* Bucket k is for the digits 2 * k + 1 and -(2 * k + 1).
Filled(place) ==
    LET At(buckets, no) ==
            LET n == wnaf[no][place]
                b == Unskewed(buckets, no, place)
            IN  CASE n > 0 -> Into(b, (n - 1) \div 2, pt(used[no]))
                  [] n < 0 -> Into(b, (-(n + 1)) \div 2, Negated(pt(used[no])))
                  [] OTHER -> b
    IN  FoldLeft(At, [k \in 0 .. TABLE_SIZE(bucket_window + 2) - 1 |-> gej_set_infinity],
                 Indices(Len(used)))

\* From the highest bucket down; the doubling of what was there and of the running
\* sums is one.
Summed(buckets, sum) ==
    LET top == TABLE_SIZE(bucket_window + 2) - 1
        Down(t, k) == LET running == add_var(t.running, buckets[top + 1 - k]).r
                      IN  [running |-> running, r |-> add_var(t.r, running).r]
        all == FoldLeft(Down, [running |-> gej_set_infinity, r |-> sum], Indices(top))
    IN  add_var(double_var(all.r).r, add_var(all.running, buckets[0]).r).r

Place ==
    /\ i > 0 /\ i' = i - 1
    /\ r' = Summed(Filled(i - 1), FoldLeft(LAMBDA q, j : double_var(q).r, r, Indices(bucket_window)))
    /\ UNCHANGED <<in, bucket_window, used, wnaf>>

Next == Place

Spec == Init /\ [][Next]_vars

-----------------------------------------------------------------------------

\* What the digits from place i on come to, without the skew.
Prefix ==
    LET From(d) == FoldLeft(LAMBDA s, k : s * 2^w + d[WNAF_SIZE(w) - k], 0,
                            Indices(WNAF_SIZE(w) - i))
    IN  FoldLeft(LAMBDA s, no : s + From(wnaf[no]) * in.log[used[no]], 0, Indices(Len(used)))

SoundPoint(q) == Sound(q.x) /\ Sound(q.y) /\ Sound(q.z)

\* After every place the sum is what the digits so far call for, whatever is in
\* the buckets: nothing, the same point twice, or points that cancel out
\* (ecmult_impl.h:819).
PlacesAddUp ==
    i > 0 => SoundPoint(r) /\ StandsFor(r, r.z.v, Times(Prefix))

\* In the end it is the sum of the multiples, the skews taken off.
SumOfMultiples ==
    i = 0 =>
        /\ SoundPoint(r)
        /\ StandsFor(r, r.z.v,
               Times(FoldLeft(LAMBDA s, np : s + in.sc[np] * in.log[np], 0, Indices(Len(in.sc)))))
=============================================================================
