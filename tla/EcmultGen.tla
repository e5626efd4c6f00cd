------------------------------- MODULE EcmultGen -------------------------------
(***************************************************************************)
(* Multiples of the generator (secp256k1/ecmult_gen_impl.h) for the        *)
(* contexts that sign: a table without infinite entries, from which every  *)
(* product takes one entry a window, and a blinding that is renewed.       *)
(* Contexts are created, cloned, randomized and destroyed as secp256k1.c   *)
(* does it; each owns its table.                                           *)
(***************************************************************************)
EXTENDS Generator

CONSTANTS
    WINDOWS, WIDTH,     \* 64 windows of 4 bits
    NUMS_X,             \* x of a point whose logarithm nobody knows
    Contexts,
    Addresses,          \* bound: of tables
    DrawnFe, DrawnScalars,  \* bounds: what the generator of random numbers gives
    Blindings           \* bound: in a behaviour

WindowsAssumption == WINDOWS * WIDTH = Bits

-----------------------------------------------------------------------------
(* The table                                                               *)

\* All finite ones with one inversion, of the product of their z's.
set_all_gej_var(a) ==
    LET finite == SelectSeq(Indices(Len(a)), LAMBDA k : ~a[k].inf)
        Up(t, k) == Append(t, IF t = <<>> THEN a[k].z ELSE mul(Last(t), a[k].z))
        products == FoldLeft(Up, <<>>, finite)
        Down(t, m) ==
            LET last == Len(finite) - m + 1
            IN  [u |-> mul(t.u, a[finite[last]].z),
                 zi |-> <<mul(products[last - 1], t.u)>> \o t.zi]
        all == FoldLeft(Down, [u |-> fe_inv(Last(products)), zi |-> <<>>], Indices(Len(finite) - 1))
        zi == <<all.u>> \o all.zi
    IN  [k \in DOMAIN a |->
            IF a[k].inf THEN Ge(Broken, Broken, TRUE)
            ELSE set_gej_zinv(a[k], zi[Cardinality({m \in 1 .. k : ~a[m].inf})])]

\* Nothing up my sleeve, and G.
nums_gej == add_ge_var(set_ge(set_xo_var(set_int(NUMS_X), 0).r), Affine(G)).r

Doubled(s, times) == FoldLeft(LAMBDA t, k : double_var(t).r, s, Indices(times))

\* 1, 2, 4, ... times nums, and for the last window what makes the sum nothing.
NextNums(numsbase, j) ==
    LET twice == double_var(numsbase).r
    IN  IF j = WINDOWS - 2 THEN add_var(gej_neg(twice), nums_gej).r ELSE twice

\* Window j (of 0, 1, ...) has nums + i * 16^j * G for every i of 4 bits.
precj ==
    LET Row(t) == FoldLeft(LAMBDA row, i : Append(row, add_var(Last(row), t.gbase).r),
                           <<t.numsbase>>, Indices(2^WIDTH - 1))
        Window(t, j) == [gbase |-> Doubled(t.gbase, WIDTH), numsbase |-> NextNums(t.numsbase, j - 1),
                         all |-> t.all \o Row(t)]
    IN  FoldLeft(Window, [gbase |-> set_ge(Affine(G)), numsbase |-> nums_gej, all |-> <<>>],
                 Indices(WINDOWS)).all

NumsAssumption == \A k \in DOMAIN precj : ~precj[k].inf

Table ==
    LET prec == set_all_gej_var(precj)
    IN  [j \in 0 .. WINDOWS - 1 |->
            [i \in 0 .. 2^WIDTH - 1 |-> ge_to_storage(prec[j * 2^WIDTH + i + 1])]]

-----------------------------------------------------------------------------

VARIABLES
    ctx,    \* of each context: where its table is, its blinding, its state
    heap,   \* the tables that are allocated
    calls   \* blindings so far

vars == <<ctx, heap, calls>>

\* (gn - b)G + bG.
gen(c, gn) ==
    LET gnb == (gn + c.blind) % Order
    IN  FoldLeft(LAMBDA r, j : add_ge(r, ge_from_storage(
                    heap[c.prec][j - 1][get_bits_var(gnb, (j - 1) * WIDTH, WIDTH)])),
                 c.initial, Indices(WINDOWS))

Init ==
    /\ ctx = [c \in Contexts |-> [at |-> "none", prec |-> Null, initial |-> gej_set_infinity,
                                  blind |-> 0]]
    /\ heap = <<>>
    /\ calls = 0

Built(c) == ctx[c].prec # Null

\* What a blinding without a seed begins with.
Unblinded(c, prec) ==
    [c EXCEPT !.initial = gej_neg(set_ge(Affine(G))), !.blind = 1, !.prec = prec,
              !.at = "projection"]

\* secp256k1_context_create: init and, in a context that signs, build, which
\* begins a blinding without a seed.
Create(c) ==
    /\ ctx[c].at = "none"
    /\ \/ ctx' = [ctx EXCEPT ![c].at = "idle", ![c].prec = Null] /\ UNCHANGED <<heap, calls>>
       \/ \E address \in Addresses \ DOMAIN heap :
            /\ heap' = [a \in DOMAIN heap \cup {address} |->
                            IF a = address THEN Table ELSE heap[a]]
            /\ ctx' = [ctx EXCEPT ![c] = Unblinded(@, address)]
            /\ calls < Blindings /\ calls' = calls + 1

\* secp256k1_context_randomize, with a seed or without.
Randomize(c) ==
    /\ ctx[c].at = "idle" /\ Built(c) /\ calls < Blindings
    /\ \/ ctx' = [ctx EXCEPT ![c].at = "projection"]
       \/ ctx' = [ctx EXCEPT ![c] = Unblinded(@, @.prec)]
    /\ calls' = calls + 1
    /\ UNCHANGED heap

\* A number that is zero or too large is drawn again.
BlindProjection(c) ==
    /\ ctx[c].at = "projection"
    /\ \E s \in DrawnFe :
        /\ s # 0 /\ s < p
        /\ ctx' = [ctx EXCEPT ![c].at = "scalar", ![c].initial = rescale(@, set_int(s))]
    /\ UNCHANGED <<heap, calls>>

\* The new blinding point is taken with the old blinding.
BlindScalar(c) ==
    /\ ctx[c].at = "scalar"
    /\ \E b \in DrawnScalars :
        /\ b # 0 /\ b < Order
        /\ ctx' = [ctx EXCEPT ![c].at = "idle", ![c].blind = Neg(b),
                              ![c].initial = gen(ctx[c], b)]
    /\ UNCHANGED <<heap, calls>>

\* secp256k1_context_clone: a table of its own, and the same blinding.
Clone(dst, src) ==
    /\ ctx[dst].at = "none" /\ ctx[src].at = "idle"
    /\ \/ ~Built(src) /\ ctx' = [ctx EXCEPT ![dst].at = "idle", ![dst].prec = Null]
          /\ UNCHANGED heap
       \/ /\ Built(src)
          /\ \E address \in Addresses \ DOMAIN heap :
            /\ heap' = [a \in DOMAIN heap \cup {address} |->
                            IF a = address THEN heap[ctx[src].prec] ELSE heap[a]]
            /\ ctx' = [ctx EXCEPT ![dst] = [ctx[src] EXCEPT !.prec = address]]
    /\ UNCHANGED calls

\* secp256k1_context_destroy: the table is freed and the secrets overwritten.
Destroy(c) ==
    /\ ctx[c].at = "idle"
    /\ heap' = [a \in DOMAIN heap \ {ctx[c].prec} |-> heap[a]]
    /\ ctx' = [ctx EXCEPT ![c] = [at |-> "none", prec |-> Null, initial |-> gej_set_infinity,
                                  blind |-> 0]]
    /\ UNCHANGED calls

Next ==
    \/ \E c \in Contexts : Create(c) \/ Randomize(c) \/ BlindProjection(c) \/ BlindScalar(c)
                           \/ Destroy(c)
    \/ \E dst, src \in Contexts : Clone(dst, src)

Spec == Init /\ [][Next]_vars

-----------------------------------------------------------------------------

\* Every multiple that any context would compute, in the middle of its blinding
\* too, is the multiple: however often it was blinded and whatever of it was
\* cloned, and where the sum meets infinity, an entry equal to it or its opposite
\* (ecmult_gen_impl.h:124); the field operations get the magnitudes they allow.
GenMultiplies ==
    \A c \in Contexts : Built(c) =>
        \A gn \in 0 .. Order - 1 :
            LET r == gen(ctx[c], gn)
            IN  StandsFor(r, r.z.v, Times(gn)) /\ Sound(r.x) /\ Sound(r.y) /\ Sound(r.z)

\* The blinding is never nothing: no scalar is used as it is (ecmult_gen_impl.h:195).
AlwaysBlinded ==
    \A c \in Contexts : Built(c) => ctx[c].blind # 0 /\ ~ctx[c].initial.inf

\* Each table belongs to one context and goes with it, so that no context is left
\* with a table that another freed (ecmult_gen_impl.h:104, :117).
TablesAreOwned ==
    /\ \A c \in Contexts : Built(c) => ctx[c].prec \in DOMAIN heap
    /\ \A c, d \in Contexts : Built(c) /\ ctx[c].prec = ctx[d].prec => c = d
    /\ DOMAIN heap \subseteq {ctx[c].prec : c \in Contexts}
=============================================================================
