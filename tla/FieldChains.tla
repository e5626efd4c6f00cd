------------------------------ MODULE FieldChains ------------------------------
(***************************************************************************)
(* Inverses and square roots are powers (secp256k1/field_impl.h,           *)
(* scalar_impl.h): a^(p-2), a^((p+1)/4) and x^(n-2), each computed by a    *)
(* fixed chain of squarings and multiplications through intermediate       *)
(* variables.  Here a variable holds its exponent, at full size, in digits *)
(* of 16 bits; a squaring doubles it and a multiplication adds another's.  *)
(***************************************************************************)
EXTENDS Integers, Sequences

Digits == 0 .. 15
Base == 2^16

\* dst = src^(2^k), then times by.
Op(dst, src, k, by) == [dst |-> dst, src |-> src, k |-> k, by |-> by]

\* Both field chains: xN = a^(2^N - 1).
Ones ==
    << Op("x2", "a", 1, "a"), Op("x3", "x2", 1, "a"), Op("x6", "x3", 3, "x3"),
       Op("x9", "x6", 3, "x3"), Op("x11", "x9", 2, "x2"), Op("x22", "x11", 11, "x11"),
       Op("x44", "x22", 22, "x22"), Op("x88", "x44", 44, "x44"),
       Op("x176", "x88", 88, "x88"), Op("x220", "x176", 44, "x44"), Op("x223", "x220", 3, "x3") >>

fe_inv ==
    Ones \o << Op("t1", "x223", 23, "x22"), Op("t1", "t1", 5, "a"), Op("t1", "t1", 3, "x2"),
               Op("t1", "t1", 2, ""), Op("r", "a", 0, "t1") >>

fe_sqrt ==
    Ones \o << Op("t1", "x223", 23, "x22"), Op("t1", "t1", 6, "x2"), Op("t1", "t1", 1, ""),
               Op("r", "t1", 1, "") >>

\* uM = x^M and xN = x^(2^N - 1), then the lower half of n - 2 in windows.
scalar_inverse ==
    << Op("u2", "x", 1, ""), Op("x2", "u2", 0, "x"), Op("u5", "u2", 0, "x2"),
       Op("x3", "u5", 0, "u2"), Op("u9", "x3", 0, "u2"), Op("u11", "u9", 0, "u2"),
       Op("u13", "u11", 0, "u2"), Op("x6", "u13", 2, "u11"), Op("x8", "x6", 2, "x2"),
       Op("x14", "x8", 6, "x6"), Op("x28", "x14", 14, "x14"), Op("x56", "x28", 28, "x28"),
       Op("x112", "x56", 56, "x56"), Op("x126", "x112", 14, "x14"),
       Op("t", "x126", 3, "u5"), Op("t", "t", 4, "x3"), Op("t", "t", 4, "u5"),
       Op("t", "t", 5, "u11"), Op("t", "t", 4, "u11"), Op("t", "t", 4, "x3"),
       Op("t", "t", 5, "x3"), Op("t", "t", 6, "u13"), Op("t", "t", 4, "u5"),
       Op("t", "t", 3, "x3"), Op("t", "t", 5, "u9"), Op("t", "t", 6, "u5"),
       Op("t", "t", 10, "x3"), Op("t", "t", 4, "x3"), Op("t", "t", 9, "x8"),
       Op("t", "t", 5, "u9"), Op("t", "t", 6, "u11"), Op("t", "t", 4, "u13"),
       Op("t", "t", 5, "x2"), Op("t", "t", 6, "u13"), Op("t", "t", 10, "u13"),
       Op("t", "t", 4, "u9"), Op("t", "t", 6, "x"), Op("r", "t", 8, "x6") >>

Chain == [fe_inv |-> fe_inv, fe_sqrt |-> fe_sqrt, scalar_inverse |-> scalar_inverse]

VARIABLES
    chain,      \* the function that runs
    pc, j,      \* its operation, and the squarings done of it
    reg         \* the exponents of its variables

vars == <<chain, pc, j, reg>>

One == [i \in Digits |-> IF i = 0 THEN 1 ELSE 0]
Zero == [i \in Digits |-> 0]

Double(e) ==
    [i \in Digits |-> ((2 * e[i]) % Base) + (IF i > 0 /\ e[i - 1] >= Base \div 2 THEN 1 ELSE 0)]

Plus(e, f) ==
    LET sum[i \in -1 .. 15] ==
            IF i = -1 THEN 0 ELSE e[i] + f[i] + (sum[i - 1] \div Base)
    IN  [i \in Digits |-> sum[i] % Base]

Names(c) == {"a", "x"} \cup {Chain[c][i].dst : i \in 1 .. Len(Chain[c])}

Init ==
    /\ chain \in DOMAIN Chain /\ pc = 1 /\ j = 0
    /\ reg = [n \in Names(chain) |-> IF n \in {"a", "x"} THEN One ELSE Zero]

Running == pc <= Len(Chain[chain])
Current == Chain[chain][pc]

\* What the operation has so far: its source, or what it has made of it.
Before == IF j = 0 THEN reg[Current.src] ELSE reg[Current.dst]

Advance == pc' = pc + 1 /\ j' = 0

Square ==
    /\ Running /\ j < Current.k
    /\ reg' = [reg EXCEPT ![Current.dst] = Double(Before)]
    /\ IF j + 1 = Current.k /\ Current.by = "" THEN Advance ELSE j' = j + 1 /\ pc' = pc
    /\ UNCHANGED chain

Multiply ==
    /\ Running /\ j = Current.k /\ Current.by # ""
    /\ reg' = [reg EXCEPT ![Current.dst] = Plus(Before, reg[Current.by])]
    /\ Advance
    /\ UNCHANGED chain

Next == Square \/ Multiply

Spec == Init /\ [][Next]_vars

-----------------------------------------------------------------------------

\* The prime of the field and the order of the group, in digits.
P == [i \in Digits |-> CASE i = 0 -> \hFC2F [] i = 2 -> \hFFFE [] OTHER -> \hFFFF]
N == LET low == << \h4141, \hD036, \h5E8C, \hBFD2, \hA03B, \hAF48, \hDCE6, \hBAAE, \hFFFE >>
     IN  [i \in Digits |-> IF i < 9 THEN low[i + 1] ELSE \hFFFF]

\* What comes out is a^(p-2), which is the inverse of a, and of 0 it is 0; a root
\* that is a^((p+1)/4), the only candidate that squares to a; and x^(n-2).
RightPower ==
    ~Running =>
        LET e == reg["r"]  Add(k) == Plus(e, [One EXCEPT ![0] = k])
        IN  CASE chain = "fe_inv" -> Add(2) = P
              [] chain = "fe_sqrt" -> Double(Double(e)) = Plus(P, One)
              [] chain = "scalar_inverse" -> Add(2) = N

Full(n) ==
    [i \in Digits |-> IF n >= 16 * (i + 1) THEN Base - 1
                      ELSE IF n <= 16 * i THEN 0 ELSE 2^(n - 16 * i) - 1]

\* Each xN stands for N ones in a row when it is used, as its name says; one
\* squaring too few would show in no other variable and only for some inputs.
NamesAreTrue ==
    Running /\ j = 0 =>
        \A n \in {<<"x2", 2>>, <<"x3", 3>>, <<"x6", 6>>, <<"x8", 8>>, <<"x9", 9>>, <<"x11", 11>>,
                  <<"x14", 14>>, <<"x22", 22>>, <<"x28", 28>>, <<"x44", 44>>, <<"x56", 56>>,
                  <<"x88", 88>>, <<"x112", 112>>, <<"x126", 126>>, <<"x176", 176>>,
                  <<"x220", 220>>, <<"x223", 223>>} :
            n[1] \in DOMAIN reg => reg[n[1]] \in {Zero, Full(n[2])}
=============================================================================
