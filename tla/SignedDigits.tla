------------------------------ MODULE SignedDigits ------------------------------
(***************************************************************************)
(* What the recodings of a scalar give, for the modules that multiply with *)
(* them; module Wnaf has the loops.  A scalar is a number below the order, *)
(* as Scalar8x32 represents it.                                            *)
(***************************************************************************)
EXTENDS Integers, FiniteSetsExt, SequencesExt

CONSTANTS
    Bits,       \* 256
    Order       \* odd, of that many bits

ASSUME ScalarAssumption ==
    /\ Bits \in Nat /\ Order \in Nat \ {0, 1} /\ Order % 2 = 1
    /\ 2^(Bits - 1) < Order /\ Order < 2^Bits

WNAF_SIZE(v) == (Bits + v - 1) \div v
TABLE_SIZE(w) == 2^(w - 2)
Neg(x) == IF x = 0 THEN 0 ELSE (Order - x) % 2^Bits
get_bits_var(x, offset, count) == (x \div 2^offset) % 2^count
Bit(b) == IF b THEN 1 ELSE 0

Zeros == [i \in 0 .. Bits |-> 0]

-----------------------------------------------------------------------------

\* The digit that leaves a multiple of 2^w.
Lowest(x, w) ==
    LET low == x % 2^w
    IN  IF x % 2 = 0 THEN 0 ELSE IF low < 2^(w - 1) THEN low ELSE low - 2^w

\* The digits of secp256k1_ecmult_wnaf: those of the scalar or, when it is
\* large, those of its opposite, negated.
Naf(x, w) ==
    LET high == get_bits_var(x, Bits - 1, 1) = 1
        rest[i \in 0 .. Bits] ==
            IF i = 0 THEN IF high THEN Neg(x) ELSE x
            ELSE LET r == rest[i - 1] IN (r - Lowest(r, w)) \div 2
    IN  [i \in 0 .. Bits |-> (IF high THEN -1 ELSE 1) * Lowest(rest[i], w)]

-----------------------------------------------------------------------------
(* secp256k1_wnaf_fixed                                                    *)

\* The bits of word i; the last word may have fewer.
Word(x, w, i) ==
    LET n == WNAF_SIZE(w)
    IN  get_bits_var(x, i * w, IF i = n - 1 THEN Bits - (n - 1) * w ELSE w)

Skew(x) == Bit(x # 0 /\ x % 2 = 0)

\* Words above the highest that is not zero stay zero.
max_pos(x, w) == Max({0} \cup {i \in 1 .. WNAF_SIZE(w) - 1 : Word(x, w, i) # 0})

FixedStart(x, w) ==
    [Zeros EXCEPT ![0] = IF x = 0 THEN 0 ELSE get_bits_var(x, 0, w) + Skew(x)]

\* A digit 1 above a negative one, or -1 above a positive one, goes into it.
Absorb(d, i, w) ==
    IF i >= 2 /\ ((d[i - 1] = 1 /\ d[i - 2] < 0) \/ (d[i - 1] = -1 /\ d[i - 2] > 0))
    THEN [d EXCEPT ![i - 2] = @ + d[i - 1] * 2^w, ![i - 1] = 0] ELSE d

FixedTurn(d, x, w, i) ==
    LET val == Word(x, w, i)
    IN  Absorb(IF val % 2 = 0 THEN [d EXCEPT ![i - 1] = @ - 2^w, ![i] = val + 1]
               ELSE [d EXCEPT ![i] = val], i, w)

Fixed(x, w) ==
    FoldLeft(LAMBDA d, i : FixedTurn(d, x, w, i), FixedStart(x, w),
             [i \in 1 .. max_pos(x, w) |-> i])

-----------------------------------------------------------------------------
(* secp256k1_wnaf_const                                                    *)

\* Mutant: minus one is treated as any other high scalar.
NegOne_Missed(x) == FALSE

\* Adding two to minus one would wrap.
NegOne(x) == Neg(x) = 1

\* Made odd by adding 1 or 2 and low by negating, but minus one only negated.
ConstStart(x, w) ==
    LET flip == 2 * x > Order
        bit == Bit(flip # (x % 2 = 1))
        skewed == x + (IF NegOne(x) THEN 0 ELSE 2^bit)
        odd == IF flip THEN Neg(skewed) ELSE skewed
    IN  [sign |-> IF flip # NegOne(x) THEN -1 ELSE 1, skew |-> 2^bit,
         u_last |-> odd % 2^w, s |-> odd \div 2^w, wnaf |-> Zeros]

\* Each digit but the last, made odd with what the next one gives or takes.
ConstTurn(c, w, word) ==
    LET u == c.s % 2^w
        even == Bit(u % 2 = 0)
        sign == IF c.u_last > 0 THEN 1 ELSE -1
    IN  [c EXCEPT !.u_last = u + sign * even, !.s = @ \div 2^w,
                  !.wnaf = [@ EXCEPT ![word] = (c.u_last - sign * even * 2^w) * c.sign,
                                     ![word + 1] = (u + sign * even) * c.sign]]

Const(x, w) ==
    FoldLeft(LAMBDA c, i : ConstTurn(c, w, i - 1), ConstStart(x, w),
             [i \in 1 .. WNAF_SIZE(w) |-> i])
=============================================================================
