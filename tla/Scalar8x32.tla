------------------------------ MODULE Scalar8x32 ------------------------------
(***************************************************************************)
(* Scalars (secp256k1/scalar_8x32_impl.h): numbers modulo the order of the *)
(* curve's group, always reduced, in L = 8 limbs of W = 32 bits.  A product *)
(* of 2 L limbs is added up column by column in three words c0, c1, c2 and *)
(* then reduced three times with the complement of the order, which has    *)
(* C + 1 = 5 limbs, the last of them 1.                                    *)
(***************************************************************************)
EXTENDS Integers, Sequences, SequencesExt

CONSTANTS
    L, W,           \* the limbs and their bits
    Order,          \* the number scalars are taken modulo
    ByteBits,
    Operands        \* values of the other operand

Limb == 0 .. L - 1
C == L \div 2
Size == L * W
U32(x) == x % 2^W

Limbs(val) == [i \in Limb |-> (val \div 2^(W * i)) % 2^W]
Value(d) == MapThenSumSet(LAMBDA i : d[i] * 2^(W * i), Limb)

N == Limbs(Order)               \* SECP256K1_N_i
Complement == 2^Size - Order
NC == Limbs(Complement)         \* SECP256K1_N_C_i
NH == Limbs(Order \div 2)       \* SECP256K1_N_H_i

\* As of the order of secp256k1: its upper limbs but the lowest are full, and
\* the complement is between 1 and 1.41 times 2^128 (it is 1.27 times that).
OrderAssumption ==
    /\ L = 2 * C /\ Order % 2 = 1
    /\ 2^(W * C) <= Complement /\ Complement * Complement < 2^(2 * W * C + 1)
    /\ Operands \subseteq 0 .. Order - 1

-----------------------------------------------------------------------------
(* Sums of limbs, in one accumulator of 64 bits                            *)

Sum(x, y) ==
    LET t[i \in -1 .. L - 1] == IF i = -1 THEN 0 ELSE t[i - 1] \div 2^W + x[i] + y[i]
    IN  [d |-> [i \in Limb |-> U32(t[i])], carry |-> t[L - 1] \div 2^W]

\* Whether a is above n, or orEqual: the first limb from the top that differs.
Exceeds(a, n, orEqual) ==
    LET differ == {i \in Limb : a[i] # n[i]}
    IN  IF differ = {} THEN orEqual ELSE a[Max(differ)] > n[Max(differ)]

check_overflow(a) == Exceeds(a, N, TRUE)

is_high(a) == Exceeds(a, NH, FALSE)

Bit(b) == IF b THEN 1 ELSE 0

reduce(r, overflow) == Sum(r, [i \in Limb |-> overflow * NC[i]]).d

add(a, b) ==
    LET s == Sum(a, b)
        overflow == s.carry + Bit(check_overflow(s.d))
    IN  [d |-> reduce(s.d, overflow), overflow |-> overflow]

\* A bit beyond the last limb, where flag = 0 puts it, adds nothing.
cadd_bit(r, bit, flag) ==
    LET at == bit + (IF flag = 0 THEN Size ELSE 0)
    IN  Sum(r, [i \in Limb |-> IF at \div W = i THEN 2^(at % W) ELSE 0])

is_zero(a) == \A i \in Limb : a[i] = 0
is_one(a) == a = Limbs(1)

cond_negate(r, flag) ==
    LET nonzero == ~is_zero(r)
        flipped == [i \in Limb |-> 2^W - 1 - r[i]]
        n == [i \in Limb |-> N[i] + (IF i = 0 THEN 1 ELSE 0)]
        d == IF flag = 0 THEN r ELSE Sum(flipped, n).d
    IN  [d |-> [i \in Limb |-> IF nonzero THEN d[i] ELSE 0],
         sign |-> IF flag = 0 THEN 1 ELSE -1]

negate(a) == cond_negate(a, 1).d

-----------------------------------------------------------------------------
(* The accumulator c0, c1, c2; ok says that no contract of a macro has been *)
(* broken (the VERIFY_CHECKs, which the build leaves out).                 *)

muladd(s, a, b) ==
    LET tl == U32(a * b)
        c0 == U32(s.c0 + tl)
        th == U32(((a * b) \div 2^W) + Bit(c0 < tl))
        c1 == U32(s.c1 + th)
        c2 == U32(s.c2 + Bit(c1 < th))
    IN  [s EXCEPT !.c0 = c0, !.c1 = c1, !.c2 = c2, !.ok = @ /\ (c1 >= th \/ c2 # 0)]

muladd_fast(s, a, b) ==
    LET tl == U32(a * b)
        c0 == U32(s.c0 + tl)
        th == U32(((a * b) \div 2^W) + Bit(c0 < tl))
        c1 == U32(s.c1 + th)
    IN  [s EXCEPT !.c0 = c0, !.c1 = c1, !.ok = @ /\ c1 >= th]

muladd2(s, a, b) ==
    LET tl == U32(a * b)
        th == (a * b) \div 2^W
        dbl == U32(2 * th)
        c2 == U32(s.c2 + Bit(dbl < th))
        tl2 == U32(2 * tl)
        th2 == U32(dbl + Bit(tl2 < tl))
        c0 == U32(s.c0 + tl2)
        th3 == U32(th2 + Bit(c0 < tl2))
        c2b == U32(c2 + Bit(c0 < tl2 /\ th3 = 0))
        c1 == U32(s.c1 + th3)
        c2c == U32(c2b + Bit(c1 < th3))
    IN  [s EXCEPT !.c0 = c0, !.c1 = c1, !.c2 = c2c,
                  !.ok = /\ @ /\ (dbl >= th \/ c2 # 0)
                         /\ c0 >= tl2 \/ th3 # 0 \/ c2b # 0
                         /\ c1 >= th3 \/ c2c # 0]

sumadd(s, a) ==
    LET c0 == U32(s.c0 + a)
        over == Bit(c0 < a)
        c1 == U32(s.c1 + over)
    IN  [s EXCEPT !.c0 = c0, !.c1 = c1, !.c2 = U32(@ + Bit(c1 < over))]

sumadd_fast(s, a) ==
    LET c0 == U32(s.c0 + a)
        c1 == U32(s.c1 + Bit(c0 < a))
    IN  [s EXCEPT !.c0 = c0, !.c1 = c1, !.ok = @ /\ (c1 # 0 \/ c0 >= a) /\ s.c2 = 0]

extract(s) == [s EXCEPT !.c0 = s.c1, !.c1 = s.c2, !.c2 = 0, !.out = Append(@, s.c0)]
extract_fast(s) ==
    [s EXCEPT !.c0 = s.c1, !.c1 = 0, !.out = Append(@, s.c0), !.ok = @ /\ s.c2 = 0]

Do(s, op) ==
    CASE op[1] = "muladd" -> muladd(s, op[2], op[3])
      [] op[1] = "muladd_fast" -> muladd_fast(s, op[2], op[3])
      [] op[1] = "muladd2" -> muladd2(s, op[2], op[3])
      [] op[1] = "sumadd" -> sumadd(s, op[2])
      [] op[1] = "sumadd_fast" -> sumadd_fast(s, op[2])
      [] op[1] = "extract" -> extract(s)
      [] op[1] = "extract_fast" -> extract_fast(s)

\* Columns of operations, each with an extract at its end, from an accumulator of 0.
Run(columns) ==
    FoldLeft(Do, [c0 |-> 0, c1 |-> 0, c2 |-> 0, ok |-> TRUE, out |-> <<>>], FlattenSeq(columns))

\* The limbs extracted, and as the last what the accumulator is left with.
Out(s) == LET out == Append(s.out, s.c0) IN [k \in 0 .. Len(s.out) |-> out[k + 1]]

Fast(fast) == IF fast THEN <<"extract_fast">> ELSE <<"extract">>

\* The operations f(i) for the i of lo .. hi.
Each(f(_), lo, hi) == [j \in 1 .. hi - lo + 1 |-> f(lo + j - 1)]

Lowest(k) == IF k < L THEN 0 ELSE k - L + 1
Highest(k) == IF k < L THEN k ELSE L - 1

Product(s) == [l |-> Out(s), ok |-> s.ok /\ s.c1 = 0]

mul_512(a, b) ==
    LET column(k) ==
            LET fast == k \in {0, 2 * L - 2}
                term(i) == <<IF fast THEN "muladd_fast" ELSE "muladd", a[i], b[k - i]>>
            IN  Append(Each(term, Lowest(k), Highest(k)), Fast(fast))
    IN  Product(Run([k \in 1 .. 2 * L - 1 |-> column(k - 1)]))

sqr_512(a) ==
    LET column(k) ==
            LET fast == k \in {0, 2 * L - 2}
                term(i) == IF 2 * i < k THEN <<"muladd2", a[i], a[k - i]>>
                           ELSE <<IF fast THEN "muladd_fast" ELSE "muladd", a[i], a[i]>>
            IN  Append(Each(term, Lowest(k), k \div 2), Fast(fast))
    IN  Product(Run([k \in 1 .. 2 * L - 1 |-> column(k - 1)]))

\* Column k of the low L limbs of l + the len above them * Complement: the limb of
\* the former, l[L + k - i] NC[i], and the last limb of Complement, which is 1.
FoldColumn(l, len, k) ==
    LET term(i) == <<"muladd", l[L + k - i], NC[i]>>
        from == IF k >= len THEN k - len + 1 ELSE 0
        to == IF k < C THEN k ELSE C - 1
        one == IF k - C \in 0 .. len - 1 THEN <<<<"sumadd", l[L + k - C]>>>> ELSE <<>>
    IN  (IF k < L THEN <<<<"sumadd", l[k]>>>> ELSE <<>>) \o Each(term, from, to) \o one

FastOps(ops) ==
    [j \in 1 .. Len(ops) |->
        <<IF ops[j][1] = "muladd" THEN "muladd_fast" ELSE "sumadd_fast">> \o Tail(ops[j])]

FirstFast(ops) == <<FastOps(ops)[1]>> \o Tail(ops)

\* The first and the last column of a pass are fast, and so is the first addition
\* of the second.
PassColumn(ops, k, last) ==
    IF k \in {0, last} THEN Append(FastOps(ops), Fast(TRUE))
    ELSE Append(IF k = 1 THEN FirstFast(ops) ELSE ops, Fast(FALSE))

Pass(l, len, n) == Run([k \in 1 .. n |-> PassColumn(FoldColumn(l, len, k - 1), k - 1, n - 1)])

\* 512 bits to 385, to 258, to 256.
LastPass(q, p8, ok) ==
    LET s == Sum(q, [i \in Limb |-> NC[i] * p8])
        overflow == s.carry + Bit(check_overflow(s.d))
    IN  [d |-> reduce(s.d, overflow), ok |-> ok /\ p8 <= 2 /\ overflow <= 1]

SecondPass(m, ok) ==
    LET q == Pass(m, C + 1, L)
    IN  LastPass(Out(q), U32(q.c0 + m[L + C]), ok /\ m[L + C] <= 1 /\ q.ok)

reduce_512(l) == LET m == Pass(l, L, L + C) IN SecondPass(Out(m), m.ok)

Reduced(product) ==
    LET r == reduce_512(product.l) IN [d |-> r.d, ok |-> product.ok /\ r.ok]

mul(a, b) == Reduced(mul_512(a, b))
sqr(a) == Reduced(sqr_512(a))

-----------------------------------------------------------------------------
(* Bits and bytes                                                          *)

shr_int(r, n) ==
    [d |-> [i \in Limb |-> (r[i] \div 2^n)
                           + (IF i = L - 1 THEN 0 ELSE U32(r[i + 1] * 2^(W - n)))],
     ret |-> r[0] % 2^n]

get_bits(a, offset, count) == (a[offset \div W] \div 2^(offset % W)) % 2^count

get_bits_var(a, offset, count) ==
    IF (offset + count - 1) \div W = offset \div W THEN get_bits(a, offset, count)
    ELSE ((a[offset \div W] \div 2^(offset % W))
          + U32(a[(offset \div W) + 1] * 2^(W - (offset % W)))) % 2^count

\* Limbs from bytes, the most significant first, and whether they were too large.
set_b32(b) ==
    LET per == W \div ByteBits
        bytes == L * per
        limb(i) == MapThenSumSet(LAMBDA j : b[bytes - 1 - (per * i + j)] * 2^(ByteBits * j),
                                 0 .. per - 1)
        d == [i \in Limb |-> limb(i)]
        over == Bit(check_overflow(d))
    IN  [d |-> reduce(d, over), overflow |-> over]

get_b32(a) ==
    LET per == W \div ByteBits  bytes == L * per
    IN  [j \in 0 .. bytes - 1 |->
            LET k == bytes - 1 - j IN (a[k \div per] \div 2^(ByteBits * (k % per))) % 2^ByteBits]

-----------------------------------------------------------------------------

VARIABLES
    a,      \* a scalar
    v,      \* the number it stands for
    ok      \* no contract has been broken

vars == <<a, v, ok>>

Bytes(val) ==
    [j \in 0 .. (Size \div ByteBits) - 1 |->
        (val \div 2^(Size - ByteBits * (j + 1))) % 2^ByteBits]

\* Every scalar comes from bytes (or a small integer); any bytes will do.
Init == \E raw \in 0 .. 2^Size - 1 :
    a = set_b32(Bytes(raw)).d /\ v = raw % Order /\ ok = TRUE

Becomes(d, val, contract) == a' = d /\ v' = val % Order /\ ok' = (ok /\ contract)

Add == \E o \in Operands :
    LET s == add(a, Limbs(o)) IN Becomes(s.d, v + o, s.overflow <= 1)

\* The caller knows that the sum is a scalar.
CaddBit == \E bit \in 0 .. Size - 1, flag \in 0 .. 1 :
    /\ v + 2^bit * flag < Order
    /\ LET s == cadd_bit(a, bit, flag)
       IN  Becomes(s.d, v + 2^bit * flag, s.carry = 0 /\ ~check_overflow(s.d))

CondNegate == \E flag \in 0 .. 1 : Becomes(cond_negate(a, flag).d, IF flag = 1 THEN -v ELSE v, TRUE)

Mul == \E o \in Operands : LET m == mul(a, Limbs(o)) IN Becomes(m.d, v * o, m.ok)

Sqr == LET m == sqr(a) IN Becomes(m.d, v * v, m.ok)

ShrInt == \E n \in 1 .. (W \div 2) : Becomes(shr_int(a, n).d, v \div 2^n, TRUE)

Next == Add \/ CaddBit \/ CondNegate \/ Mul \/ Sqr \/ ShrInt

Spec == Init /\ [][Next]_vars

-----------------------------------------------------------------------------

\* Every result is the reduced representation of the right number, so that two
\* scalars are equal exactly if their limbs are (scalar_8x32_impl.h:349 reduces
\* three times and then once more).
Reduces == Value(a) = v /\ v \in 0 .. Order - 1 /\ \A i \in Limb : a[i] \in 0 .. 2^W - 1

\* No accumulator overflows where the comments promise it does not: c2 never
\* wraps, a fast macro never needs c2, p8 is at most 2 (:264, :280, :464).
ContractsKept == ok

\* Sums, bytes and comparisons report a wrap exactly when there is one, and
\* half the order is the border between low and high.
WrapsAreReported ==
    /\ \A o \in Operands : add(a, Limbs(o)).overflow = Bit(v + o >= Order)
    /\ set_b32(get_b32(a)) = [d |-> a, overflow |-> 0]
    /\ v + Order < 2^Size => set_b32(Bytes(v + Order)) = [d |-> a, overflow |-> 1]
    /\ is_high(a) = (2 * v > Order) /\ is_one(a) = (v = 1)
    /\ cond_negate(a, 1).sign = -1 /\ is_high(negate(a)) = (v # 0 /\ ~is_high(a))

\* Windows of bits are read right wherever they start, across limbs too, and a
\* shift returns the bits it drops.
WindowsReadRight ==
    /\ \A offset \in 0 .. Size - 1, count \in 1 .. W - 1 :
           offset + count <= Size =>
               get_bits_var(a, offset, count) = (v \div 2^offset) % 2^count
    /\ \A n \in 1 .. (W \div 2) : shr_int(a, n).ret = v % 2^n
=============================================================================
