------------------------------- MODULE Field10x26 -------------------------------
(***************************************************************************)
(* Field elements as limbs (secp256k1/field_10x26_impl.h): numbers modulo  *)
(* p = 2^256 - 2^32 - 977 in ten limbs of 26 bits, the last of 22, kept in *)
(* words of 32 bits.  Limbs may be larger than their bits; the magnitude   *)
(* says by how much, and nothing but a VERIFY build ever looks at it.      *)
(*                                                                         *)
(* The widths are constants.  The code is theirs for N = 10, W = 26,       *)
(* TopW = 22, C1 = 2^6, C0 = 977, WordBits = 32 and AccBits = 64.          *)
(***************************************************************************)
EXTENDS Integers, FiniteSetsExt

CONSTANTS
    N, W, TopW,     \* the limbs, their bits, and those of the last
    C0, C1,         \* p = 2^(W (N-1) + TopW) - C1 2^W - C0
    WordBits, AccBits,  \* the bits of a limb's word and of an accumulator
    ByteBits, StorageBits,  \* of a byte and of a word of storage: 8 and 32
    Factors,        \* the integers elements are multiplied with
    Operands,       \* values of the other operand of mul and add
    MaxSteps        \* bound: the operations in a row

Limb == 0 .. N - 1
Max26 == 2^W - 1            \* 0x3FFFFFF
MaxTop == 2^TopW - 1        \* 0x03FFFFF
R0 == C0 * 2^(W - TopW)
R1 == C1 * 2^(W - TopW)

PLimbs == [i \in Limb |-> CASE i = 0 -> Max26 - C0 + 1
                            [] i = 1 -> Max26 - C1
                            [] i = N - 1 -> MaxTop
                            [] OTHER -> Max26]

Value(n) == MapThenSumSet(LAMBDA i : n[i] * 2^(W * i), Limb)

P == Value(PLimbs)

\* The largest magnitude, and the largest of a factor: 32 and 8.
MaxMagnitude == 2^(WordBits - W - 1)
MulMagnitude == MaxMagnitude \div 4

ParameterAssumption ==
    /\ N >= 4 /\ TopW < W /\ C0 \in 1 .. MaxTop /\ C1 \in 1 .. MaxTop
    /\ \A v \in Operands : v \in 0 .. P - 1

U32(x) == x % 2^WordBits
U64(x) == x % 2^AccBits

\* The bound that goes with a magnitude (secp256k1_fe_verify).
LimbBound(fe) ==
    LET m == IF fe.normalized THEN 1 ELSE 2 * fe.magnitude
    IN  \A i \in Limb : fe.n[i] <= m * (IF i = N - 1 THEN MaxTop ELSE Max26)

-----------------------------------------------------------------------------
(* Normalization                                                           *)

\* Each limb's excess goes to the next.
Carried(t) ==
    LET sum[i \in Limb] == U32(t[i] + (IF i = 0 THEN 0 ELSE sum[i - 1] \div 2^W))
    IN  [i \in Limb |-> IF i = N - 1 THEN sum[i] ELSE sum[i] % 2^W]

AddReduced(t, x) == Carried([t EXCEPT ![0] = U32(@ + x * C0), ![1] = U32(@ + x * C1)])

FirstPass(n) == AddReduced([n EXCEPT ![N - 1] = @ % 2^TopW], n[N - 1] \div 2^TopW)

\* Mutant: a value in [p, 2^256) is left as it is.
AtLeastP_TopOnly(t) == t[N - 1] >= 2^TopW

AtLeastP(t) ==
    \/ t[N - 1] >= 2^TopW
    \/ /\ t[N - 1] = MaxTop
       /\ \A i \in 2 .. N - 2 : t[i] = Max26
       /\ U32(t[1] + C1 + (U32(t[0] + C0) \div 2^W)) > Max26

normalize(n) ==
    LET t == FirstPass(n)
        x == IF AtLeastP(t) THEN 1 ELSE 0
    IN  [AddReduced(t, x) EXCEPT ![N - 1] = @ % 2^TopW]

normalize_weak(n) == FirstPass(n)

normalize_var(n) ==
    LET t == FirstPass(n)
    IN  IF AtLeastP(t) THEN [AddReduced(t, 1) EXCEPT ![N - 1] = @ % 2^TopW] ELSE t

\* z0 sees a raw value of 0, z1 one of p.
normalizes_to_zero(n) ==
    LET t == FirstPass(n) IN (\A i \in Limb : t[i] = 0) \/ t = PLimbs

normalizes_to_zero_var(n) ==
    LET z == U32(n[0] + (n[N - 1] \div 2^TopW) * C0) % 2^W
    IN  IF z # 0 /\ z # PLimbs[0] THEN FALSE ELSE normalizes_to_zero(n)

-----------------------------------------------------------------------------
(* Arithmetic                                                              *)

set_int(a) == [i \in Limb |-> IF i = 0 THEN a ELSE 0]

negate(n, m) == [i \in Limb |-> U32(PLimbs[i] * 2 * (m + 1) - n[i])]

mul_int(n, a) == [i \in Limb |-> U32(n[i] * a)]

add(n, b) == [i \in Limb |-> U32(n[i] + b[i])]

\* px of the comments in the code: all a[i] b[j] with i + j = x.
MulColumn(a, b, x) ==
    U64(MapThenSumSet(LAMBDA i : U64(a[i] * b[x - i]), {i \in Limb : x - i \in Limb}))

\* Half of them, doubled as words, and the one in the middle.
SqrColumn(a, x) ==
    U64(MapThenSumSet(LAMBDA i : U64((IF 2 * i = x THEN a[i] ELSE U32(a[i] * 2)) * a[x - i]),
                      {i \in Limb : x - i \in Limb /\ 2 * i <= x}))

\* The last limb keeps TopW bits; what is above them is folded into the first
\* limbs, and the third takes the last carry as it comes.
Tail(s, t9) ==
    LET c1 == U64(s.c + U64(s.d * R0 + t9))
        c2 == U64((c1 \div 2^TopW) + s.d * (R1 * 2^(W - TopW)))
        d1 == U64(c2 * C0 + s.t[0])
        d2 == U64(d1 \div 2^W + c2 * C1 + s.t[1])
    IN  [s.t EXCEPT ![N - 1] = c1 % 2^TopW, ![0] = d1 % 2^W, ![1] = d2 % 2^W,
                    ![2] = U64(d2 \div 2^W + @)]

\* One limb of the result: column k, and column k + N times 2^(N W) = [R1 R0].
Step(px, s, k) ==
    LET d == U64(s.d + px[k + N])
        u == d % 2^W
        c == U64(s.c + px[k] + u * R0)
    IN  [d |-> d \div 2^W, c |-> U64(c \div 2^W + u * R1), t |-> [s.t EXCEPT ![k] = c % 2^W]]

Inner(px) ==
    LET d == px[N - 1]
        upto[k \in -1 .. N - 2] ==
            IF k = -1 THEN [d |-> d \div 2^W, c |-> 0, t |-> set_int(0)]
            ELSE Step(px, upto[k - 1], k)
    IN  Tail(upto[N - 2], d % 2^W)

mul_inner(a, b) == Inner([x \in 0 .. 2 * N - 2 |-> MulColumn(a, b, x)])

sqr_inner(a) == Inner([x \in 0 .. 2 * N - 2 |-> SqrColumn(a, x)])

-----------------------------------------------------------------------------
(* Comparing and storing, of normalized elements                           *)

is_zero(n) == \A i \in Limb : n[i] = 0
is_odd(n) == n[0] % 2 = 1

cmp_var(n, b) ==
    LET differ == {i \in Limb : n[i] # b[i]}
    IN  IF differ = {} THEN 0 ELSE IF n[Max(differ)] > b[Max(differ)] THEN 1 ELSE -1

fe_equal(n, b) == normalizes_to_zero(add(negate(n, 1), b))
fe_equal_var(n, b) == normalizes_to_zero_var(add(negate(n, 1), b))

\* The number that bits stand for, in pieces of any size.
Piece(bit(_), size, j) == SumSet({2^i : i \in {k \in 0 .. size - 1 : bit(size * j + k)}})

Size == W * (N - 1) + TopW          \* 256
LimbBit(n, k) == k < Size /\ (n[k \div W] \div 2^(k % W)) % 2 = 1

get_b32(n) ==
    LET bytes == Size \div ByteBits  bit(k) == LimbBit(n, k)
    IN  [j \in 0 .. bytes - 1 |-> Piece(bit, ByteBits, bytes - 1 - j)]

\* The limbs that bytes stand for; it fails if they are no less than p.
set_b32(b) ==
    LET bytes == Size \div ByteBits
        bit(k) == k < Size /\ (b[bytes - 1 - (k \div ByteBits)] \div 2^(k % ByteBits)) % 2 = 1
        n == [i \in Limb |-> Piece(bit, W, i)]
    IN  [n |-> n, ok |-> ~AtLeastP(n)]

to_storage(n) ==
    LET bit(k) == LimbBit(n, k)
    IN  [j \in 0 .. (Size \div StorageBits) - 1 |-> Piece(bit, StorageBits, j)]

from_storage(a) ==
    LET bit(k) == k < Size /\ (a[k \div StorageBits] \div 2^(k % StorageBits)) % 2 = 1
    IN  [i \in Limb |-> Piece(bit, W, i)]

-----------------------------------------------------------------------------

VARIABLES
    r,          \* a field element: its limbs, magnitude and normalized
    v,          \* the number it stands for
    steps

vars == <<r, v, steps>>

Normal(val) == [i \in Limb |-> (val \div 2^(W * i)) % 2^W]
Fe(val) == [n |-> Normal(val), magnitude |-> 1, normalized |-> TRUE]

Init ==
    /\ v \in Operands /\ r = Fe(v)
    /\ steps = 0

\* Numbers this large are multiplied in two parts.
Times(a, b) == (((a * (b \div 512)) % P) * 512 + a * (b % 512)) % P

Becomes(n, m, norm, val) ==
    /\ steps < MaxSteps /\ steps' = steps + 1
    /\ r' = [n |-> n, magnitude |-> m, normalized |-> norm]
    /\ v' = val % P

Normalize == Becomes(normalize(r.n), 1, TRUE, v)
NormalizeWeak == Becomes(normalize_weak(r.n), 1, r.normalized, v)

\* The caller says what magnitude it takes the element to have.
Negate == \E m \in {r.magnitude, MaxMagnitude - 1} :
    r.magnitude <= m /\ m < MaxMagnitude /\ Becomes(negate(r.n, m), m + 1, FALSE, -v)

MulInt == \E a \in Factors :
    r.magnitude * a <= MaxMagnitude /\ Becomes(mul_int(r.n, a), r.magnitude * a, FALSE, v * a)

\* The other operand, or its negation, which has magnitude 2.
Add == \E o \in Operands, neg \in BOOLEAN :
    LET n == IF neg THEN negate(Normal(o), 1) ELSE Normal(o)
        m == IF neg THEN 2 ELSE 1
    IN  r.magnitude + m <= MaxMagnitude
        /\ Becomes(add(r.n, n), r.magnitude + m, FALSE, IF neg THEN v - o ELSE v + o)

Double ==
    2 * r.magnitude <= MaxMagnitude /\ Becomes(add(r.n, r.n), 2 * r.magnitude, FALSE, 2 * v)

\* The other operand with a magnitude of 1, or as large as it may be.
Mul == \E o \in Operands, wide \in BOOLEAN :
    LET b == IF wide THEN negate(Normal(o), MulMagnitude - 1) ELSE Normal(o)
    IN  r.magnitude <= MulMagnitude
        /\ Becomes(mul_inner(r.n, b), 1, FALSE, Times(v, IF wide THEN P - o ELSE o))

Sqr == r.magnitude <= MulMagnitude /\ Becomes(sqr_inner(r.n), 1, FALSE, Times(v, v))

Next ==
    \/ Normalize \/ NormalizeWeak \/ Negate \/ MulInt \/ Add \/ Double \/ Mul \/ Sqr

Spec == Init /\ [][Next]_vars

-----------------------------------------------------------------------------

\* Limbs stay within what their magnitude allows (secp256k1_fe_verify).
LimbsBounded == r.magnitude \in 1..MaxMagnitude /\ v \in 0 .. P - 1 /\ LimbBound(r)

\* Whatever is done in a row, the limbs stand for the right number: no word and
\* no accumulator wraps, at magnitude 32 and with factors of magnitude 8.
Represents == Value(r.n) % P = v

\* However large the limbs, both normalizations give the one representation
\* below p, and both tests for zero see it (field_10x26_impl.h:42, :128, :184,
\* :213).  At magnitude 32 a limb may be so large that the first carry would
\* wrap; no sequence of operations makes one.
NormalFormIsUnique ==
    /\ normalize(r.n) = Normal(v) /\ normalize_var(r.n) = Normal(v)
    /\ normalizes_to_zero(r.n) = (v = 0) /\ normalizes_to_zero_var(r.n) = (v = 0)

\* After the first pass at most one multiple of p is left: the last limb carries
\* at most one bit more than it has (:63, :117, :149, :208).
SingleCarry == FirstPass(r.n)[N - 1] < 2^(TopW + 1)

\* Elements of magnitude 1 that are not normalized are equal to one that is if
\* they stand for the same number, by both comparisons.
EqualIsEqual ==
    r.magnitude = 1 => \A o \in Operands :
        fe_equal(r.n, Normal(o)) = (v = o) /\ fe_equal_var(r.n, Normal(o)) = (v = o)

\* A normalized element survives its 32 bytes and its storage, larger bytes are refused, and
\* limbs are compared as the numbers they are.
BytesAndOrder ==
    r.normalized =>
        /\ set_b32(get_b32(r.n)) = [n |-> r.n, ok |-> TRUE]
        /\ from_storage(to_storage(r.n)) = r.n
        /\ v + P < 2^Size => ~set_b32(get_b32(Normal(v + P))).ok
        /\ \A o \in Operands :
               cmp_var(r.n, Normal(o)) = IF v > o THEN 1 ELSE IF v < o THEN -1 ELSE 0
        /\ is_zero(r.n) = (v = 0) /\ is_odd(r.n) = (v % 2 = 1)
=============================================================================
