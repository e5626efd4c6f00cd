---------------------------------- MODULE Wnaf ----------------------------------
(***************************************************************************)
(* Scalars written with signed digits, so that fewer or equally many       *)
(* additions of table entries remain: in windows anywhere                  *)
(* (secp256k1_ecmult_wnaf), in windows at fixed places                     *)
(* (secp256k1_wnaf_fixed), and with no zero digit at all                   *)
(* (secp256k1_wnaf_const).  A step is one turn of a function's loop; a     *)
(* scalar is the number below the order that Scalar8x32 represents.        *)
(***************************************************************************)
EXTENDS SignedDigits

CONSTANT Windows     \* the values of w

WindowsAssumption == Windows \subseteq 2 .. Bits - 1

VARIABLES
    fn, s, w,   \* the function that runs, and what it was called with
    wnaf,       \* the digits
    pos,        \* bit, pos, word
    l           \* the function's other variables

vars == <<fn, s, w, wnaf, pos, l>>

-----------------------------------------------------------------------------

StartWnaf ==
    LET high == get_bits_var(s, Bits - 1, 1) = 1
    IN  /\ fn = "wnaf" /\ pos = 0 /\ wnaf = Zeros
        /\ l = [s |-> IF high THEN Neg(s) ELSE s, sign |-> IF high THEN -1 ELSE 1,
                carry |-> 0, last |-> -1]

InWnaf == fn = "wnaf" /\ pos < Bits

\* The digit here is zero.
Skip ==
    /\ InWnaf /\ get_bits_var(l.s, pos, 1) = l.carry
    /\ pos' = pos + 1
    /\ UNCHANGED <<fn, s, w, wnaf, l>>

\* A window near the end has only the bits that are left.
Now(now, left) == IF now > left THEN left ELSE now

Digit ==
    LET now == Now(w, Bits - pos)
        word == get_bits_var(l.s, pos, now) + l.carry
        carry == (word \div 2^(w - 1)) % 2
    IN  /\ InWnaf /\ get_bits_var(l.s, pos, 1) # l.carry
        /\ wnaf' = [wnaf EXCEPT ![pos] = l.sign * (word - carry * 2^w)]
        /\ l' = [l EXCEPT !.carry = carry, !.last = pos]
        /\ pos' = pos + now
        /\ UNCHANGED <<fn, s, w>>

-----------------------------------------------------------------------------

StartFixed ==
    /\ fn = "fixed" /\ pos = 1
    /\ wnaf = FixedStart(s, w)
    /\ l = [skew |-> Skew(s), max_pos |-> max_pos(s, w)]

FixedWord ==
    /\ fn = "fixed" /\ pos <= l.max_pos
    /\ wnaf' = FixedTurn(wnaf, s, w, pos)
    /\ pos' = pos + 1
    /\ UNCHANGED <<fn, s, w, l>>

-----------------------------------------------------------------------------

StartConst ==
    /\ fn = "const" /\ pos = 0
    /\ l = ConstStart(s, w) /\ wnaf = l.wnaf

ConstWord ==
    /\ fn = "const" /\ pos * w < Bits
    /\ l' = ConstTurn(l, w, pos) /\ wnaf' = l'.wnaf
    /\ pos' = pos + 1
    /\ UNCHANGED <<fn, s, w>>

-----------------------------------------------------------------------------

Init ==
    /\ s \in 0 .. Order - 1 /\ w \in Windows
    /\ StartWnaf \/ StartFixed \/ StartConst

Next == Skip \/ Digit \/ FixedWord \/ ConstWord

Spec == Init /\ [][Next]_vars

-----------------------------------------------------------------------------

Finished ==
    CASE fn = "wnaf" -> pos >= Bits
      [] fn = "fixed" -> pos > l.max_pos
      [] fn = "const" -> pos * w >= Bits

\* What the digits 0 .. upto stand for, each step bits above the one before.
Sum(step, upto) == MapThenSumSet(LAMBDA i : wnaf[i] * 2^(step * i), 0 .. upto)

\* In every turn of secp256k1_ecmult_wnaf the digits so far, with the carry, are
\* the bits so far (ecmult_impl.h:394).
Accumulates ==
    fn = "wnaf" =>
        l.sign * Sum(1, Bits) + l.carry * 2^pos = l.s % 2^pos

\* In the end the digits stand for the scalar, up to the skew the caller takes
\* off again: no carry is left, and no bit either (ecmult_impl.h:403,
\* ecmult_const_impl.h:62).
Represents ==
    Finished =>
        CASE fn = "wnaf" -> l.carry = 0 /\ Sum(1, Bits) % Order = s /\ wnaf = Naf(s, w)
          [] fn = "fixed" -> Sum(w, WNAF_SIZE(w) - 1) - l.skew = s /\ wnaf = Fixed(s, w)
          [] fn = "const" ->
               l.s = 0 /\ (Sum(w, pos) - l.skew) % Order = s /\ l = Const(s, w)

\* Every digit is in the caller's table: odd, and below half the window, or one
\* bit more where windows have fixed places; never zero in constant time; and
\* windows do not overlap (ecmult_impl.h:367, ecmult_const_impl.h:40).
DigitsAreInTheTable ==
    Finished =>
        CASE fn = "wnaf" ->
               \A i \in 0 .. Bits - 1 : wnaf[i] # 0 =>
                   /\ wnaf[i] % 2 = 1 /\ wnaf[i] < 2^(w - 1) /\ -wnaf[i] < 2^(w - 1)
                   /\ \A k \in 1 .. w - 1 : i + k < Bits => wnaf[i + k] = 0
                   /\ i <= l.last
          [] fn = "fixed" ->
               \A i \in 0 .. WNAF_SIZE(w) - 1 : wnaf[i] # 0 =>
                   wnaf[i] % 2 = 1 /\ wnaf[i] < 2^w /\ -wnaf[i] < 2^w
          [] fn = "const" ->
               \A i \in 0 .. pos : wnaf[i] % 2 = 1 /\ wnaf[i] < 2^w /\ -wnaf[i] < 2^w
=============================================================================
