-------------------------------- MODULE Multiples --------------------------------
(***************************************************************************)
(* What the library does to compute multiples of points, beside the sums   *)
(* of module Curve: signed digits, and with digits and points the          *)
(* multiples of the generator and of another's key.                        *)
(*                                                                         *)
(* These modules share no state.  A behaviour is one of the module that    *)
(* `part` names, x1, x2, ... are its variables, and the rest are Null.     *)
(***************************************************************************)
EXTENDS OddMultiples

VARIABLES part, x1, x2, x3, x4, x5, x6, x7, x8

vars == <<part, x1, x2, x3, x4, x5, x6, x7, x8>>

Recoding == INSTANCE Wnaf WITH
    Windows <- {2, 3, 4, 5},
    fn <- x1, s <- x2, w <- x3, wnaf <- x4, pos <- x5, l <- x6

OfGenerator == INSTANCE EcmultGen WITH
    WINDOWS <- 3, WIDTH <- 2, NUMS_X <- 1, Contexts <- {"c1", "c2"}, Addresses <- {1, 2},
    DrawnFe <- {0, 5, 31}, DrawnScalars <- {0, 1, 17, 42, 43, 50}, Blindings <- 3,
    ctx <- x1, heap <- x2, calls <- x3

Shared == INSTANCE Ecdh WITH
    Scalars <- 0 .. 44 \cup {63}, Logs <- {1, 2, 6, 21, 42},
    log <- x1, scalar <- x2, pre_a <- x3, Z <- x4, digits <- x5, r <- x6, i <- x7, output <- x8

ASSUME PartsAssumption ==
    /\ Recoding!WindowsAssumption /\ Shared!WindowAssumption
    /\ OfGenerator!WindowsAssumption /\ OfGenerator!NumsAssumption

Init ==
    \/ /\ part = "digits" /\ Recoding!Init
       /\ x7 = Null /\ x8 = Null
    \/ /\ part = "generator" /\ OfGenerator!Init
       /\ x4 = Null /\ x5 = Null /\ x6 = Null /\ x7 = Null /\ x8 = Null
    \/ part = "ecdh" /\ Shared!Init

Next ==
    /\ UNCHANGED part
    /\ \/ part = "digits" /\ Recoding!Next /\ UNCHANGED <<x7, x8>>
       \/ /\ part = "generator" /\ OfGenerator!Next
          /\ UNCHANGED <<x4, x5, x6, x7, x8>>
       \/ part = "ecdh" /\ Shared!Next

Spec == Init /\ [][Next]_vars

-----------------------------------------------------------------------------

\* Wnaf: in every turn the digits so far, with the carry, are the bits so far, in the
\* end they stand for the scalar, less the skew, and each is in the caller's table
\* (ecmult_impl.h:367-403, :684, ecmult_const_impl.h:62).
DigitsAddUp ==
    part = "digits" =>
        Recoding!Accumulates /\ Recoding!Represents /\ Recoding!DigitsAreInTheTable

\* EcmultGen: through any calls on contexts that are copied every one of them computes
\* every multiple of G, in the middle of its blinding too, the blinding is never
\* nothing, and each table has one owner (ecmult_gen_impl.h:104-195).  Ecdh: the loop
\* in constant time never meets infinity, and the secret is that of the product of
\* both keys (ecmult_const_impl.h:193, main_impl.h:29).
SecretMultiples ==
    /\ part = "generator" =>
           OfGenerator!GenMultiplies /\ OfGenerator!AlwaysBlinded /\ OfGenerator!TablesAreOwned
    /\ part = "ecdh" => Shared!NeverInfinite /\ Shared!SecretIsOfTheProduct
=============================================================================
