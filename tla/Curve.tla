--------------------------------- MODULE Curve ---------------------------------
(***************************************************************************)
(* What the library does with points, on one small curve: the group law,   *)
(* both algorithms for sums of multiples, signatures and pairs of keys.    *)
(*                                                                         *)
(* These modules share the curve and no state.  A behaviour is one of the  *)
(* module that `part` names, x1, x2, ... are its variables, and the rest   *)
(* are Null.                                                               *)
(***************************************************************************)
EXTENDS OddMultiples

CONSTANTS
    Zs,                         \* bound: of the points that are computed
    MaxSteps,                   \* bound: operations in a row
    Keys, Messages, Drawn       \* bound: 32 bytes each, as the number they are

VARIABLES part, x1, x2, x3, x4, x5, x6, x7, x8, x9, x10

vars == <<part, x1, x2, x3, x4, x5, x6, x7, x8, x9, x10>>

Law == INSTANCE Group WITH
    a <- x1, q <- x2, ratio <- x3, zBefore <- x4, steps <- x5

\* No point, one, or two; with G and without.
Sums ==
    UNION {[log : [1 .. k -> {0, 1, 4, 30}], z : [1 .. k -> {5}],
            na : [1 .. k -> {0, 3, 16, 27, 30}], ng : {0, 7, 30, Null}] : k \in 0 .. 2}

Interleaved == INSTANCE Strauss WITH
    WINDOW_G <- 4, Inputs <- Sums,
    in <- x1, pre_g <- x2, used <- x3, prej <- x4, zr <- x5, pre_a <- x6, Z <- x7,
    wnaf <- x8, r <- x9, i <- x10

\* One point or two, and three equal ones.
LongSums ==
    UNION {[log : [1 .. k -> {0, 1, 4, 27, 30}], sc : [1 .. k -> {0, 3, 16, 27, 30}]] :
           k \in 0 .. 2}
    \cup {[log |-> <<4, 4, 4>>, sc |-> <<a, b, c>>] : a, b, c \in {0, 3, 16, 27, 30}}

Buckets == INSTANCE Pippenger WITH
    Inputs <- LongSums, BucketWindows <- {1, 2},
    in <- x1, bucket_window <- x2, used <- x3, wnaf <- x4, r <- x5, i <- x6

Signing == INSTANCE Ecdsa WITH
    Rs <- 0 .. Order - 1, Ss <- 0 .. Order - 1,
    seckey <- x1, msg32 <- x2, at <- x3, signature <- x4, accepted <- x5

Pairs == INSTANCE EcKeys WITH
    Seckeys <- {0, 1, 5, 30, 31}, Tweaks <- {0, 1, 7, 25, 30, 31},
    FieldBytes <- {0, 2, 7, 8, 12, 19, 24, 31, 36, 42, 43, 50, 63},
    seckey <- x1, pubkey <- x2, input <- x3, status <- x4

ASSUME PartsAssumption ==
    /\ Law!ZsAssumption
    /\ Signing!SizesAssumption /\ Signing!InputsAssumption /\ Signing!NonceAssumption
    /\ Pairs!ZeroAssumption

Init ==
    \/ /\ part = "group" /\ Law!Init
       /\ x6 = Null /\ x7 = Null /\ x8 = Null /\ x9 = Null /\ x10 = Null
    \/ /\ part = "strauss" /\ Interleaved!Init
    \/ /\ part = "pippenger" /\ Buckets!Init
       /\ x7 = Null /\ x8 = Null /\ x9 = Null /\ x10 = Null
    \/ /\ part = "ecdsa" /\ Signing!Init
       /\ x6 = Null /\ x7 = Null /\ x8 = Null /\ x9 = Null /\ x10 = Null
    \/ /\ part = "keys" /\ Pairs!Init
       /\ x5 = Null /\ x6 = Null /\ x7 = Null /\ x8 = Null /\ x9 = Null /\ x10 = Null

Next ==
    /\ UNCHANGED part
    /\ \/ part = "group" /\ Law!Next /\ UNCHANGED <<x6, x7, x8, x9, x10>>
       \/ part = "strauss" /\ Interleaved!Next
       \/ part = "pippenger" /\ Buckets!Next /\ UNCHANGED <<x7, x8, x9, x10>>
       \/ part = "ecdsa" /\ Signing!Next /\ UNCHANGED <<x6, x7, x8, x9, x10>>
       \/ part = "keys" /\ Pairs!Next /\ UNCHANGED <<x5, x6, x7, x8, x9, x10>>

Spec == Init /\ [][Next]_vars

-----------------------------------------------------------------------------

\* Group: after any operations in a row, on equal, opposite and infinite points, the
\* coordinates stand for the point that the curve's law gives, no field operation is
\* handed a magnitude it does not allow, the ratio of z's for the tables is exact,
\* and conversions and comparisons agree with the law (group_impl.h:100, :168,
\* :232-304, :366, :419, :468, :525, :691).
PointsFollowTheLaw ==
    part = "group" =>
        Law!FollowsTheLaw /\ Law!MagnitudesKept /\ Law!RatioTracksZ /\ Law!ReadersAgree

\* Strauss: on one z the tables hold the odd multiples of the points that count, and
\* in every turn, to the result, the sum is what the digits so far call for
\* (ecmult_impl.h:80, :508, :556, :595).  Pippenger: after every place too, whatever
\* is in the buckets, the skews taken off at the end (:797, :819).
SumsAreOfTheMultiples ==
    /\ part = "strauss" =>
           /\ Interleaved!TablesHoldOddMultiples
           /\ Interleaved!AccumulatesTheSum /\ Interleaved!EndsWithTheSum
    /\ part = "pippenger" => Buckets!PlacesAddUp /\ Buckets!SumOfMultiples

\* Ecdsa: verification is the standard's, for every r and s; what is signed is
\* accepted, what a failed call leaves is accepted by nobody (secp256k1.c:387,
\* ecdsa_impl.h:245-264).
SignaturesVerify == part = "ecdsa" => Signing!SignedIsAccepted /\ Signing!VerifyIsEcdsa

\* EcKeys: after any calls the public key is that of the secret key, or both halves
\* have failed (secp256k1.c:428-601); only points are parsed, in their own formats
\* (eckey_impl.h:17-35).
KeysStayPairs == part = "keys" => Pairs!KeysMatch /\ Pairs!ParseTakesOnlyPoints
=============================================================================
