--------------------------------- MODULE EcKeys ---------------------------------
(***************************************************************************)
(* Secret keys and public keys (secp256k1.c, secp256k1/eckey_impl.h): a    *)
(* pair that is created, sent in one of the formats, and changed by the    *)
(* same call on each half.  A public key is kept as the coordinates of its *)
(* point, or as zeros after a call that failed; a multiple of a point      *)
(* comes as modules EcmultGen and Strauss show it, on whatever z.          *)
(***************************************************************************)
EXTENDS Generator

CONSTANTS
    Seckeys, Tweaks,    \* bounds: of 32 bytes, as the number they are
    FieldBytes,         \* bound: coordinates that are parsed, also such above p
    Zs                  \* bound: of the points that are computed

\* No point has x = 0, so that zeros are no public key.
ZeroAssumption == \A t \in Points : t.x # 0

Zeros32 == [x |-> 0, y |-> 0]

\* The logarithm of a public key that is one, and a multiple as it was computed.
Log(pubkey) == CHOOSE k \in 1 .. Order - 1 : Times(k) = pubkey
Computed(k, z) == rescale(set_ge(Affine(Times(k))), set_int(z))

overflow(scalar) == scalar >= Order
is_zero(scalar) == scalar % Order = 0

\* secp256k1_pubkey_save, of a point that was computed in Jacobian coordinates.
Saved(pt) == ge_to_storage(set_gej(pt))

-----------------------------------------------------------------------------
(* Secret keys; a call that fails leaves zeros.                            *)

Ret(ret, key) == [ret |-> ret, key |-> IF ret THEN key ELSE 0]

ec_seckey_verify(seckey) == ~overflow(seckey) /\ ~is_zero(seckey)

ec_privkey_negate(seckey) == Ret(TRUE, Neg(seckey % Order))

privkey_tweak_add(seckey, tweak) ==
    LET sum == (seckey + tweak) % Order IN Ret(~overflow(tweak) /\ sum # 0, sum)

privkey_tweak_mul(seckey, tweak) ==
    Ret(~overflow(tweak) /\ ~is_zero(tweak), (seckey * tweak) % Order)

-----------------------------------------------------------------------------
(* Public keys                                                             *)

RetPub(ret, key) == [ret |-> ret, key |-> IF ret THEN key ELSE Zeros32]

ec_pubkey_create(seckey, z) ==
    RetPub(ec_seckey_verify(seckey), Saved(Computed(seckey % Order, z)))

ec_pubkey_negate(pubkey) == RetPub(TRUE, ge_to_storage(ge_neg(ge_from_storage(pubkey))))

\* Mutant: a sum that is infinite is saved.
pubkey_tweak_add_Infinite(pubkey, tweak, z) ==
    LET pt == Computed((Log(pubkey) + tweak) % Order, z)
    IN  RetPub(~overflow(tweak), Saved(pt))

pubkey_tweak_add(pubkey, tweak, z) ==
    LET pt == Computed((Log(pubkey) + tweak) % Order, z)
    IN  RetPub(~overflow(tweak) /\ ~pt.inf, Saved(pt))

pubkey_tweak_mul(pubkey, tweak, z) ==
    RetPub(~overflow(tweak) /\ ~is_zero(tweak), Saved(Computed((Log(pubkey) * tweak) % Order, z)))

\* The points are added in turn, affine to Jacobian.
ec_pubkey_combine(pubnonces) ==
    LET Qj == FoldLeft(LAMBDA q, pub : add_ge(q, ge_from_storage(pub)),
                       gej_set_infinity, pubnonces)
    IN  RetPub(~Qj.inf, Saved(Qj))

-----------------------------------------------------------------------------
(* Formats: a tag, x and, in the long ones, y.                             *)

EVEN == 2  ODD == 3  UNCOMPRESSED == 4  HYBRID_EVEN == 6  HYBRID_ODD == 7

eckey_pubkey_parse(tag, x, y) ==
    LET xo == set_xo_var(set_int(x), tag % 2)
        elem == set_xy(set_int(x), set_int(y))
    IN  CASE tag \in {EVEN, ODD} -> RetPub(x < p /\ xo.ok, ge_to_storage(xo.r))
          [] tag \in {UNCOMPRESSED, HYBRID_EVEN, HYBRID_ODD} ->
                RetPub(/\ x < p /\ y < p
                       /\ tag # UNCOMPRESSED => y % 2 = tag % 2
                       /\ ge_is_valid_var(elem), ge_to_storage(elem))
          [] OTHER -> RetPub(FALSE, Zeros32)

eckey_pubkey_serialize(pubkey, compressed) ==
    LET elem == ge_from_storage(pubkey)
        x == normalize(elem.x).v  y == normalize(elem.y).v
    IN  IF compressed THEN [tag |-> IF y % 2 = 1 THEN ODD ELSE EVEN, x |-> x, y |-> 0]
        ELSE [tag |-> UNCOMPRESSED, x |-> x, y |-> y]

-----------------------------------------------------------------------------

VARIABLES
    seckey, pubkey,     \* the pair
    input,              \* what pubkey was parsed from, if it was
    status              \* "none", "pair", "parsed", "failed", "apart" when one half
                        \* alone failed, and "aborted" by a public key that is
                        \* none (the illegal_callback)

vars == <<seckey, pubkey, input, status>>

Init == seckey = 0 /\ pubkey = Zeros32 /\ input = Null /\ status = "none"

\* The same call on both halves, whatever becomes of the other.
Both(sec, pub) ==
    /\ seckey' = sec.key /\ pubkey' = pub.key
    /\ status' = CASE sec.ret /\ pub.ret -> "pair"
                   [] sec.ret # pub.ret -> "apart"
                   [] OTHER -> "failed"
    /\ UNCHANGED input

Create ==
    /\ status = "none"
    /\ \E key \in Seckeys, z \in Zs :
           Both(Ret(ec_seckey_verify(key), key), ec_pubkey_create(key, z))

Negate == status = "pair" /\ Both(ec_privkey_negate(seckey), ec_pubkey_negate(pubkey))

TweakAdd ==
    /\ status = "pair"
    /\ \E tweak \in Tweaks, z \in Zs :
           Both(privkey_tweak_add(seckey, tweak), pubkey_tweak_add(pubkey, tweak, z))

TweakMul ==
    /\ status = "pair"
    /\ \E tweak \in Tweaks, z \in Zs :
           Both(privkey_tweak_mul(seckey, tweak), pubkey_tweak_mul(pubkey, tweak, z))

\* With the keys of others, whose secrets are added up likewise.
Combine ==
    /\ status = "pair"
    /\ \E a, b \in {t \in Tweaks : ec_seckey_verify(t)} :
        \/ Both(privkey_tweak_add(seckey, a),
                ec_pubkey_combine(<<pubkey, Times(a)>>))
        \/ Both(privkey_tweak_add(seckey, (a + b) % Order),
                ec_pubkey_combine(<<Times(a), pubkey, Times(b)>>))

\* Sent and parsed again.
Transfer ==
    /\ status = "pair"
    /\ \E compressed \in BOOLEAN :
        LET pub == eckey_pubkey_serialize(pubkey, compressed)
        IN  Both(Ret(TRUE, seckey), eckey_pubkey_parse(pub.tag, pub.x, pub.y))

\* secp256k1_ec_pubkey_parse of anything.
Parse ==
    /\ status = "none"
    /\ \E tag \in 0 .. 7, x \in FieldBytes, y \in FieldBytes :
        LET pub == eckey_pubkey_parse(tag, x, y)
        IN  /\ input' = [tag |-> tag, x |-> x, y |-> y]
            /\ pubkey' = pub.key
            /\ status' = IF pub.ret THEN "parsed" ELSE "failed"
    /\ UNCHANGED seckey

\* secp256k1_pubkey_load of zeros, by any call that takes a public key.
UseOfZeros ==
    /\ status = "failed" /\ pubkey.x = 0
    /\ status' = "aborted"
    /\ UNCHANGED <<seckey, pubkey, input>>

Next == Create \/ Negate \/ TweakAdd \/ TweakMul \/ Combine \/ Transfer \/ Parse \/ UseOfZeros

Spec == Init /\ [][Next]_vars

-----------------------------------------------------------------------------

\* The public key is that of the secret key after any sequence of calls, and where
\* a call has no result (a sum that is nothing, a tweak of 0 or above the order)
\* it fails on both halves alike and leaves zeros in both.
KeysMatch ==
    /\ status # "apart"
    /\ status = "pair" => seckey \in 1 .. Order - 1 /\ pubkey = Times(seckey)
    /\ status = "failed" /\ input = Null => seckey = 0 /\ pubkey = Zeros32

\* A point is parsed from the bytes that one of the formats has for it, and from
\* no other: not off the curve, with a coordinate above p, or with the wrong
\* parity (eckey_impl.h:17-35).
ParseTakesOnlyPoints ==
    input # Null =>
        LET formats == {[tag |-> tag, x |-> input.x, y |-> input.y] :
                            tag \in {UNCOMPRESSED, HYBRID_EVEN + (input.y % 2)}}
        IN  /\ status = "parsed" =>
                  /\ pubkey \in Points /\ pubkey.x = input.x
                  /\ IF input.tag \in {EVEN, ODD} THEN pubkey.y % 2 = input.tag % 2
                     ELSE input \in formats /\ pubkey.y = input.y
            /\ status = "failed" /\ [x |-> input.x, y |-> input.y] \in Points =>
                  input \notin formats /\ input.tag \notin {EVEN, ODD}
=============================================================================
