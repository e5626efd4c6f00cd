--------------------------------- MODULE Ecdsa ---------------------------------
(***************************************************************************)
(* Signatures (secp256k1/ecdsa_impl.h and the calls of secp256k1.c around  *)
(* it): the loop over nonces, the low form of s, and a verification that   *)
(* avoids the inversion of z and so must try two x coordinates for one r.  *)
(*                                                                         *)
(* A multiple of a point comes as modules EcmultGen and Strauss show it:   *)
(* right, on whatever z.                                                   *)
(***************************************************************************)
EXTENDS Generator

CONSTANTS
    Keys, Messages, \* bounds: 32 bytes each, as the number they are
    Drawn,          \* bound: what the nonce function gives
    Zs,             \* bound: of the points that are computed
    Rs, Ss          \* bound: the scalars of signatures that others made

SizesAssumption == 2 * Order > p /\ Order < p

InputsAssumption ==
    /\ Keys \subseteq Nat /\ Messages \subseteq Nat /\ Drawn \subseteq Nat
    /\ Zs \subseteq 1 .. p - 1 /\ Null \notin BOOLEAN

\* No nonce is one whose point has an x of 0 or of the order: the first does not
\* exist on the curve, to meet the second is to find its logarithm
\* (ecdsa_impl.h:284-286).
NonceAssumption == \A k \in Drawn : k \in 1 .. Order - 1 => Times(k).x % Order # 0

set_b32(x) == [v |-> x % Order, overflow |-> x >= Order]
scalar_mul(a, b) == (a * b) % Order
scalar_inverse(a) == IF a = 0 THEN 0 ELSE CHOOSE k \in 1 .. Order - 1 : (k * a) % Order = 1
is_high(a) == 2 * a > Order

\* k times the generator, as it was computed.
Computed(k, z) == rescale(set_ge(Affine(Times(k))), set_int(z))

-----------------------------------------------------------------------------
(* secp256k1_ecdsa_sig_sign: with ret = 0 the nonce does not do.           *)

sig_sign(sec, msg, non, z) ==
    LET x == normalize(set_gej(Computed(non, z)).x).v
        r == x % Order
        s == scalar_mul(scalar_inverse(non), (scalar_mul(r, sec) + msg) % Order)
    IN  [ret |-> s # 0, r |-> r, s |-> IF is_high(s) THEN Neg(s) ELSE s]

-----------------------------------------------------------------------------
(* secp256k1_ecdsa_sig_verify; the public key by its logarithm.            *)

const_order == set_int(Order)

\* Mutant: the x coordinates above the order are not tried.
SameX_Once(r, pr) == eq_x_var(set_int(r), pr)

\* r is the x of pr, or what is left of it modulo the order.
SameX(r, pr) ==
    \/ eq_x_var(set_int(r), pr)
    \/ r < p - Order /\ eq_x_var(fe_add(set_int(r), const_order), pr)

sig_verify(r, s, pubkey, msg, z) ==
    LET sn == scalar_inverse(s)
        u1 == scalar_mul(sn, msg)
        u2 == scalar_mul(sn, r)
        pr == Computed((u1 + u2 * pubkey) % Order, z)
    IN  r # 0 /\ s # 0 /\ ~pr.inf /\ SameX(r, pr)

ecdsa_verify(sig, msg32, pubkey, z) ==
    ~is_high(sig.s) /\ sig_verify(sig.r, sig.s, pubkey, set_b32(msg32).v, z)

signature_normalize(sig) == IF is_high(sig.s) THEN [sig EXCEPT !.s = Neg(@)] ELSE sig

-----------------------------------------------------------------------------

VARIABLES
    seckey, msg32,  \* the call's arguments
    at,             \* in the call: "nonce"; behind it: "signed", "failed", "given"
    signature,
    accepted        \* what secp256k1_ecdsa_verify says of it

vars == <<seckey, msg32, at, signature, accepted>>

Unset == [r |-> 0, s |-> 0]

\* secp256k1_ecdsa_sign: a key that is none ends it at once.
Init ==
    /\ seckey \in Keys /\ msg32 \in Messages
    /\ at = IF set_b32(seckey).overflow \/ set_b32(seckey).v = 0 THEN "failed" ELSE "nonce"
    /\ signature = Unset /\ accepted = Null

\* A nonce that is too large, or zero, or gives s = 0, is followed by the next.
TryNonce ==
    /\ at = "nonce"
    /\ \E nonce32 \in Drawn, z \in Zs :
        LET non == set_b32(nonce32)
            sig == sig_sign(seckey, set_b32(msg32).v, non.v, z)
        IN  /\ ~non.overflow /\ non.v # 0 /\ sig.ret
            /\ signature' = [r |-> sig.r, s |-> sig.s] /\ at' = "signed"
    /\ UNCHANGED <<seckey, msg32, accepted>>

\* A nonce function of the caller's may give up.
NonceFails ==
    /\ at = "nonce" /\ at' = "failed"
    /\ UNCHANGED <<seckey, msg32, signature, accepted>>

\* Somebody else's signature for the key, normalized if he did not.
Given ==
    /\ at = "nonce" /\ at' = "given"
    /\ \E r \in Rs, s \in Ss : signature' \in {[r |-> r, s |-> s],
                                              signature_normalize([r |-> r, s |-> s])}
    /\ UNCHANGED <<seckey, msg32, accepted>>

Verify ==
    /\ at \in {"signed", "failed", "given"} /\ accepted = Null
    /\ \E z \in Zs : accepted' = ecdsa_verify(signature, msg32, seckey % Order, z)
    /\ UNCHANGED <<seckey, msg32, at, signature>>

Next == TryNonce \/ NonceFails \/ Given \/ Verify

Spec == Init /\ [][Next]_vars

-----------------------------------------------------------------------------

\* A signature that was made is accepted for its key and message, and no other
\* than the low one of two; what a failed call leaves is accepted by nobody, for
\* the caller here does not look at the result (key_tools.cpp:148).
SignedIsAccepted ==
    /\ at = "signed" => ~is_high(signature.s) /\ accepted # FALSE
    /\ at = "failed" => accepted # TRUE

\* The verification is that of the standard, with its division and its remainder,
\* for every r and s of the range, with the low s that this library asks for: also
\* where x is above the order, where the two sides of the sum are equal or opposite
\* or the sum is infinite (ecdsa_impl.h:245-264).
VerifyIsEcdsa ==
    at = "given" /\ accepted # Null =>
        LET w == scalar_inverse(signature.s)
            R == Plus(Times(scalar_mul(w, msg32)),
                      Times(scalar_mul(scalar_mul(w, signature.r), seckey)))
        IN  accepted = /\ signature.r \in 1 .. Order - 1
                       /\ signature.s \in 1 .. Order \div 2
                       /\ R # Infinity
                       /\ R.x % Order = signature.r
=============================================================================
