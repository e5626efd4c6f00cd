------------------------------ MODULE ByteChannel ------------------------------
(***************************************************************************)
(* What either end of a connection sees of the tunnel: bytes come out as   *)
(* they went in, in order, each once, and all of them in the end.          *)
(***************************************************************************)
EXTENDS Naturals, Sequences

CONSTANT Byte

VARIABLES sent, got

Init == sent = <<>> /\ got = <<>>

Send(b) == sent' = Append(sent, b) /\ UNCHANGED got

Deliver ==
    /\ \E n \in Len(got) + 1 .. Len(sent) : got' = SubSeq(sent, 1, n)
    /\ UNCHANGED sent

Next == Deliver \/ \E b \in Byte : Send(b)

Spec == Init /\ [][Next]_<<sent, got>> /\ WF_<<sent, got>>(Deliver)
=============================================================================
