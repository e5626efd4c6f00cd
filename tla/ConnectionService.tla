--------------------------- MODULE ConnectionService ---------------------------
(***************************************************************************)
(* What the owner of a server counts on, threads and sockets left out:     *)
(* connections open only while it serves, a connection ends once, and      *)
(* serving stops when every connection has ended.                          *)
(***************************************************************************)
CONSTANT Connections

VARIABLES serving, conn

Init == serving = FALSE /\ conn = [c \in Connections |-> "none"]

Serve == ~serving /\ serving' = TRUE /\ UNCHANGED conn

Open(c) ==
    /\ serving /\ conn[c] = "none"
    /\ conn' = [conn EXCEPT ![c] = "open"] /\ UNCHANGED serving

End(c) ==
    /\ conn[c] = "open"
    /\ conn' = [conn EXCEPT ![c] = "ended"] /\ UNCHANGED serving

Halt ==
    /\ serving /\ \A c \in Connections : conn[c] # "open"
    /\ serving' = FALSE /\ UNCHANGED conn

Next == Serve \/ Halt \/ \E c \in Connections : Open(c) \/ End(c)

Spec == Init /\ [][Next]_<<serving, conn>>
=============================================================================
