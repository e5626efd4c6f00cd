------------------------------- MODULE ServerEnd -------------------------------
(***************************************************************************)
(* The end of the client server (net_lib/client_server.cpp:11): its        *)
(* destructor stops it, for the second time if the user had, and destroys  *)
(* the list, while detached OnError threads hold a bare pointer to it.     *)
(***************************************************************************)
EXTENDS ClientServer

VARIABLES
    lifetime,   \* "alive", in the "destructor", or "over"
    late        \* items whose OnError has used the server that was no more

end == <<lifetime, late>>
endVars == <<vars, lifetime, late>>

EndInit == Init /\ lifetime = "alive" /\ late = {}

\* The window goes: the last shared_ptr to the server with it.
Destructor ==
    /\ lifetime = "alive" /\ lifetime' = "destructor"
    /\ ui \in {"off", "on"} /\ ui' = "close"
    /\ UNCHANGED <<items, acceptor, accept_thread, client, socket_list, stop, late>>

\* Mutant: join without joinable.
StopFindsNoThread_Joins ==
    /\ lifetime = "destructor" /\ UIGoes("join", "loop")
    /\ accept_thread = "done" /\ todo' = socket_list
    /\ UNCHANGED <<items, acceptor, accept_thread, item, undefined, end>>

\* There is no thread to join when the user has stopped the server before.
StopFindsNoThread ==
    /\ lifetime = "destructor" /\ UIGoes("join", "loop")
    /\ accept_thread = "none" /\ todo' = socket_list
    /\ UNCHANGED <<items, acceptor, accept_thread, item, undefined, end>>

\* Mutant: the destructor does not stop the server.
ServerDestroyed_Running ==
    /\ lifetime = "destructor" /\ lifetime' = "over"
    /\ socket_list' = {}
    /\ UNCHANGED <<items, ui, acceptor, accept_thread, client, stop, late>>

\* The list goes, and with it its references to the items.
ServerDestroyed ==
    /\ lifetime = "destructor" /\ ui = "off" /\ lifetime' = "over"
    /\ socket_list' = {}
    /\ UNCHANGED <<items, ui, acceptor, accept_thread, client, stop, late>>

\* OnError goes on after its Clear: to a mutex and a list that are no more.
OnErrorTooLate(i, side) ==
    /\ lifetime = "over" /\ side \in items[i].erasing
    /\ Becomes(i, [items[i] EXCEPT !.erasing = @ \ {side}])
    /\ late' = late \cup {i}
    /\ UNCHANGED <<server, lifetime>>

\* The steps of ClientServer's threads: those of the server itself while it
\* lives, those of the items and of their Clear also after it.
EndNext ==
    /\ ~Crashed
    /\ \/ /\ \/ lifetime # "over" /\ (AcceptThread \/ UIThread)
                                  /\ (lifetime = "destructor" => ui # "off")
             \/ \E i \in Items :
                  \/ ItemThread(i) /\ UNCHANGED server
                  \/ \E c \in Sides \cup {"stop"} : ClearSteps(i, c)
                  \/ \E side \in Sides :
                        \/ OnErrorClear(i, side)
                        \/ lifetime # "over" /\ OnErrorErase(i, side)
          /\ UNCHANGED end
       \/ Destructor \/ StopFindsNoThread \/ ServerDestroyed
       \/ \E i \in Items, side \in Sides : OnErrorTooLate(i, side)

EndFairness ==
    /\ WF_endVars(~Crashed /\ lifetime # "over" /\ AcceptThreadMoves /\ UNCHANGED end)
    /\ WF_endVars(~Crashed /\ lifetime # "over" /\ StopMoves /\ UNCHANGED end)
    /\ SF_endVars(~Crashed /\ StopClear /\ UNCHANGED end)
    /\ WF_endVars(~Crashed /\ (StopFindsNoThread \/ ServerDestroyed))
    /\ \A i \in Items :
        /\ WF_endVars(~Crashed /\ SocketThreadMoves(i) /\ UNCHANGED end)
        /\ WF_endVars(~Crashed /\ WebSocketThreadMoves(i) /\ UNCHANGED end)
        /\ WF_endVars(~Crashed /\ UNCHANGED end
                        /\ \E c \in Sides \cup {"stop"} : ClearSteps(i, c))
        /\ SF_endVars(~Crashed /\ UNCHANGED end
                        /\ \E side \in Sides : OnErrorClear(i, side))
        /\ WF_endVars(~Crashed /\ \E side \in Sides :
                        \/ lifetime # "over" /\ OnErrorErase(i, side) /\ UNCHANGED end
                        \/ OnErrorTooLate(i, side))

EndSafeSpec == EndInit /\ [][EndNext]_endVars

EndSpec == EndSafeSpec /\ EndFairness

-----------------------------------------------------------------------------

\* Of a server destroyed after a complete stop nothing runs but the erase of an
\* OnError (client_server.cpp:52-53), which then finds no server, and the Clear
\* before it: no thread of the server, no connection, and no item that would be
\* destroyed with a thread (:50-51 of client_socket_item.cpp).
OnlyErrorsOutliveTheServer ==
    lifetime = "over" /\ undefined = "no" =>
        /\ accept_thread = "none" /\ client = NoItem
        /\ \A i \in Items : Dead(i) /\ items[i].close_mutex # "stop"

\* The second StopServer, that of the destructor, also ends: a window that the
\* user has disconnected before can be closed (client_server.cpp:11, :26).
DestructorReturns ==
    PeersAnswer =>
        (lifetime = "destructor" /\ accept_thread = "none" ~> lifetime = "over" \/ Crashed)
=============================================================================
