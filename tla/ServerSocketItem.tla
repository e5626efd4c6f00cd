--------------------------- MODULE ServerSocketItem ---------------------------
(***************************************************************************)
(* The server's end of a proxied connection                                *)
(* (net_lib/server_socket_item.cpp), as StartWithAccept runs it:           *)
(*                                                                         *)
(*   - the websocket thread answers the handshake, reads the websocket,    *)
(*     decodes the first request, dials the target, starts the socket      *)
(*     thread, and from then on forwards to the target;                    *)
(*   - the socket thread reads the target and writes the websocket;        *)
(*   - SendError runs on_error on a detached thread;                       *)
(*   - Clear closes and joins the socket side, then the websocket side.    *)
(*                                                                         *)
(* WebsocketServer EXTENDS this module.  The relayed bytes are left out.   *)
(* Connect, StartWithConnect and ConnectAsync have no caller.              *)
(***************************************************************************)

CONSTANTS
    Items,      \* the connections that can be accepted
    Platforms   \* where the server may run

ASSUME PlatformsAssumption == Platforms \subseteq {"Windows", "Linux"}

VARIABLES
    items,
    platform    \* "Windows", inside the client: closing a socket ends another
                \* thread's blocked call on it.  On "Linux", the remote server,
                \* that call goes on until the peer acts.

Sides == {"socket", "websocket"}

(* Who calls on_error: Decode, the end of the websocket thread, and the    *)
(* socket thread.  A second call of one of them while the first has yet to *)
(* begin its Clear changes nothing.                                        *)
Reporters == {"decode"} \cup Sides

Item == [
    open             : SUBSET Sides,    \* the sockets that are open
    adopted          : {"no", "yes"},   \* the member websocket is the accepted one
    websocket_thread : {"none", "adopt", "request", "reply", "read", "connect",
                        "greet", "spawn", "assign", "forward", "error", "done"},
    first            : {"yes", "no"},   \* b_first: the request is not complete
    socket_thread    : {"none", "read", "write", "error", "done"},
    joinable         : SUBSET Sides,    \* the thread members holding a thread
    mutex            : Reporters \cup {"free", "stop"},     \* who is in Clear
    clear            : {"idle", "join_socket", "join_websocket"},
    reports          : SUBSET Reporters,    \* on_error threads ahead of their Clear
    erasing          : SUBSET Reporters,    \* on_error threads back from it
    late             : SUBSET Sides,    \* put in place after Clear had closed them
    fate             : {"normal",
                        "raced",        \* cleared or erased before its start was over
                        "terminated"} ] \* its thread called std::terminate

ItemInit == items = [i \in Items |-> [
    open |-> {}, adopted |-> "no", websocket_thread |-> "none", first |-> "yes",
    socket_thread |-> "none", joinable |-> {}, mutex |-> "free", clear |-> "idle",
    reports |-> {}, erasing |-> {}, late |-> {}, fate |-> "normal" ]]

IsOpen(i, side) == side \in items[i].open

Becomes(i, now) == items' = [items EXCEPT ![i] = now]

WebSocketGoes(i, from, to) ==
    /\ items[i].websocket_thread = from
    /\ Becomes(i, [items[i] EXCEPT !.websocket_thread = to])

SocketGoes(i, from, to) ==
    /\ items[i].socket_thread = from
    /\ Becomes(i, [items[i] EXCEPT !.socket_thread = to])

-----------------------------------------------------------------------------
(* StartWithAccept: the thread runs before the member that holds it is     *)
(* assigned.                                                               *)

StartThread(i) ==
    /\ items[i].websocket_thread = "none"
    /\ Becomes(i, [items[i] EXCEPT !.open = {"websocket"}, !.websocket_thread = "adopt"])

AssignThread(i) == Becomes(i, [items[i] EXCEPT !.joinable = @ \cup {"websocket"}])

-----------------------------------------------------------------------------
(* Accept, WebsocketReadFunc and Decode *)

\* Until here Clear closes the placeholder that the constructor made.
Adopt(i) ==
    /\ items[i].websocket_thread = "adopt"
    /\ Becomes(i, [items[i] EXCEPT !.adopted = "yes", !.websocket_thread = "request",
            !.late = @ \cup IF items[i].clear = "join_websocket" THEN {"websocket"} ELSE {}])

\* A request for another path is refused: close, SendError, return.
ReadRequest(i) ==
    /\ items[i].websocket_thread = "request" /\ IsOpen(i, "websocket")
    /\ \/ WebSocketGoes(i, "request", "reply")
       \/ Becomes(i, [items[i] EXCEPT !.open = @ \ {"websocket"},
                                      !.websocket_thread = "error"])

ReplyAccept(i) == IsOpen(i, "websocket") /\ WebSocketGoes(i, "reply", "read")

\* The catch closes, and falls through to WebsocketReadFunc.
AcceptFails(i) ==
    /\ items[i].websocket_thread \in {"request", "reply"}
    /\ Becomes(i, [items[i] EXCEPT !.open = @ \ {"websocket"}, !.websocket_thread = "read"])

\* The first message that completes the request header ends b_first.
ReadWebSocket(i) ==
    /\ items[i].websocket_thread = "read" /\ IsOpen(i, "websocket")
    /\ \/ items[i].first = "yes"
          /\ Becomes(i, [items[i] EXCEPT !.first = "no", !.websocket_thread = "connect"])
       \/ items[i].first = "no" /\ WebSocketGoes(i, "read", "forward")

ReadWebSocketFails(i) == WebSocketGoes(i, "read", "error")

\* connect opens the socket again if a Clear has closed it.
Dial(i) ==
    /\ items[i].websocket_thread = "connect"
    /\ Becomes(i, [items[i] EXCEPT !.open = @ \cup {"socket"}, !.websocket_thread = "greet",
            !.late = @ \cup IF items[i].clear = "join_socket" THEN {"socket"} ELSE {}])

\* The request makes no sense, the name is not resolved or the dial fails,
\* which leaves the socket open: SendError, and on with the reading.
DialFails(i) ==
    /\ items[i].websocket_thread = "connect"
    /\ \E dialled \in SUBSET {"socket"} :
        Becomes(i, [items[i] EXCEPT !.open = @ \cup dialled, !.websocket_thread = "read",
                                    !.reports = @ \cup {"decode"}])

\* "200 Connection established" goes to the websocket, or the request to the
\* target.
Greet(i) == items[i].open # {} /\ WebSocketGoes(i, "greet", "spawn")

\* A failed write to the websocket is reported and ignored; one to the target
\* is thrown.
GreetFails(i) ==
    /\ items[i].websocket_thread = "greet"
    /\ \E next \in {"spawn", "read"} :
        Becomes(i, [items[i] EXCEPT !.websocket_thread = next,
                                    !.reports = @ \cup {"decode"}])

\* The socket thread runs before socket_thread_func is assigned.
Spawn(i) ==
    /\ items[i].websocket_thread = "spawn"
    /\ Becomes(i, [items[i] EXCEPT !.socket_thread = "read", !.websocket_thread = "assign"])

AssignSocketThread(i) ==
    /\ items[i].websocket_thread = "assign"
    /\ Becomes(i, [items[i] EXCEPT !.joinable = @ \cup {"socket"},
                                   !.websocket_thread = "read"])

Forward(i) == IsOpen(i, "socket") /\ WebSocketGoes(i, "forward", "read")

ForwardFails(i) == WebSocketGoes(i, "forward", "error")

\* Mutant: the websocket thread ends and reports nothing.
WebSocketSendError_Quiet(i) == WebSocketGoes(i, "error", "done")

\* SendError, the last act of the websocket thread.
WebSocketSendError(i) ==
    /\ items[i].websocket_thread = "error"
    /\ Becomes(i, [items[i] EXCEPT !.websocket_thread = "done",
                                   !.reports = @ \cup {"websocket"}])

-----------------------------------------------------------------------------
(* SocketReadFunc *)

ReadSocket(i) == IsOpen(i, "socket") /\ SocketGoes(i, "read", "write")

ReadSocketFails(i) == SocketGoes(i, "read", "error")

WebSocketWrite(i) == IsOpen(i, "websocket") /\ SocketGoes(i, "write", "read")

\* WebsocketWrite reports, and the false it returns is not looked at.
WebSocketWriteFails(i) ==
    /\ items[i].socket_thread = "write"
    /\ Becomes(i, [items[i] EXCEPT !.socket_thread = "read",
                                   !.reports = @ \cup {"socket"}])

SocketSendError(i) ==
    /\ items[i].socket_thread = "error"
    /\ Becomes(i, [items[i] EXCEPT !.socket_thread = "done",
                                   !.reports = @ \cup {"socket"}])

-----------------------------------------------------------------------------
(* Clear, called by c: "stop" is StopServer, a reporter OnClientError.     *)

\* Mutant: the target's socket is left open.
ClearBegin_KeepsSocket(i, c) ==
    /\ items[i].mutex = "free"
    /\ Becomes(i, [items[i] EXCEPT !.mutex = c, !.clear = "join_socket",
                    !.reports = @ \ {c}])

ClearBegin(i, c) ==
    /\ items[i].mutex = "free"
    /\ Becomes(i, [items[i] EXCEPT !.mutex = c, !.clear = "join_socket",
                    !.reports = @ \ {c}, !.open = @ \ {"socket"}])

Ended(i, side) ==
    \/ side = "socket" /\ items[i].socket_thread \in {"none", "done"}
    \/ side = "websocket" /\ items[i].websocket_thread \in {"none", "done"}

\* join returns, or joinable() is false.
Joins(i, side) == side \in items[i].joinable => Ended(i, side)

\* Mutant: the websocket is left open.
ClearJoinSocket_KeepsWebSocket(i, c) ==
    /\ items[i].mutex = c /\ items[i].clear = "join_socket"
    /\ Joins(i, "socket")
    /\ Becomes(i, [items[i] EXCEPT !.clear = "join_websocket",
                    !.joinable = @ \ {"socket"}])

\* The accepted websocket is closed, or the placeholder before it.
ClearJoinSocket(i, c) ==
    /\ items[i].mutex = c /\ items[i].clear = "join_socket"
    /\ Joins(i, "socket")
    /\ Becomes(i, [items[i] EXCEPT !.clear = "join_websocket",
                    !.joinable = @ \ {"socket"},
                    !.open = IF items[i].adopted = "yes" THEN @ \ {"websocket"} ELSE @])

\* Mutant: the websocket thread is not waited for.
ClearJoinWebSocket_Detaches(i, c) ==
    /\ items[i].mutex = c /\ items[i].clear = "join_websocket"
    /\ Becomes(i, [items[i] EXCEPT !.clear = "idle", !.mutex = "free",
                    !.joinable = @ \ {"websocket"},
                    !.erasing = @ \cup (Reporters \cap {c})])

\* A thread that StartWithAccept has yet to assign is not waited for: raced.
ClearJoinWebSocket(i, c) ==
    /\ items[i].mutex = c /\ items[i].clear = "join_websocket"
    /\ Joins(i, "websocket")
    /\ Becomes(i, [items[i] EXCEPT !.clear = "idle", !.mutex = "free",
                    !.joinable = @ \ {"websocket"},
                    !.erasing = @ \cup (Reporters \cap {c}),
                    !.fate = IF "websocket" \in items[i].joinable THEN @ ELSE
                             IF items[i].websocket_thread = "done" THEN @ ELSE "raced"])

-----------------------------------------------------------------------------

WebSocketThread(i) ==
    \/ Adopt(i) \/ ReadRequest(i) \/ ReplyAccept(i) \/ AcceptFails(i)
    \/ ReadWebSocket(i) \/ ReadWebSocketFails(i)
    \/ Dial(i) \/ DialFails(i) \/ Greet(i) \/ GreetFails(i)
    \/ Spawn(i) \/ AssignSocketThread(i)
    \/ Forward(i) \/ ForwardFails(i) \/ WebSocketSendError(i)

SocketThread(i) ==
    \/ ReadSocket(i) \/ ReadSocketFails(i)
    \/ WebSocketWrite(i) \/ WebSocketWriteFails(i) \/ SocketSendError(i)

\* With the item gone, the next shared_from_this of its websocket thread throws,
\* and throws again in the handler that reports it.
Terminate(i) ==
    /\ ~Ended(i, "websocket")
    /\ Becomes(i, [items[i] EXCEPT !.fate = "terminated"])

Dead(i) == items[i].open = {} /\ \A side \in Sides : Ended(i, side)
=============================================================================
