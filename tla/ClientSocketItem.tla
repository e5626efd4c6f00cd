--------------------------- MODULE ClientSocketItem ---------------------------
(***************************************************************************)
(* The client's end of a proxied connection                                *)
(* (net_lib/client_socket_item.cpp): two threads, two sockets, an error    *)
(* callback and Clear().                                                   *)
(*                                                                         *)
(*   - the socket thread reads the browser socket and writes the           *)
(*     websocket; it also dials the websocket and starts the other thread; *)
(*   - the websocket thread reads the websocket and writes the browser     *)
(*     socket;                                                             *)
(*   - each ends in SendError, which runs on_error on a detached thread;   *)
(*   - Clear closes both sockets and joins both threads, under             *)
(*     close_mutex, on the thread that calls it.                           *)
(*                                                                         *)
(* ClientServer EXTENDS this module: it owns the items and calls Clear.    *)
(* The relayed bytes are left out: a read or write succeeds or throws.     *)
(***************************************************************************)


CONSTANTS
    Items,      \* the connections that can be accepted
    AutoProxy   \* the auto_proxy argument: read and route a first request

ASSUME AutoProxyAssumption == AutoProxy \in BOOLEAN

VARIABLE items

(* Each side has a socket and a thread that reads it; the thread may start *)
(* one SendError thread, which goes by the name of the side it comes from. *)
Sides == {"socket", "websocket"}

Item == [
    open             : SUBSET Sides,    \* the sockets that are open
    socket_thread    : {"none", "header", "connect", "handshake", "first",
                        "read", "write", "error", "done"},
    websocket_thread : {"none", "read", "write", "error", "done"},
    joinable         : SUBSET Sides,    \* the thread members holding a thread
    set_up           : {"new",          \* not yet owned by a shared_ptr
                        "owned",        \* shared_from_this works, on_error is empty
                        "assigning",    \* on_error is being written
                        "set"},
    close_mutex      : Sides \cup {"free", "stop"},     \* who is in Clear
    clear            : {"idle", "join_socket", "join_websocket"},
    reports          : SUBSET Sides,    \* SendError threads ahead of their Clear
    erasing          : SUBSET Sides,    \* SendError threads back from it
    fate             : {"normal",
                        "raced",        \* an error fell between two set-up steps
                        "terminated"} ] \* a thread called std::terminate

ItemInit == items = [i \in Items |-> [
    open |-> {}, socket_thread |-> "none", websocket_thread |-> "none",
    joinable |-> {}, set_up |-> "new", close_mutex |-> "free", clear |-> "idle",
    reports |-> {}, erasing |-> {}, fate |-> "normal" ]]

IsOpen(i, side) == side \in items[i].open

Becomes(i, now) == items' = [items EXCEPT ![i] = now]

-----------------------------------------------------------------------------
(* Construction, in the order ClientServer drives it.  The constructor     *)
(* starts the socket thread: it runs before a shared_ptr owns the item and *)
(* before on_error, which SendError reads unlocked, is written.            *)

Construct(i) ==
    /\ items[i].socket_thread = "none"
    /\ Becomes(i, [items[i] EXCEPT !.open = {"socket"}, !.joinable = {"socket"},
                    !.socket_thread = IF AutoProxy THEN "header" ELSE "connect"])

TakeOwnership(i) == Becomes(i, [items[i] EXCEPT !.set_up = "owned"])

SetOnErrorCallBack(i, phase) == Becomes(i, [items[i] EXCEPT !.set_up = phase])

-----------------------------------------------------------------------------
(* SocketThreadFunc *)

SocketGoes(i, from, to) ==
    /\ items[i].socket_thread = from
    /\ Becomes(i, [items[i] EXCEPT !.socket_thread = to])

\* The end of the first request header has been read.
ReadHeader(i) == IsOpen(i, "socket") /\ SocketGoes(i, "header", "connect")

\* connect opens the socket it dials with; a failed dial leaves it open.
ConnectRemote(i) ==
    /\ items[i].socket_thread = "connect"
    /\ \E pc \in {"handshake", "error"} :
        Becomes(i, [items[i] EXCEPT !.open = @ \cup {"websocket"}, !.socket_thread = pc])

\* The handshake is answered and the websocket thread started with a
\* shared_from_this, which throws while no shared_ptr owns the item.
Handshake(i) ==
    \/ items[i].set_up # "new" /\ items[i].socket_thread = "handshake"
       /\ Becomes(i, [items[i] EXCEPT !.socket_thread = "first",
                        !.websocket_thread = "read", !.joinable = @ \cup {"websocket"}])
    \/ items[i].set_up = "new" /\ SocketGoes(i, "handshake", "error")

HandshakeFails(i) == SocketGoes(i, "handshake", "error")

\* Of the first request, then of every chunk read.
WebSocketWrite(i) ==
    /\ IsOpen(i, "websocket")
    /\ SocketGoes(i, "first", "read") \/ SocketGoes(i, "write", "read")

WebSocketWriteFails(i) ==
    SocketGoes(i, "first", "error") \/ SocketGoes(i, "write", "error")

ReadSocket(i) == IsOpen(i, "socket") /\ SocketGoes(i, "read", "write")

\* The browser closed, or Clear did (closesocket ends a blocked read on
\* Windows, where the client runs), or the request makes no sense.
ReadSocketFails(i) ==
    SocketGoes(i, "header", "error") \/ SocketGoes(i, "read", "error")

-----------------------------------------------------------------------------
(* WebSocketThreadFunc *)

WebSocketGoes(i, from, to) ==
    /\ items[i].websocket_thread = from
    /\ Becomes(i, [items[i] EXCEPT !.websocket_thread = to])

ReadWebSocket(i) == IsOpen(i, "websocket") /\ WebSocketGoes(i, "read", "write")

ReadWebSocketFails(i) == WebSocketGoes(i, "read", "error")

SocketWrite(i) == IsOpen(i, "socket") /\ WebSocketGoes(i, "write", "read")

SocketWriteFails(i) == WebSocketGoes(i, "write", "error")

-----------------------------------------------------------------------------
(* SendError(shared_from_this()), the last act of either thread. *)

Thread(i, side) ==
    IF side = "socket" THEN items[i].socket_thread ELSE items[i].websocket_thread

Finish(i, side, now) ==
    Becomes(i, IF side = "socket" THEN [now EXCEPT !.socket_thread = "done"]
                                  ELSE [now EXCEPT !.websocket_thread = "done"])

\* on_error is seen set, or seen empty, in which case nobody will hear of the
\* error; shared_from_this throws out of the thread when nothing owns the item,
\* and a call of a half-written on_error may end the process too.
SendError(i, side) ==
    /\ Thread(i, side) = "error"
    /\ \/ /\ items[i].set_up \in {"assigning", "set"}
          /\ Finish(i, side, [items[i] EXCEPT !.reports = @ \cup {side}])
       \/ /\ items[i].set_up \in {"owned", "assigning"}
          /\ Finish(i, side, [items[i] EXCEPT !.fate = "raced"])
       \/ /\ items[i].set_up \in {"new", "assigning"}
          /\ Finish(i, side, [items[i] EXCEPT !.fate = "terminated"])

-----------------------------------------------------------------------------
(* Clear, called by c: "stop" is StopServer, a side its SendError thread. *)

\* Mutant: the browser socket is left open.
ClearBegin_KeepsSocket(i, c) ==
    /\ items[i].close_mutex = "free"
    /\ Becomes(i, [items[i] EXCEPT !.close_mutex = c, !.clear = "join_socket",
                    !.reports = @ \ {c}])

\* close_mutex is taken and the browser socket closed.
ClearBegin(i, c) ==
    /\ items[i].close_mutex = "free"
    /\ Becomes(i, [items[i] EXCEPT !.close_mutex = c, !.clear = "join_socket",
                    !.reports = @ \ {c}, !.open = @ \ {"socket"}])

Ended(i, side) == Thread(i, side) \in {"none", "done"}

\* join returns, or there is no thread to join.
Joins(i, side) == side \in items[i].joinable => Ended(i, side)

\* Mutant: the websocket is closed while the socket thread may still dial it.
ClearJoinSocket_Detaches(i, c) ==
    /\ items[i].close_mutex = c /\ items[i].clear = "join_socket"
    /\ Becomes(i, [items[i] EXCEPT !.clear = "join_websocket",
                    !.joinable = @ \ {"socket"}, !.open = @ \ {"websocket"}])

\* Mutant: the websocket is left open.
ClearJoinSocket_KeepsWebSocket(i, c) ==
    /\ items[i].close_mutex = c /\ items[i].clear = "join_socket"
    /\ Joins(i, "socket")
    /\ Becomes(i, [items[i] EXCEPT !.clear = "join_websocket", !.joinable = @ \ {"socket"}])

\* The socket thread is joined, then the websocket is closed.
ClearJoinSocket(i, c) ==
    /\ items[i].close_mutex = c /\ items[i].clear = "join_socket"
    /\ Joins(i, "socket")
    /\ Becomes(i, [items[i] EXCEPT !.clear = "join_websocket",
                    !.joinable = @ \ {"socket"}, !.open = @ \ {"websocket"}])

\* The websocket thread is joined and close_mutex released.
ClearJoinWebSocket(i, c) ==
    /\ items[i].close_mutex = c /\ items[i].clear = "join_websocket"
    /\ Joins(i, "websocket")
    /\ Becomes(i, [items[i] EXCEPT !.clear = "idle", !.close_mutex = "free",
                    !.joinable = @ \ {"websocket"},
                    !.erasing = @ \cup (Sides \cap {c})])

-----------------------------------------------------------------------------

ItemThread(i) ==
    \/ ReadHeader(i) \/ ConnectRemote(i) \/ Handshake(i) \/ HandshakeFails(i)
    \/ WebSocketWrite(i) \/ WebSocketWriteFails(i)
    \/ ReadSocket(i) \/ ReadSocketFails(i)
    \/ ReadWebSocket(i) \/ ReadWebSocketFails(i)
    \/ SocketWrite(i) \/ SocketWriteFails(i)
    \/ \E side \in Sides : SendError(i, side)

\* Nothing of the connection is left: no thread runs, no socket is open.
Dead(i) ==
    /\ \A side \in Sides : Ended(i, side)
    /\ items[i].open = {}
=============================================================================
