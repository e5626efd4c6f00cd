--------------------------- MODULE WebsocketServer ---------------------------
(***************************************************************************)
(* The tunnel's server (net_lib/websocket_server.cpp).  The remote one on  *)
(* Linux (server/main.cpp) starts and runs for ever; the one inside the    *)
(* client on Windows (client/widget_main.cpp) is started and stopped.      *)
(*                                                                         *)
(* StartServer and StopServer run on the owner's thread, ThreadFunc on the *)
(* accept thread, OnClientError on the detached threads of SendError.      *)
(***************************************************************************)
EXTENDS ServerSocketItem

CONSTANT NoItem     \* no item

ASSUME NoItemAssumption == NoItem \notin Items

VARIABLES
    owner,          \* where the owner's thread is; "off" and "on" between calls
    acceptor,       \* "null", "open" or "closed"
    accept_thread,  \* where ThreadFunc is
    client,         \* ThreadFunc's item under construction
    websocket_map,  \* guarded by websocket_map_mutex, which StopServer keeps
                    \* from its loop on
    todo,           \* the items StopServer's loop has yet to clear
    item            \* the one it is clearing

server == <<owner, acceptor, accept_thread, client, websocket_map, todo, item>>
vars == <<items, server, platform>>

Windows == platform = "Windows"

Init ==
    /\ ItemInit /\ platform \in Platforms
    /\ owner = "off" /\ acceptor = "null" /\ accept_thread = "none"
    /\ client = NoItem /\ item = NoItem
    /\ websocket_map = {} /\ todo = {}

Crashed == \E i \in Items : items[i].fate = "terminated"

MapLocked == owner \in {"loop", "clear"}

-----------------------------------------------------------------------------
(* StartServer and ThreadFunc *)

StartServer ==
    /\ owner = "off" /\ owner' = "on"
    /\ acceptor' = "open" /\ accept_thread' = "accept"
    /\ UNCHANGED <<items, client, websocket_map, todo, item>>

\* The port is taken; neither owner looks at the false.
StartFails ==
    /\ owner = "off" /\ owner' = "on"
    /\ UNCHANGED <<items, acceptor, accept_thread, client, websocket_map, todo, item>>

ThreadGoes(from, to) ==
    /\ accept_thread = from /\ accept_thread' = to
    /\ UNCHANGED <<owner, acceptor, todo, item>>

\* make_shared and SetOnErrorCallback: nothing runs yet.
Accept(i) ==
    /\ ThreadGoes("accept", "start") /\ acceptor = "open"
    /\ items[i].websocket_thread = "none" /\ client' = i
    /\ UNCHANGED <<items, websocket_map>>

\* The acceptor was closed, or a connection could not be accepted: either
\* ends the thread.
AcceptThreadEnds ==
    /\ ThreadGoes("accept", "done")
    /\ UNCHANGED <<items, client, websocket_map>>

StartWithAccept ==
    /\ \/ ThreadGoes("start", "assign") /\ StartThread(client)
       \/ ThreadGoes("assign", "insert") /\ AssignThread(client)
    /\ UNCHANGED <<client, websocket_map>>

\* Mutant: the item is not inserted.
InsertClient_Drops ==
    /\ ThreadGoes("insert", "accept") /\ client' = NoItem
    /\ UNCHANGED <<items, websocket_map>>

InsertClient ==
    /\ ThreadGoes("insert", "accept") /\ ~MapLocked
    /\ client' = NoItem /\ websocket_map' = websocket_map \cup {client}
    /\ UNCHANGED items

-----------------------------------------------------------------------------
(* OnClientError(i), called by reporter r. *)

OnErrorClear(i, r) ==
    /\ r \in items[i].reports /\ ClearBegin(i, r)
    /\ UNCHANGED server

\* Mutant: the item is cleared and stays in the map.
OnErrorErase_Forgets(i, r) ==
    /\ r \in items[i].erasing /\ ~MapLocked
    /\ Becomes(i, [items[i] EXCEPT !.erasing = @ \ {r}])
    /\ UNCHANGED server

\* Erasing an item the accept thread has yet to insert is a no-op: raced.
OnErrorErase(i, r) ==
    /\ r \in items[i].erasing /\ ~MapLocked
    /\ websocket_map' = websocket_map \ {i}
    /\ Becomes(i, [items[i] EXCEPT !.erasing = @ \ {r},
                    !.fate = IF client = i THEN "raced" ELSE @])
    /\ UNCHANGED <<owner, acceptor, accept_thread, client, todo, item>>

-----------------------------------------------------------------------------
(* StopServer *)

\* Without an acceptor it returns at once.
StopServer ==
    /\ owner = "on" /\ Windows
    /\ owner' = IF acceptor = "null" THEN "off" ELSE "join"
    /\ acceptor' = IF acceptor = "null" THEN "null" ELSE "closed"
    /\ UNCHANGED <<items, accept_thread, client, websocket_map, todo, item>>

\* The accept thread is joined, websocket_map_mutex taken and the loop begun.
StopJoinThread ==
    /\ owner = "join" /\ owner' = "loop"
    /\ accept_thread \in {"none", "done"} /\ accept_thread' = "none"
    /\ todo' = websocket_map
    /\ UNCHANGED <<items, acceptor, client, websocket_map, item>>

StopClear(i) ==
    /\ owner = "loop" /\ owner' = "clear"
    /\ i \in todo /\ item' = i
    /\ ClearBegin(i, "stop")
    /\ UNCHANGED <<acceptor, accept_thread, client, websocket_map, todo>>

StopAdvance ==
    /\ owner = "clear" /\ items[item].mutex # "stop" /\ owner' = "loop"
    /\ todo' = todo \ {item} /\ item' = NoItem
    /\ UNCHANGED <<items, acceptor, accept_thread, client, websocket_map>>

StopReturns ==
    /\ owner = "loop" /\ todo = {} /\ owner' = "off"
    /\ websocket_map' = {}
    /\ UNCHANGED <<items, acceptor, accept_thread, client, todo, item>>

-----------------------------------------------------------------------------

\* Somebody holds a shared_ptr to i.  The websocket thread runs on a bare this.
Referenced(i) ==
    \/ i \in websocket_map \cup {client}
    \/ ~Ended(i, "socket")
    \/ items[i].reports \cup items[i].erasing # {} \/ items[i].mutex # "free"

\* The last reference is gone: the destructor's Clear joins the thread.
Destruct(i) == ~Referenced(i) /\ Terminate(i) /\ UNCHANGED server

ClearSteps(i, c) ==
    /\ ClearJoinSocket(i, c) \/ ClearJoinWebSocket(i, c)
    /\ UNCHANGED server

AcceptThread ==
    \/ AcceptThreadEnds \/ StartWithAccept \/ InsertClient
    \/ \E i \in Items : Accept(i)

OwnerThread ==
    \/ StartServer \/ StartFails \/ StopServer \/ StopJoinThread
    \/ \E i \in Items : StopClear(i)
    \/ StopAdvance \/ StopReturns

Next ==
    /\ ~Crashed /\ UNCHANGED platform
    /\ \/ AcceptThread \/ OwnerThread
       \/ \E i \in Items :
            \/ Referenced(i) /\ (WebSocketThread(i) \/ SocketThread(i)) /\ UNCHANGED server
            \/ Destruct(i)
            \/ \E c \in Reporters \cup {"stop"} : ClearSteps(i, c)
            \/ \E r \in Reporters : OnErrorClear(i, r) \/ OnErrorErase(i, r)

SafeSpec == Init /\ [][Next]_vars

(* A thread that can take a step takes one, and a lock waited for is       *)
(* acquired (SF).  A name is resolved and a dial ends, for both time out.  *)
(* On Windows a call on a socket closed locally ends; nothing else is      *)
(* promised of the peers, nor that a connection arrives or a user clicks.  *)
WebSocketThreadMoves(i) ==
    /\ Referenced(i)
    /\ \/ Adopt(i) \/ Dial(i) \/ DialFails(i) \/ Spawn(i) \/ AssignSocketThread(i)
       \/ WebSocketSendError(i)
       \/ /\ Windows /\ ~IsOpen(i, "websocket")
          /\ AcceptFails(i) \/ ReadWebSocketFails(i)
       \/ Windows /\ ~IsOpen(i, "socket") /\ ForwardFails(i)
    /\ UNCHANGED server

SocketThreadMoves(i) ==
    /\ \/ SocketSendError(i)
       \/ Windows /\ ~IsOpen(i, "socket") /\ ReadSocketFails(i)
    /\ UNCHANGED server

AcceptThreadMoves ==
    \/ (acceptor = "closed" /\ AcceptThreadEnds) \/ StartWithAccept \/ InsertClient

\* The platform is where the program runs, it does not change.
moves == <<items, server>>

Fairness ==
    /\ WF_moves(~Crashed /\ AcceptThreadMoves)
    /\ WF_moves(~Crashed /\ (StopJoinThread \/ StopAdvance \/ StopReturns))
    /\ SF_moves(~Crashed /\ \E i \in Items : StopClear(i))
    /\ \A i \in Items :
        /\ WF_moves(~Crashed /\ WebSocketThreadMoves(i))
        /\ WF_moves(~Crashed /\ SocketThreadMoves(i))
        /\ WF_moves(~Crashed /\ Destruct(i))
        /\ WF_moves(~Crashed /\ \E c \in Reporters \cup {"stop"} : ClearSteps(i, c))
        /\ SF_moves(~Crashed /\ \E r \in Reporters : OnErrorClear(i, r))
        /\ WF_moves(~Crashed /\ \E r \in Reporters : OnErrorErase(i, r))

Spec == SafeSpec /\ Fairness

-----------------------------------------------------------------------------
(* Safety *)

\* When the last shared_ptr goes the item is dead: its websocket thread never
\* outlives it (server_socket_item.cpp:104), and the destructor's Clear (:21-24)
\* never runs on a thread of the item.  The exception is an item cleared before
\* StartWithAccept had assigned the thread that Clear is to join.
DestructorFindsNothing ==
    \A i \in Items :
        items[i].websocket_thread # "none" /\ ~Referenced(i)
            => Dead(i) \/ items[i].fate # "normal"

\* Clear joins the socket thread before the websocket thread that may be about
\* to dial and start it (:121-138 against :240 and :252), so it may leave a
\* running thread and an open socket behind.  Once the websocket thread has
\* ended, the error it ended in is still to be cleared, or nothing is left.
LeftoverIsReported ==
    \A i \in Items :
        items[i].websocket_thread = "done" /\ ~Dead(i)
            => "websocket" \in items[i].reports \/ items[i].mutex # "free"

Forgotten(i) ==
    Dead(i) /\ items[i].reports \cup items[i].erasing = {} /\ items[i].mutex = "free"

\* A dead item stays in the map only when its error was handled before the
\* accept thread inserted it (websocket_server.cpp:56-59 against :67-73).
StrandedOnlyByStartupRace ==
    \A i \in websocket_map : Forgotten(i) => items[i].fate = "raced"

\* A StopServer that returned has waited for the websocket thread of every item
\* whose start was over before its first Clear (:26-43), so that none dials or
\* starts a socket thread afterwards.
StopEndsWebSockets ==
    owner = "off" =>
        \A i \in Items : items[i].fate = "normal" => Ended(i, "websocket")

-----------------------------------------------------------------------------
(* Liveness *)

\* A call of the websocket or the socket thread that only the peer can end.
WaitsForPeer(i) ==
    LET Lasts(side) == IsOpen(i, side) \/ ~Windows
    IN  \/ items[i].websocket_thread \in {"request", "reply"} /\ Lasts("websocket")
        \/ items[i].websocket_thread = "greet"
        \/ items[i].websocket_thread = "read" /\ ~IsOpen(i, "websocket") /\ ~Windows
        \/ items[i].websocket_thread = "forward" /\ Lasts("socket")
        \/ items[i].socket_thread = "write"
        \/ items[i].socket_thread = "read" /\ ~IsOpen(i, "socket") /\ ~Windows

\* The dial reopened the socket after Clear had closed it (:240 after :126), or
\* Accept put the websocket in place after Clear had closed the placeholder (:52
\* after :134): Clear joins a thread that relays until the peer ends it.
Overtaken(i) ==
    \/ items[i].clear = "join_socket" /\ "socket" \in items[i].late
    \/ items[i].clear = "join_websocket" /\ "websocket" \in items[i].late

PeersAct == \A i \in Items : []<>~WaitsForPeer(i) /\ []<>~Overtaken(i)

\* StopServer returns if the peers act, although it keeps the map's mutex over
\* every Clear and OnClientError wants both (websocket_server.cpp:36-39, :67-73).
StopTerminates == PeersAct => (owner = "join" ~> owner = "off" \/ Crashed)

\* Every error that is reported ends the connection, whatever was under way.
ErrorEndsConnection ==
    PeersAct => \A i \in Items : items[i].reports # {} ~> Dead(i) \/ Crashed
=============================================================================
