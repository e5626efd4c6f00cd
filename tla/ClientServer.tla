----------------------------- MODULE ClientServer -----------------------------
(***************************************************************************)
(* The client's local server (net_lib/client_server.cpp): StartServer and  *)
(* StopServer on the UI thread, ThreadFunc on the accept thread, OnError   *)
(* on the detached threads that the items' SendError starts.               *)
(*                                                                         *)
(* The owner of the server (client/widget_main.cpp) alternates StartServer *)
(* and StopServer; the destructor calls StopServer.                        *)
(***************************************************************************)
EXTENDS ClientSocketItem

CONSTANT NoItem     \* no item

ASSUME NoItemAssumption == NoItem \notin Items

VARIABLES
    ui,             \* where the UI thread is; "off" and "on" between two calls
    acceptor,       \* "null" before the first ThreadFunc; "open" or "closed"
    accept_thread,  \* where ThreadFunc is
    client,         \* ThreadFunc's item under construction
    socket_list,    \* guarded by socket_list_mutex, except in StopServer
    todo,           \* the nodes StopServer's loop has ahead
    item,           \* the loop's current item
    undefined       \* StopServer read an erased node; it was "fatal"

server == <<ui, acceptor, accept_thread, client, socket_list, todo, item, undefined>>
stop == <<todo, item, undefined>>
vars == <<items, server>>

TypeOK ==
    /\ items \in [Items -> Item]
    /\ ui \in {"off", "on", "close", "join", "loop", "visit", "clear"}
    /\ acceptor \in {"null", "open", "closed"}
    /\ accept_thread \in {"none", "bind", "accept", "own", "callback", "assign",
                          "insert", "done"}
    /\ {client, item} \subseteq Items \cup {NoItem}
    /\ socket_list \subseteq Items /\ todo \subseteq Items
    /\ undefined \in {"no", "yes", "fatal"}

Init ==
    /\ ItemInit
    /\ ui = "off" /\ acceptor = "null" /\ accept_thread = "none"
    /\ client = NoItem /\ item = NoItem
    /\ socket_list = {} /\ todo = {} /\ undefined = "no"

Crashed == undefined = "fatal" \/ \E i \in Items : items[i].fate = "terminated"

-----------------------------------------------------------------------------
(* StartServer and ThreadFunc *)

StartServer ==
    /\ ui = "off" /\ ui' = "on"
    /\ accept_thread' = "bind"
    /\ UNCHANGED <<items, acceptor, client, socket_list, stop>>

ThreadGoes(from, to) ==
    /\ accept_thread = from /\ accept_thread' = to
    /\ UNCHANGED <<ui, stop>>

Bind ==
    /\ ThreadGoes("bind", "accept") /\ acceptor' = "open"
    /\ UNCHANGED <<items, client, socket_list>>

\* The port is taken: the thread ends, and StartServer has returned true.
BindFails ==
    /\ ThreadGoes("bind", "done")
    /\ UNCHANGED <<items, acceptor, client, socket_list>>

Accept(i) ==
    /\ ThreadGoes("accept", "own") /\ acceptor = "open"
    /\ Construct(i) /\ client' = i
    /\ UNCHANGED <<acceptor, socket_list>>

\* The acceptor was closed, or a connection could not be accepted: either
\* ends the thread.
AcceptFails ==
    /\ ThreadGoes("accept", "done")
    /\ UNCHANGED <<items, acceptor, client, socket_list>>

\* Mutant: the bare pointer is inserted, without shared_ptr or callback.
OwnClient_Raw ==
    /\ ThreadGoes("own", "insert")
    /\ UNCHANGED <<items, acceptor, client, socket_list>>

OwnClient ==
    /\ ThreadGoes("own", "callback") /\ TakeOwnership(client)
    /\ UNCHANGED <<acceptor, client, socket_list>>

\* SetOnErrorCallBack writes on_error in two steps, for SendError reads it
\* unlocked.
SetCallback ==
    /\ \/ ThreadGoes("callback", "assign") /\ SetOnErrorCallBack(client, "assigning")
       \/ ThreadGoes("assign", "insert") /\ SetOnErrorCallBack(client, "set")
    /\ UNCHANGED <<acceptor, client, socket_list>>

\* Mutant: the item is inserted by a moved-from pointer.
InsertClient_MovedFrom ==
    /\ ThreadGoes("insert", "accept")
    /\ client' = NoItem /\ socket_list' = socket_list \cup {NoItem}
    /\ UNCHANGED <<items, acceptor>>

\* Mutant: the item is not inserted.
InsertClient_Drops ==
    /\ ThreadGoes("insert", "accept") /\ client' = NoItem
    /\ UNCHANGED <<items, acceptor, socket_list>>

InsertClient ==
    /\ ThreadGoes("insert", "accept")
    /\ client' = NoItem /\ socket_list' = socket_list \cup {client}
    /\ UNCHANGED <<items, acceptor>>

-----------------------------------------------------------------------------
(* OnError(i), on the detached thread of i's socket or websocket thread: a *)
(* Clear, then an erase under socket_list_mutex.                           *)

OnErrorClear(i, side) ==
    /\ side \in items[i].reports /\ ClearBegin(i, side)
    /\ UNCHANGED server

\* Mutant: the item is cleared and stays in the list.
OnErrorErase_Forgets(i, side) ==
    /\ side \in items[i].erasing
    /\ Becomes(i, [items[i] EXCEPT !.erasing = @ \ {side}])
    /\ UNCHANGED server

\* Erasing an item the accept thread has yet to insert is a no-op: raced.
OnErrorErase(i, side) ==
    /\ side \in items[i].erasing
    /\ socket_list' = socket_list \ {i}
    /\ Becomes(i, [items[i] EXCEPT !.erasing = @ \ {side},
                    !.fate = IF client = i THEN "raced" ELSE @])
    /\ UNCHANGED <<ui, acceptor, accept_thread, client, stop>>

-----------------------------------------------------------------------------
(* StopServer.  The loop over socket_list takes no mutex. *)

UIGoes(from, to) ==
    /\ ui = from /\ ui' = to
    /\ UNCHANGED <<client, socket_list>>

StopServer ==
    /\ UIGoes("on", "close")
    /\ UNCHANGED <<items, acceptor, accept_thread, stop>>

\* A second Start has the closed acceptor of the first until it binds.
StopCloseAcceptor ==
    /\ UIGoes("close", "join")
    /\ acceptor' = IF acceptor = "null" THEN "null" ELSE "closed"
    /\ UNCHANGED <<items, accept_thread, stop>>

\* Mutant: the accept thread is not waited for.
StopJoinThread_Detaches ==
    /\ UIGoes("join", "loop") /\ todo' = socket_list
    /\ UNCHANGED <<items, acceptor, accept_thread, item, undefined>>

StopJoinThread ==
    /\ UIGoes("join", "loop") /\ accept_thread = "done"
    /\ accept_thread' = "none" /\ todo' = socket_list
    /\ UNCHANGED <<items, acceptor, item, undefined>>

StopVisit(i) ==
    /\ UIGoes("loop", "visit") /\ i \in todo \cap socket_list
    /\ item' = i
    /\ UNCHANGED <<items, acceptor, accept_thread, todo, undefined>>

\* The node that the loop has stepped on to is being erased when it is read.
StopStumbles ==
    /\ UIGoes("loop", "loop") /\ \E i \in todo \cap socket_list : items[i].erasing # {}
    /\ todo' \in SUBSET todo /\ undefined' \in {"yes", "fatal"}
    /\ UNCHANGED <<items, acceptor, accept_thread, item>>

StopClear ==
    /\ UIGoes("visit", "clear") /\ ClearBegin(item, "stop")
    /\ UNCHANGED <<acceptor, accept_thread, stop>>

\* The increment reads the current node, which OnError may have freed or be
\* erasing meanwhile: the loop then goes on anywhere, ends, or faults.
StopAdvance ==
    /\ UIGoes("clear", "loop") /\ items[item].close_mutex # "stop"
    /\ \/ item \in socket_list /\ todo' = todo \ {item} /\ UNCHANGED undefined
       \/ /\ item \notin socket_list \/ \E i \in Items : items[i].erasing # {}
          /\ todo' \in SUBSET todo /\ undefined' \in {"yes", "fatal"}
    /\ item' = NoItem
    /\ UNCHANGED <<items, acceptor, accept_thread>>

\* Mutant: StopServer returns before its loop.
StopReturns_Early ==
    /\ UIGoes("loop", "off") /\ todo' = {}
    /\ UNCHANGED <<items, acceptor, accept_thread, item, undefined>>

StopReturns ==
    /\ UIGoes("loop", "off") /\ todo \cap socket_list = {} /\ todo' = {}
    /\ UNCHANGED <<items, acceptor, accept_thread, item, undefined>>

-----------------------------------------------------------------------------
(* The steps of Clear, of its caller c, and the whole. *)

ClearSteps(i, c) ==
    /\ ClearJoinSocket(i, c) \/ ClearJoinWebSocket(i, c)
    /\ UNCHANGED server

AcceptThread ==
    \/ Bind \/ BindFails \/ AcceptFails \/ \E i \in Items : Accept(i)
    \/ OwnClient \/ SetCallback \/ InsertClient

UIThread ==
    \/ StartServer \/ StopServer \/ StopCloseAcceptor \/ StopJoinThread
    \/ \E i \in Items : StopVisit(i)
    \/ StopStumbles \/ StopClear \/ StopAdvance \/ StopReturns

Next ==
    /\ ~Crashed
    /\ \/ AcceptThread \/ UIThread
       \/ \E i \in Items :
            \/ ItemThread(i) /\ UNCHANGED server
            \/ \E c \in Sides \cup {"stop"} : ClearSteps(i, c)
            \/ \E side \in Sides : OnErrorClear(i, side) \/ OnErrorErase(i, side)

SafeSpec == Init /\ [][Next]_vars

(* A thread that can take a step takes one, and a lock waited for is       *)
(* acquired (SF).  A read or write on a socket closed locally ends; a dial *)
(* ends, for TCP times out.  Nothing is promised of the other end: a read, *)
(* a handshake or a write on an open socket may block for ever; nor of the *)
(* user, or that a connection arrives.                                     *)
SocketThreadMoves(i) ==
    /\ \/ ConnectRemote(i) \/ SendError(i, "socket")
       \/ ~IsOpen(i, "socket") /\ ReadSocketFails(i)
    /\ UNCHANGED server

WebSocketThreadMoves(i) ==
    /\ \/ SendError(i, "websocket")
       \/ ~IsOpen(i, "websocket") /\ ReadWebSocketFails(i)
       \/ ~IsOpen(i, "socket") /\ SocketWriteFails(i)
    /\ UNCHANGED server

AcceptThreadMoves ==
    \/ Bind \/ BindFails \/ (acceptor = "closed" /\ AcceptFails)
    \/ OwnClient \/ SetCallback \/ InsertClient

StopMoves ==
    \/ StopCloseAcceptor \/ StopJoinThread \/ \E i \in Items : StopVisit(i)
    \/ StopAdvance \/ StopReturns

Fairness ==
    /\ WF_vars(~Crashed /\ AcceptThreadMoves)
    /\ WF_vars(~Crashed /\ StopMoves) /\ SF_vars(~Crashed /\ StopClear)
    /\ \A i \in Items :
        /\ WF_vars(~Crashed /\ SocketThreadMoves(i))
        /\ WF_vars(~Crashed /\ WebSocketThreadMoves(i))
        /\ WF_vars(~Crashed /\ \E c \in Sides \cup {"stop"} : ClearSteps(i, c))
        /\ SF_vars(~Crashed /\ \E side \in Sides : OnErrorClear(i, side))
        /\ WF_vars(~Crashed /\ \E side \in Sides : OnErrorErase(i, side))

Spec == SafeSpec /\ Fairness

-----------------------------------------------------------------------------
(* Safety *)

\* After a Clear nothing of the connection is left, nor comes back: neither
\* thread runs and both sockets are closed, whatever the socket thread was
\* doing to the websocket when Clear began (client_socket_item.cpp:37-53
\* against :104 and :112).
ClearLeavesNothing ==
    \A i \in Items :
        items[i].socket_thread # "none" /\ ~IsOpen(i, "socket") /\ items[i].close_mutex = "free"
            => Dead(i)

\* Somebody holds a shared_ptr to i: the list, the accept thread, StopServer's
\* loop, the websocket thread or a thread of SendError.
Referenced(i) ==
    \/ i \in socket_list \cup {client, item}
    \/ ~Ended(i, "websocket")
    \/ items[i].reports \cup items[i].erasing # {}
    \/ items[i].close_mutex # "free"

\* When the last shared_ptr goes the destructor's Clear finds an item already
\* cleared.  On the websocket thread, say, it would join itself, and destroying
\* the thread object it then fails to join ends the process (:23-26, :50-51).
DestructorFindsNothing ==
    \A i \in Items :
        items[i].socket_thread # "none" /\ ~Referenced(i) => Dead(i)

\* A listed item whose threads are gone, and that nobody is about to erase.
Stranded(i) ==
    /\ i \in socket_list /\ \A side \in Sides : Ended(i, side)
    /\ items[i].reports \cup items[i].erasing = {} /\ items[i].close_mutex \notin Sides

\* A dead item stays in the list only when its error fell between two steps of
\* its set-up, before SetOnErrorCallBack or before the insert
\* (client_server.cpp:40-43): every later error is reaped, also when both
\* threads report and while StopServer clears the same item.
StrandedOnlyByStartupRace ==
    \A i \in Items : Stranded(i) => items[i].fate = "raced"

\* A StopServer that returned left no thread running and no socket open, of
\* any item, unless its loop read an erased node (:20-32).
StopLeavesNothingRunning ==
    ui = "off" /\ undefined = "no" => \A i \in Items : Dead(i)

\* Throwing out of a thread is only possible while the accept thread is still
\* setting the item up: never in service, and never during a stop's loop.
CrashOnlyDuringSetup ==
    \A i \in Items : items[i].fate = "terminated" =>
        client = i /\ accept_thread \in {"own", "callback", "assign"}

\* What the owner sees of the server, and of a connection.
Serving == ui # "off" \/ undefined # "no"

Conn(i) == IF items[i].socket_thread = "none" THEN "none"
           ELSE IF Dead(i) THEN "ended" ELSE "open"

Conns == [i \in Items |-> Conn(i)]

\* The server implements the service its owner counts on: a connection opens
\* only while serving, ends once and for all, and has ended when serving stops.
Service == INSTANCE ConnectionService WITH
    Connections <- Items, serving <- Serving, conn <- Conns

Promise == Service!Spec

-----------------------------------------------------------------------------
(* Liveness *)

\* The other end of the websocket answers a handshake and takes what is sent.
PeersAnswer ==
    \A i \in Items : []<>(items[i].socket_thread \notin {"handshake", "first", "write"})

Stopped == ui = "off" \/ Crashed

\* A StopServer that finds the acceptor returns if the peers answer, although
\* it holds each close_mutex over two joins against the threads of OnError.
StopTerminates ==
    PeersAnswer =>
        (ui = "join" /\ acceptor = "closed" /\ accept_thread # "bind" ~> Stopped)

\* An item that is in the list when its error is reported leaves it.
ErrorReapsListedItem ==
    PeersAnswer =>
        \A i \in Items :
            i \in socket_list /\ items[i].reports # {} ~> i \notin socket_list \/ Crashed

\* The button that starts the server then reads "click to disconnect"
\* (widget_main.cpp:31): a click disconnects.
StopDisconnects == PeersAnswer => (ui = "close" ~> Stopped)
=============================================================================
