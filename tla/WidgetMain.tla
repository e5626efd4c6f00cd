------------------------------ MODULE WidgetMain ------------------------------
(***************************************************************************)
(* The client's window (client/widget_main.cpp): two toggle buttons, one   *)
(* for each mode, that start and stop the same three things, and the       *)
(* system's proxy setting (client/proxy.cpp).                              *)
(*                                                                         *)
(* A handler is the sequence of the calls it makes, in their order.  The   *)
(* two servers are here no more than their accept threads; ClientServer    *)
(* and WebsocketServer have the rest.                                      *)
(***************************************************************************)
EXTENDS AsioManager, Sequences

Buttons == {"btn_main_connect", "btn_main_connect_2"}   \* with and without routing

Other(b) == CHOOSE o \in Buttons : o # b

VARIABLES
    checked,        \* the buttons that are down
    disabled,       \* the buttons that cannot be clicked
    calls,          \* the calls ahead of the UI thread; none in the event loop
    sender,         \* the button whose handler ran last
    window,         \* "open", or "closed" when the user has closed it
    proxy,          \* ProxyEnable of the registry, for the server at 1011: "on",
                    \* "off", or "stuck" on since the registry refused to clear it
    client_server,  \* the accept thread of the client server: "none" when it can
                    \* be assigned, "bind", "accept", "closed" or "done"
    websocket_server,   \* the same of the websocket server
    process         \* "running", "terminated" by an assignment to a thread
                    \* that is joinable, or "left"

widget == <<checked, disabled, sender, window, proxy, client_server, websocket_server, process>>
windowVars == <<widget, calls, asio>>

WindowInit ==
    /\ AsioInit
    /\ checked = {} /\ disabled = {} /\ calls = <<>> /\ sender = "btn_main_connect"
    /\ window = "open" /\ proxy = "off"
    /\ client_server = "none" /\ websocket_server = "none" /\ process = "running"

-----------------------------------------------------------------------------
(* The handlers *)

StartThreads == <<"StopIos", "JoinThreads", "ResetIos", "StartAllThreads">>

\* Mutant: the threads are joined before the io_service is stopped.
StopThreads_JoinFirst == <<"JoinThreads", "StopIos">>

StopThreads == <<"StopIos", "JoinThreads">>
StopServer == <<"CloseServer", "JoinServer">>
StopWebsocket == <<"CloseWebsocket", "JoinWebsocket">>

\* Mutant: the other button can still be clicked.
Connect_KeepsOther(b) ==
    (IF b = "btn_main_connect_2" THEN <<"SetProxy">> ELSE <<>>)
    \o StartThreads \o <<"StartServer", "StartWebsocket">>

\* Only the second mode sets the system's proxy.
Connect(b) ==
    <<"disable">> \o (IF b = "btn_main_connect_2" THEN <<"SetProxy">> ELSE <<>>)
    \o StartThreads \o <<"StartServer", "StartWebsocket">>

\* Mutant: the system's proxy is left as it is.
Disconnect_KeepsProxy == StopServer \o StopWebsocket \o StopThreads \o <<"enable">>

Disconnect == <<"ClearProxy">> \o StopServer \o StopWebsocket \o StopThreads \o <<"enable">>

\* The members go in the reverse of their order, the AsioManager at the very end.
Destructors == StopWebsocket \o StopServer \o StopThreads \o <<"leave">>

InEventLoop == process = "running" /\ calls = <<>> /\ window = "open"

Click(b) ==
    /\ InEventLoop /\ b \notin disabled
    /\ checked' = IF b \in checked THEN checked \ {b} ELSE checked \cup {b}
    /\ calls' = IF b \in checked THEN Disconnect ELSE Connect(b)
    /\ sender' = b
    /\ UNCHANGED <<disabled, window, proxy, client_server, websocket_server, process, asio>>

CloseWindow ==
    /\ InEventLoop /\ window' = "closed"
    /\ calls' = Destructors
    /\ UNCHANGED <<checked, disabled, sender, proxy, client_server, websocket_server, process, asio>>

-----------------------------------------------------------------------------
(* The calls *)

Calls(name) ==
    /\ process = "running" /\ calls # <<>> /\ Head(calls) = name
    /\ calls' = Tail(calls)

SetDisabled ==
    /\ \/ Calls("disable") /\ disabled' = disabled \cup {Other(sender)}
       \/ Calls("enable") /\ disabled' = disabled \ {Other(sender)}
    /\ UNCHANGED <<checked, sender, window, proxy, client_server, websocket_server, process, asio>>

\* The registry may refuse, and nobody looks.
SetProxyLocalConfig ==
    /\ \/ Calls("SetProxy") /\ proxy' \in {"on", proxy}
       \/ Calls("ClearProxy") /\ proxy' \in {"off", IF proxy = "off" THEN "off" ELSE "stuck"}
    /\ UNCHANGED <<checked, disabled, sender, window, client_server, websocket_server, process, asio>>

AsioCall ==
    /\ \/ Calls("StopIos") /\ StopIos
       \/ Calls("JoinThreads") /\ JoinThreads
       \/ Calls("ResetIos") /\ ResetIos
       \/ Calls("StartAllThreads") /\ StartAllThreads
    /\ UNCHANGED widget

\* A std::thread that is joinable must not be assigned.
Assign(thread) == process' = IF thread = "none" THEN "running" ELSE "terminated"

StartServer ==
    /\ Calls("StartServer")
    /\ client_server' = "bind" /\ Assign(client_server)
    /\ UNCHANGED <<checked, disabled, sender, window, proxy, websocket_server, asio>>

\* The acceptor is made here; if that fails there is no thread.
StartWebsocket ==
    /\ Calls("StartWebsocket")
    /\ \/ websocket_server' = "accept" /\ Assign(websocket_server)
       \/ UNCHANGED <<websocket_server, process>>
    /\ UNCHANGED <<checked, disabled, sender, window, proxy, client_server, asio>>

\* An acceptor that its thread has yet to make is not closed.
Close(thread) == IF thread = "accept" THEN "closed" ELSE thread

CloseServers ==
    /\ \/ /\ Calls("CloseServer")
          /\ client_server' = Close(client_server) /\ UNCHANGED websocket_server
       \/ /\ Calls("CloseWebsocket")
          /\ websocket_server' = Close(websocket_server) /\ UNCHANGED client_server
    /\ UNCHANGED <<checked, disabled, sender, window, proxy, process, asio>>

JoinServers ==
    /\ \/ /\ Calls("JoinServer") /\ client_server \in {"none", "done"}
          /\ client_server' = "none" /\ UNCHANGED websocket_server
       \/ /\ Calls("JoinWebsocket") /\ websocket_server \in {"none", "done"}
          /\ websocket_server' = "none" /\ UNCHANGED client_server
    /\ UNCHANGED <<checked, disabled, sender, window, proxy, process, asio>>

Leave ==
    /\ Calls("leave") /\ process' = "left"
    /\ UNCHANGED <<checked, disabled, sender, window, proxy, client_server, websocket_server, asio>>

-----------------------------------------------------------------------------
(* The accept threads: ClientServer's makes its acceptor, either may end,  *)
(* and ends once the acceptor is closed.                                   *)

ServerThread ==
    /\ process = "running"
    /\ \/ client_server = "bind" /\ client_server' \in {"accept", "done"}
       \/ client_server \in {"accept", "closed"} /\ client_server' = "done"
    /\ UNCHANGED <<checked, disabled, calls, sender, window, proxy, websocket_server, process, asio>>

WebsocketThread ==
    /\ process = "running"
    /\ websocket_server \in {"accept", "closed"} /\ websocket_server' = "done"
    /\ UNCHANGED <<checked, disabled, calls, sender, window, proxy, client_server, process, asio>>

UIThread ==
    \/ SetDisabled \/ SetProxyLocalConfig \/ AsioCall \/ StartServer \/ StartWebsocket
    \/ CloseServers \/ JoinServers \/ Leave

IoThreads ==
    /\ process = "running"
    /\ \E c \in Cores : IoThread(c)
    /\ UNCHANGED <<widget, calls>>

WindowNext ==
    \/ UIThread \/ IoThreads \/ ServerThread \/ WebsocketThread \/ CloseWindow
    \/ \E b \in Buttons : Click(b)

SafeSpec == WindowInit /\ [][WindowNext]_windowVars

(* The threads run; an acceptor that is open may wait for ever.            *)
WindowSpec ==
    /\ SafeSpec
    /\ WF_windowVars(UIThread) /\ WF_windowVars(IoThreads)
    /\ WF_windowVars(client_server \in {"bind", "closed"} /\ ServerThread)
    /\ WF_windowVars(websocket_server = "closed" /\ WebsocketThread)

-----------------------------------------------------------------------------

\* No sequence of clicks assigns a thread that is joinable, which would end the
\* process: each mode locks the other out, and each stop joins all that a start
\* assigned, whatever had failed or ended meanwhile (widget_main.cpp:28-82).
NeverTerminated == process # "terminated"

\* The system's proxy points here only while the second mode is on, and is not
\* left on by any order of the two modes, unless the registry refuses to clear
\* it (widget_main.cpp:43-46, :71-74) or the window is closed in that mode.
ProxyOnlyInItsMode ==
    window = "open" /\ calls = <<>> /\ proxy = "on" => "btn_main_connect_2" \in checked

\* Between two clicks the io_service runs on every thread of the list if a button is
\* down, however often it was stopped before (asio_manager.cpp:21-45), and if both
\* are up nothing is left running, whatever had failed meanwhile.
ThreadsFollowButtons ==
    InEventLoop =>
        IF checked = {}
        THEN {client_server, websocket_server} = {"none"} /\ \A c \in Cores : thread_list[c] = "none"
        ELSE ios = "runnable" /\ \A c \in Cores : thread_list[c] \in {"started", "running"}

\* Every handler returns, and so does the program, unless a stop has missed the
\* acceptor that the client server's thread was about to make.
HandlersReturn ==
    calls # <<>> ~>
        \/ calls = <<>> \/ process = "terminated"
        \/ client_server = "accept" /\ Head(calls) = "JoinServer"
=============================================================================
