-------------------------------- MODULE Tunnel --------------------------------
(***************************************************************************)
(* The bytes of one connection, from the browser to the target and back,   *)
(* while nobody closes: the two threads of the client's item               *)
(* (net_lib/client_socket_item.cpp) and the two of the server's            *)
(* (net_lib/server_socket_item.cpp), each reading one connection into a    *)
(* chunk and writing it to another.  Every write waits for room.           *)
(*                                                                         *)
(* ClientServer and WebsocketServer have the ends of a connection.         *)
(***************************************************************************)
EXTENDS Integers, Sequences

CONSTANTS
    Header,     \* the length of the request's header
    Sends,      \* bound: the bytes the browser sends, the header first
    Answers,    \* bound: the bytes the target sends
    Capacity,   \* what a connection holds, in bytes, or in websocket messages
    Chunk       \* the size of the buffer of one read

ASSUME BoundsAssumption ==
    /\ {Header, Sends, Answers, Capacity, Chunk} \subseteq Nat \ {0}
    /\ Header <= Sends

VARIABLES
    cmd, auto_proxy,        \* what the browser asks and how the client runs
    sent, answered,         \* bytes sent by the browser, by the target
    to_client, to_server, to_target,        \* the connections, upwards
    from_target, from_server, to_browser,   \* and downwards
    client_up, client_readed, client_chunk, \* SocketThreadFunc
    server_up, server_readed, server_chunk, \* WebsocketReadFunc
    server_down_chunk,                      \* SocketReadFunc
    client_down_chunk,                      \* WebSocketThreadFunc
    target_got, browser_got

client == <<client_up, client_readed, client_chunk>>
server == <<server_up, server_readed, server_chunk>>
ends == <<cmd, auto_proxy, sent, answered, target_got, browser_got>>
up == <<to_client, to_server, to_target, client, server>>
down == <<from_target, from_server, to_browser, server_down_chunk, client_down_chunk>>
vars == <<ends, up, down>>

\* The bytes of the browser are 1, 2, ..., those of the target negative, and
\* 0 stands for the text "200 Connection established".
Reply == <<0>>

Init ==
    /\ cmd \in {"CONNECT", "GET"} /\ auto_proxy \in BOOLEAN
    /\ sent = 0 /\ answered = 0
    /\ to_client = <<>> /\ to_server = <<>> /\ to_target = <<>>
    /\ from_target = <<>> /\ from_server = <<>> /\ to_browser = <<>>
    /\ client_up = IF auto_proxy THEN "header" ELSE "first"
    /\ client_readed = <<>> /\ client_chunk = <<>>
    /\ server_up = "first" /\ server_readed = <<>> /\ server_chunk = <<>>
    /\ server_down_chunk = <<>> /\ client_down_chunk = <<>>
    /\ target_got = <<>> /\ browser_got = <<>>

\* A websocket message: AesDecode(AesEncode(x)) is x, which AesCbc checks, also
\* of the empty message, which is sent as a block of zeros.
AesEncode(x) == [zeros |-> x = <<>>, cipher |-> x]

AesDecode(m) == IF m.zeros THEN <<>> ELSE m.cipher

HasRoom(connection) == Len(connection) < Capacity

\* read_some takes some of what has come.
ReadSome(from, to) ==
    \E n \in 1 .. Len(from) :
        /\ n <= Chunk
        /\ to' = to \o SubSeq(from, 1, n)
        /\ from' = SubSeq(from, n + 1, Len(from))

\* A write goes on until the connection has taken everything.
WriteSome(chunk, to) ==
    \E n \in 1 .. Len(chunk) :
        /\ Len(to) + n <= Capacity
        /\ to' = to \o SubSeq(chunk, 1, n)
        /\ chunk' = SubSeq(chunk, n + 1, Len(chunk))

ReadMessage(from, to) ==
    /\ from # <<>>
    /\ to' = to \o AesDecode(Head(from)) /\ from' = Tail(from)

WriteMessage(chunk, to) ==
    /\ HasRoom(to)
    /\ to' = Append(to, AesEncode(chunk)) /\ chunk' = <<>>

-----------------------------------------------------------------------------
(* The browser and the target.  After CONNECT the browser waits for the    *)
(* reply.                                                                  *)

BrowserSend ==
    /\ sent < Sends /\ HasRoom(to_client)
    /\ cmd = "GET" \/ sent < Header \/ browser_got # <<>>
    /\ sent' = sent + 1 /\ to_client' = Append(to_client, sent + 1)
    /\ UNCHANGED <<cmd, auto_proxy, answered, target_got, browser_got,
                   to_server, to_target, client, server, down>>

TargetSend ==
    /\ server_up \notin {"first", "connect"} /\ answered < Answers /\ HasRoom(from_target)
    /\ answered' = answered + 1 /\ from_target' = Append(from_target, -(answered + 1))
    /\ UNCHANGED <<cmd, auto_proxy, sent, target_got, browser_got, up,
                   from_server, to_browser, server_down_chunk, client_down_chunk>>

TargetRead ==
    /\ ReadSome(to_target, target_got)
    /\ UNCHANGED <<cmd, auto_proxy, sent, answered, browser_got,
                   to_client, to_server, client, server, down>>

BrowserRead ==
    /\ ReadSome(to_browser, browser_got)
    /\ UNCHANGED <<cmd, auto_proxy, sent, answered, target_got, up,
                   from_target, from_server, server_down_chunk, client_down_chunk>>

-----------------------------------------------------------------------------
(* SocketThreadFunc of the client: with auto_proxy it reads to the end of  *)
(* the first header; then it sends what it has, which may be nothing, and  *)
(* relays.                                                                 *)

ClientReadHeader ==
    /\ client_up = "header" /\ ReadSome(to_client, client_readed)
    /\ client_up' = IF Len(client_readed') >= Header THEN "first" ELSE "header"
    /\ UNCHANGED <<ends, to_server, to_target, client_chunk, server, down>>

ClientWriteFirst ==
    /\ client_up = "first" /\ WriteMessage(client_readed, to_server)
    /\ client_up' = "relay"
    /\ UNCHANGED <<ends, to_client, to_target, client_chunk, server, down>>

ClientReadSocket ==
    /\ client_up = "relay" /\ client_chunk = <<>>
    /\ ReadSome(to_client, client_chunk)
    /\ UNCHANGED <<ends, to_server, to_target, client_up, client_readed, server, down>>

ClientWebSocketWrite ==
    /\ client_chunk # <<>> /\ WriteMessage(client_chunk, to_server)
    /\ UNCHANGED <<ends, to_client, to_target, client_up, client_readed, server, down>>

(* WebSocketThreadFunc of the client, which the handshake precedes.        *)

ClientReadWebSocket ==
    /\ client_up # "header" /\ client_down_chunk = <<>>
    /\ ReadMessage(from_server, client_down_chunk)
    /\ UNCHANGED <<ends, up, from_target, to_browser, server_down_chunk>>

ClientSocketWrite ==
    /\ WriteSome(client_down_chunk, to_browser)
    /\ UNCHANGED <<ends, up, from_target, from_server, server_down_chunk>>

-----------------------------------------------------------------------------
(* WebsocketReadFunc and Decode of the server: messages are gathered until *)
(* the header is complete; then the target is dialled and greeted, the     *)
(* socket thread started, and the rest forwarded.                          *)

ServerReadFirst ==
    /\ server_up = "first" /\ ReadMessage(to_server, server_readed)
    /\ server_up' = IF Len(server_readed') >= Header THEN "connect" ELSE "first"
    /\ UNCHANGED <<ends, to_client, to_target, client, server_chunk, down>>

ServerConnect ==
    /\ server_up = "connect" /\ server_up' = "greet"
    /\ UNCHANGED <<ends, to_client, to_server, to_target, client, server_readed,
                   server_chunk, down>>

\* Mutant: the request is not passed on.
ServerGreet_Drops ==
    /\ server_up = "greet" /\ server_up' = "spawn"
    /\ IF cmd = "CONNECT"
       THEN HasRoom(from_server) /\ from_server' = Append(from_server, AesEncode(Reply))
       ELSE UNCHANGED from_server
    /\ server_readed' = <<>>
    /\ UNCHANGED <<ends, to_client, to_server, to_target, client, server_chunk,
                   from_target, to_browser, server_down_chunk, client_down_chunk>>

\* Of a CONNECT whatever came with the header is dropped.
ServerGreet ==
    /\ server_up = "greet" /\ server_up' = "spawn"
    /\ IF cmd = "CONNECT"
       THEN /\ HasRoom(from_server)
            /\ from_server' = Append(from_server, AesEncode(Reply)) /\ UNCHANGED server_chunk
       ELSE server_chunk' = server_readed /\ UNCHANGED from_server
    /\ server_readed' = <<>>
    /\ UNCHANGED <<ends, to_client, to_server, to_target, client,
                   from_target, to_browser, server_down_chunk, client_down_chunk>>

ServerSpawn ==
    /\ server_up = "spawn" /\ server_chunk = <<>> /\ server_up' = "relay"
    /\ UNCHANGED <<ends, to_client, to_server, to_target, client, server_readed,
                   server_chunk, down>>

ServerReadWebSocket ==
    /\ server_up = "relay" /\ server_chunk = <<>>
    /\ ReadMessage(to_server, server_chunk)
    /\ UNCHANGED <<ends, to_client, to_target, client, server_up, server_readed, down>>

ServerForward ==
    /\ WriteSome(server_chunk, to_target)
    /\ UNCHANGED <<ends, to_client, to_server, client, server_up, server_readed, down>>

(* SocketReadFunc of the server *)

\* Mutant: the socket thread runs before the reply is written.
ServerReadSocket_Early ==
    /\ server_up \in {"greet", "spawn", "relay"} /\ server_down_chunk = <<>>
    /\ ReadSome(from_target, server_down_chunk)
    /\ UNCHANGED <<ends, up, from_server, to_browser, client_down_chunk>>

ServerReadSocket ==
    /\ server_up = "relay" /\ server_down_chunk = <<>>
    /\ ReadSome(from_target, server_down_chunk)
    /\ UNCHANGED <<ends, up, from_server, to_browser, client_down_chunk>>

ServerWebSocketWrite ==
    /\ server_down_chunk # <<>> /\ WriteMessage(server_down_chunk, from_server)
    /\ UNCHANGED <<ends, up, from_target, to_browser, client_down_chunk>>

-----------------------------------------------------------------------------

ClientSocketThread ==
    ClientReadHeader \/ ClientWriteFirst \/ ClientReadSocket \/ ClientWebSocketWrite

ClientWebSocketThread == ClientReadWebSocket \/ ClientSocketWrite

ServerWebSocketThread ==
    \/ ServerReadFirst \/ ServerConnect \/ ServerGreet \/ ServerSpawn
    \/ ServerReadWebSocket \/ ServerForward

ServerSocketThread == ServerReadSocket \/ ServerWebSocketWrite

Next ==
    \/ BrowserSend \/ TargetSend \/ BrowserRead \/ TargetRead
    \/ ClientSocketThread \/ ClientWebSocketThread
    \/ ServerWebSocketThread \/ ServerSocketThread

(* The threads run; the two ends read what they are sent, and the browser  *)
(* completes its header.                                                   *)
Fairness ==
    /\ WF_vars(ClientSocketThread) /\ WF_vars(ClientWebSocketThread)
    /\ WF_vars(ServerWebSocketThread) /\ WF_vars(ServerSocketThread)
    /\ WF_vars(BrowserRead) /\ WF_vars(TargetRead)
    /\ WF_vars(BrowserSend /\ sent < Header)

Spec == Init /\ [][Next]_vars /\ Fairness

-----------------------------------------------------------------------------

\* The header of a CONNECT is for the server; the rest is for the target.
Skip == IF cmd = "CONNECT" THEN Header ELSE 0

ForTarget == [k \in 1 .. (IF sent > Skip THEN sent - Skip ELSE 0) |-> Skip + k]

\* The target receives what the browser sent, less the header of a CONNECT, in
\* order and completely, wherever the reads, the websocket messages and the
\* header's end cut the bytes (client_socket_item.cpp:59-126,
\* server_socket_item.cpp:150-163 and :195-252).
Upwards == INSTANCE ByteChannel WITH
    Byte <- 1..Sends, sent <- ForTarget, got <- target_got

ReachesTarget == Upwards!Spec

ForBrowser ==
    (IF cmd = "CONNECT" /\ server_up \notin {"first", "connect"} THEN Reply ELSE <<>>)
    \o [k \in 1..answered |-> -k]

\* The browser receives the reply to a CONNECT, and after it what the target
\* sent, in order and completely, though two threads of the server write the
\* websocket (server_socket_item.cpp:184 and :245).
Downwards == INSTANCE ByteChannel WITH
    Byte <- -Answers .. 0, sent <- ForBrowser, got <- browser_got

ReachesBrowser == Downwards!Spec
=============================================================================
