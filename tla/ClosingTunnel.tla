----------------------------- MODULE ClosingTunnel -----------------------------
(***************************************************************************)
(* A relayed connection whose ends close: what is in flight then arrives   *)
(* or is lost, and the closing goes on from hop to hop.                    *)
(*                                                                         *)
(* Two relays, the items of the client (net_lib/client_socket_item.cpp)    *)
(* and of the server (net_lib/server_socket_item.cpp), join three          *)
(* connections.  Tunnel has how the bytes are cut and how a connection     *)
(* begins; here both relays have started and a read moves one chunk.       *)
(***************************************************************************)
EXTENDS Naturals, Sequences

CONSTANTS
    Sends, Answers,     \* bounds: chunks of the browser, of the target
    Capacity,           \* of a connection, each way
    Deployments         \* the values of Linux

Relays == {"client", "server"}
Ways == {"up", "down"}      \* to the target, and back
Connections == {"browser", "websocket", "target"}

ASSUME BoundsAssumption ==
    {Sends, Answers} \subseteq Nat /\ Capacity \in Nat \ {0} /\ Deployments \subseteq SUBSET Relays

VARIABLES
    Linux,      \* the relays whose close does not end a blocked call
    conn,       \* what is under way, which ends are open, and how it has ended
    thread,     \* of each relay, the one that relays upwards and the other
    clear,      \* where each relay's Clear is
    reports,    \* the SendError threads ahead of their Clear
    late,       \* on Linux: closed, but not before a blocked call returns
    sent, answered,         \* by the browser, by the target
    target_got, browser_got \* chunks that have arrived

ends == <<sent, answered, target_got, browser_got>>
moves == <<conn, thread, clear, reports, late, ends>>
vars == <<Linux, moves>>

\* The connection that a relay's thread reads, and the one it writes.
From(r, way) == CASE r = "client" /\ way = "up" -> "browser"
                  [] r = "server" /\ way = "down" -> "target"
                  [] OTHER -> "websocket"
Other(way) == IF way = "up" THEN "down" ELSE "up"
To(r, way) == From(r, Other(way))

\* An end is named by the way its owner sends.
Init ==
    /\ Linux \in Deployments
    /\ conn = [c \in Connections |->
                  [up |-> <<>>, down |-> <<>>, open |-> Ways, shut |-> {}, reset |-> "no"]]
    /\ thread = [r \in Relays |-> [way \in Ways |-> [pc |-> "read", chunk |-> 0]]]
    /\ clear = [r \in Relays |-> "idle"] /\ reports = [r \in Relays |-> {}]
    /\ late = [r \in Relays |-> {}]
    /\ sent = 0 /\ answered = 0 /\ target_got = 0 /\ browser_got = 0

-----------------------------------------------------------------------------
(* TCP: a close lets what was sent arrive; what comes for a closed end     *)
(* resets the connection, and of what the closed end had sent, any part    *)
(* that was not yet read may be lost.                                      *)

HasRoom(c, way) == Len(conn[c][way]) < Capacity

\* The end that way comes from has ended it and all of it was read.
AtEnd(c, way) ==
    /\ conn[c][way] = <<>>
    /\ way \notin conn[c].open \/ way \in conn[c].shut \/ conn[c].reset = "yes"

Reset(c) ==
    \E end \in Ways \ conn[c].open :
        /\ conn[c][Other(end)] # <<>>
        /\ \E kept \in 0 .. Len(conn[c][end]) :
            conn' = [conn EXCEPT ![c] = [@ EXCEPT !.reset = "yes", ![Other(end)] = <<>>,
                                                  ![end] = SubSeq(conn[c][end], 1, kept)]]
        /\ UNCHANGED <<thread, clear, reports, late, ends>>

-----------------------------------------------------------------------------
(* The browser and the target *)

BrowserSend ==
    /\ sent < Sends /\ HasRoom("browser", "up") /\ conn["browser"].reset = "no"
    /\ "up" \in conn["browser"].open \ conn["browser"].shut
    /\ sent' = sent + 1
    /\ conn' = [conn EXCEPT !["browser"].up = Append(@, sent + 1)]
    /\ UNCHANGED <<thread, clear, reports, late, answered, target_got, browser_got>>

TargetSend ==
    /\ answered < Answers /\ HasRoom("target", "down") /\ conn["target"].reset = "no"
    /\ "down" \in conn["target"].open
    /\ answered' = answered + 1
    /\ conn' = [conn EXCEPT !["target"].down = Append(@, answered + 1)]
    /\ UNCHANGED <<thread, clear, reports, late, sent, target_got, browser_got>>

BrowserRead ==
    /\ conn["browser"].down # <<>> /\ "up" \in conn["browser"].open
    /\ browser_got' = Head(conn["browser"].down)
    /\ conn' = [conn EXCEPT !["browser"].down = Tail(@)]
    /\ UNCHANGED <<thread, clear, reports, late, sent, answered, target_got>>

TargetRead ==
    /\ conn["target"].up # <<>> /\ "down" \in conn["target"].open
    /\ target_got' = Head(conn["target"].up)
    /\ conn' = [conn EXCEPT !["target"].up = Tail(@)]
    /\ UNCHANGED <<thread, clear, reports, late, sent, answered, browser_got>>

\* The browser may also say that it sends no more, and go on reading.
EndsClose ==
    /\ \/ "up" \in conn["browser"].open
          /\ conn' = [conn EXCEPT !["browser"].open = @ \ {"up"}]
       \/ "up" \in conn["browser"].open \ conn["browser"].shut
          /\ conn' = [conn EXCEPT !["browser"].shut = {"up"}]
       \/ "down" \in conn["target"].open
          /\ conn' = [conn EXCEPT !["target"].open = @ \ {"down"}]
    /\ UNCHANGED <<thread, clear, reports, late, ends>>

-----------------------------------------------------------------------------
(* The relays' threads *)

\* The end of c that relay r owns, for the thread that reads c going way.
Mine(r, way) == Other(way) \in conn[From(r, way)].open
MineToWrite(r, way) == way \in conn[To(r, way)].open

Goes(r, way, pc, chunk) == thread' = [thread EXCEPT ![r][way] = [pc |-> pc, chunk |-> chunk]]

\* A blocked call returns: a close that came meanwhile takes effect.
Returns(r, c, now) ==
    IF c \in late[r]
    THEN /\ conn' = [now EXCEPT ![c].open = @ \ {IF From(r, "up") = c THEN "down" ELSE "up"}]
         /\ late' = [late EXCEPT ![r] = @ \ {c}]
    ELSE conn' = now /\ UNCHANGED late

\* Mutant: a read that meets the end with the last chunk is an error at once.
Read_DropsLast(r, way) ==
    LET c == From(r, way) IN
    /\ thread[r][way].pc = "read" /\ Mine(r, way) /\ conn[c][way] # <<>>
    /\ Returns(r, c, [conn EXCEPT ![c][way] = Tail(@)])
    /\ IF way \notin conn[c].open /\ Len(conn[c][way]) = 1
       THEN Goes(r, way, "error", 0) ELSE Goes(r, way, "write", Head(conn[c][way]))
    /\ UNCHANGED <<clear, reports, ends>>

\* Mutant: the next read does not wait for the write.
Read_Ahead(r, way) ==
    LET c == From(r, way) IN
    /\ thread[r][way].pc \in {"read", "write"} /\ Mine(r, way) /\ conn[c][way] # <<>>
    /\ Returns(r, c, [conn EXCEPT ![c][way] = Tail(@)])
    /\ Goes(r, way, "write", Head(conn[c][way]))
    /\ UNCHANGED <<clear, reports, ends>>

Read(r, way) ==
    LET c == From(r, way) IN
    /\ thread[r][way].pc = "read" /\ Mine(r, way) /\ conn[c][way] # <<>>
    /\ Returns(r, c, [conn EXCEPT ![c][way] = Tail(@)])
    /\ Goes(r, way, "write", Head(conn[c][way]))
    /\ UNCHANGED <<clear, reports, ends>>

ReadFails(r, way) ==
    /\ thread[r][way].pc = "read" /\ (~Mine(r, way) \/ AtEnd(From(r, way), way))
    /\ Returns(r, From(r, way), conn)
    /\ Goes(r, way, "error", 0)
    /\ UNCHANGED <<clear, reports, ends>>

Write(r, way) ==
    LET c == To(r, way) IN
    /\ thread[r][way].pc = "write" /\ MineToWrite(r, way)
    /\ conn[c].reset = "no" /\ HasRoom(c, way)
    /\ Returns(r, c, [conn EXCEPT ![c][way] = Append(@, thread[r][way].chunk)])
    /\ Goes(r, way, "read", 0)
    /\ UNCHANGED <<clear, reports, ends>>

\* The server's socket thread reports and reads on.
WriteFails(r, way) ==
    /\ thread[r][way].pc = "write"
    /\ ~MineToWrite(r, way) \/ conn[To(r, way)].reset = "yes"
    /\ Returns(r, To(r, way), conn)
    /\ IF r = "server" /\ way = "down"
       THEN Goes(r, way, "read", 0) /\ reports' = [reports EXCEPT ![r] = @ \cup {way}]
       ELSE Goes(r, way, "error", 0) /\ UNCHANGED reports
    /\ UNCHANGED <<clear, ends>>

SendError(r, way) ==
    /\ thread[r][way].pc = "error" /\ Goes(r, way, "done", 0)
    /\ reports' = [reports EXCEPT ![r] = @ \cup {way}]
    /\ UNCHANGED <<conn, clear, late, ends>>

-----------------------------------------------------------------------------
(* Clear, on the thread of a SendError: the relay's own socket is closed   *)
(* and the thread that reads it joined, then the websocket and the other.  *)

Outer(r) == IF r = "client" THEN "up" ELSE "down"

\* A thread may be inside a call on the connection.
Busy(r, c) == \E way \in Ways : \/ thread[r][way].pc = "read" /\ From(r, way) = c
                                \/ thread[r][way].pc = "write" /\ To(r, way) = c

Close(r, way) ==
    LET c == From(r, way) IN
    \/ /\ conn' = [conn EXCEPT ![c].open = @ \ {Other(way)}]
       /\ ~(r \in Linux /\ Busy(r, c))
       /\ UNCHANGED late
    \/ /\ r \in Linux /\ Busy(r, c) /\ late' = [late EXCEPT ![r] = @ \cup {c}]
       /\ UNCHANGED conn

\* Mutant: the other socket stays open until the threads have ended.
ClearBegin_KeepsSocket(r) ==
    /\ clear[r] = "idle"
    /\ \E way \in reports[r] : reports' = [reports EXCEPT ![r] = @ \ {way}]
    /\ clear' = [clear EXCEPT ![r] = "join_outer"]
    /\ UNCHANGED <<conn, late, thread, ends>>

ClearBegin(r) ==
    /\ clear[r] = "idle"
    /\ \E way \in reports[r] : reports' = [reports EXCEPT ![r] = @ \ {way}]
    /\ clear' = [clear EXCEPT ![r] = "join_outer"]
    /\ Close(r, Outer(r))
    /\ UNCHANGED <<thread, ends>>

\* Mutant: the websocket stays open while its thread is waited for.
ClearJoinOuter_KeepsWebSocket(r) ==
    /\ clear[r] = "join_outer" /\ thread[r][Outer(r)].pc = "done"
    /\ clear' = [clear EXCEPT ![r] = "join_inner"]
    /\ UNCHANGED <<conn, late, thread, reports, ends>>

ClearJoinOuter(r) ==
    /\ clear[r] = "join_outer" /\ thread[r][Outer(r)].pc = "done"
    /\ clear' = [clear EXCEPT ![r] = "join_inner"]
    /\ Close(r, Other(Outer(r)))
    /\ UNCHANGED <<thread, reports, ends>>

ClearJoinInner(r) ==
    /\ clear[r] = "join_inner" /\ thread[r][Other(Outer(r))].pc = "done"
    /\ clear' = [clear EXCEPT ![r] = "idle"]
    /\ UNCHANGED <<conn, thread, reports, late, ends>>

-----------------------------------------------------------------------------

Thread(r, way) ==
    Read(r, way) \/ ReadFails(r, way) \/ Write(r, way) \/ WriteFails(r, way) \/ SendError(r, way)

OnError(r) == ClearBegin(r) \/ ClearJoinOuter(r) \/ ClearJoinInner(r)

Next ==
    /\ UNCHANGED Linux
    /\ \/ BrowserSend \/ TargetSend \/ BrowserRead \/ TargetRead \/ EndsClose
       \/ \E c \in Connections : Reset(c)
       \/ \E r \in Relays : OnError(r) \/ \E way \in Ways : Thread(r, way)

(* The network, the threads and the readers go on; nobody has to send or   *)
(* to close.                                                               *)
Fairness ==
    /\ WF_moves(BrowserRead) /\ WF_moves(TargetRead)
    /\ \A c \in Connections : WF_moves(Reset(c))
    /\ \A r \in Relays : WF_moves(OnError(r)) /\ \A way \in Ways : WF_moves(Thread(r, way))

Spec == Init /\ [][Next]_vars /\ Fairness

-----------------------------------------------------------------------------

BrowserEnded == "up" \notin conn["browser"].open \ conn["browser"].shut
TargetEnded == "down" \notin conn["target"].open
BrowserSeesEnd == AtEnd("browser", "down")
TargetSeesEnd == AtEnd("target", "up")

\* Chunks arrive in order and none is left out, also when writes fail and their
\* thread reads on, or when a reset has eaten what was under way
\* (server_socket_item.cpp:184).
NoGap ==
    [][/\ browser_got' \in {browser_got, browser_got + 1}
       /\ target_got' \in {target_got, target_got + 1}]_vars

\* A browser that sees the end of an answer has all of it, unless it ended its own
\* sending, or sent something that the target has not read: then the closings of the
\* hops may meet it and reset (client_socket_item.cpp:41, :47).  A target that sees
\* the end of a request has all of it, unless it has closed, or sent something that
\* the browser has not read.  Where a close does not end blocked calls, more of both
\* may be lost.
WholeMessages ==
    Linux = {} =>
        /\ BrowserSeesEnd /\ ~BrowserEnded /\ target_got = sent => browser_got = answered
        /\ TargetSeesEnd /\ ~TargetEnded /\ browser_got = answered => target_got = sent

\* A close by the target reaches the browser where a close ends blocked calls; on
\* Linux the server's websocket thread keeps the websocket open, in its read,
\* until the browser sends or closes (server_socket_item.cpp:134).
CloseReachesBrowser ==
    TargetEnded ~> \/ BrowserSeesEnd \/ BrowserEnded
                   \/ "websocket" \in late["server"]

\* When both ends have closed, both items come to an end, with every socket.
Over ==
    /\ \A r \in Relays : \A way \in Ways : thread[r][way].pc = "done"
    /\ \A c \in Connections : conn[c].open = {}

ClosedEndsEverything ==
    "up" \notin conn["browser"].open /\ TargetEnded ~> Over
=============================================================================
