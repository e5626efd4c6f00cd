--------------------------- MODULE ClosingTunnelProofs ---------------------------
(***************************************************************************)
(* What a closing tunnel delivers, for any number of chunks and capacity   *)
(* of the connections (module ClosingTunnel).                              *)
(*                                                                         *)
(* Both ways are proved at once: a way leads from its source over two      *)
(* relays to its sink.                                                     *)
(***************************************************************************)
EXTENDS ClosingTunnel, TLAPS

Source(w) == IF w = "up" THEN "browser" ELSE "target"
Sink(w) == Source(Other(w))
First(w) == IF w = "up" THEN "client" ELSE "server"
Second(w) == First(Other(w))

Put(w) == IF w = "up" THEN sent ELSE answered
Got(w) == IF w = "up" THEN target_got ELSE browser_got
Line(c, w) == conn[c][w]
Pc(r, w) == thread[r][w].pc
Chunk(r, w) == thread[r][w].chunk

Connection == [up : Seq(Nat), down : Seq(Nat), open : SUBSET Ways, shut : SUBSET Ways,
               reset : {"no", "yes"}]

\* Only the browser says that it sends no more.
ShutOK == \A c \in Connections : conn[c].shut \subseteq (IF c = "browser" THEN {"up"} ELSE {})

TypeOK ==
    /\ ShutOK
    /\ Linux \in SUBSET Relays
    /\ conn \in [Connections -> Connection]
    /\ thread \in [Relays -> [Ways -> [pc : {"read", "write", "error", "done"}, chunk : Nat]]]
    /\ clear \in [Relays -> {"idle", "join_outer", "join_inner"}]
    /\ reports \in [Relays -> SUBSET Ways]
    /\ late \in [Relays -> SUBSET Connections]
    /\ sent \in Nat /\ answered \in Nat /\ target_got \in Nat /\ browser_got \in Nat

-----------------------------------------------------------------------------
(* What a step does, seen through these names *)

\* Nothing opens, and nothing is unreset.
Closing ==
    \A c \in Connections : /\ conn'[c].open \subseteq conn[c].open
                           /\ conn[c].reset = "yes" => conn'[c].reset = "yes"

LinesBut(c, w) ==
    \A d \in Connections, v \in Ways : d # c \/ v # w => Line(d, v)' = Line(d, v)

SameLines == \A d \in Connections, v \in Ways : Line(d, v)' = Line(d, v)

SameOpen == \A d \in Connections : conn'[d].open = conn[d].open

SameOtherwise == \A d \in Connections : conn'[d].reset = conn[d].reset /\ conn'[d].shut = conn[d].shut

\* A thread's step on its connections: a close that was late is the only other thing.
OnConnections(r) ==
    Closing /\ SameOtherwise /\ (late[r] = {} => SameOpen /\ late' = late)

Moves(r, w, pc, chunk) ==
    /\ thread'[r][w] = [pc |-> pc, chunk |-> chunk]
    /\ \A q \in Relays, v \in Ways : q # r \/ v # w => thread'[q][v] = thread[q][v]

SameThreads == \A q \in Relays, v \in Ways : thread'[q][v] = thread[q][v]

\* A close that came during the call is the only other thing.
LEMMA ReturnsEffect ==
    ASSUME TypeOK, NEW r \in Relays, NEW c \in Connections,
           NEW now \in [Connections -> Connection], Returns(r, c, now)
    PROVE  /\ conn' \in [Connections -> Connection]
           /\ late' \in [Relays -> SUBSET Connections]
           /\ \A d \in Connections : /\ conn'[d].open \subseteq now[d].open
                                     /\ conn'[d].reset = now[d].reset
                                     /\ conn'[d].shut = now[d].shut
                                     /\ conn'[d].up = now[d].up
                                     /\ conn'[d].down = now[d].down
           /\ late[r] = {} => conn' = now /\ late' = late
<1> DEFINE end == IF From(r, "up") = c THEN "down" ELSE "up"
<1>1. CASE c \in late[r]
  <2>1. /\ conn' = [now EXCEPT ![c].open = @ \ {end}]
        /\ late' = [late EXCEPT ![r] = @ \ {c}]
    BY <1>1 DEF Returns
  <2> HIDE DEF end
  <2>2. now[c] \in Connection
    OBVIOUS
  <2>3. \A d \in Connections : conn'[d] = IF d = c THEN [now[c] EXCEPT !.open = @ \ {end}] ELSE now[d]
    BY <2>1
  <2>4. [now[c] EXCEPT !.open = @ \ {end}] \in Connection
    BY <2>2 DEF Connection
  <2>5. conn' \in [Connections -> Connection]
    BY <2>1, <2>4
  <2>6. late' \in [Relays -> SUBSET Connections]
    BY <2>1 DEF TypeOK
  <2>7. ASSUME NEW d \in Connections
        PROVE  /\ conn'[d].open \subseteq now[d].open /\ conn'[d].reset = now[d].reset
               /\ conn'[d].shut = now[d].shut /\ conn'[d].up = now[d].up
               /\ conn'[d].down = now[d].down
    <3>1. CASE d = c
      <4>1. conn'[d] = [now[c] EXCEPT !.open = @ \ {end}]
        BY <2>3, <3>1
      <4> QED
        BY <2>2, <3>1, <4>1 DEF Connection
    <3>2. CASE d # c
      BY <2>3, <3>2
    <3> QED
      BY <3>1, <3>2
  <2> QED
    BY <1>1, <2>5, <2>6, <2>7
<1>2. CASE c \notin late[r]
  <2>1. conn' = now /\ late' = late
    BY <1>2 DEF Returns
  <2> QED
    BY <2>1 DEF TypeOK
<1> QED
  BY <1>1, <1>2

LEMMA FromTo ==
    ASSUME NEW r \in Relays, NEW w \in Ways
    PROVE  From(r, w) \in Connections /\ To(r, w) \in Connections
  BY DEF From, To, Other, Relays, Ways, Connections

LEMMA Topology ==
    ASSUME NEW w \in Ways
    PROVE  /\ Other(w) \in Ways /\ Other(Other(w)) = w /\ Other(w) # w
           /\ Ways = {w, Other(w)}
           /\ First(w) \in Relays /\ Second(w) \in Relays /\ First(w) # Second(w)
           /\ Relays = {First(w), Second(w)}
           /\ First(Other(w)) = Second(w) /\ Second(Other(w)) = First(w)
           /\ Source(w) = From(First(w), w) /\ To(First(w), w) = "websocket"
           /\ From(Second(w), w) = "websocket" /\ Sink(w) = To(Second(w), w)
           /\ Source(Other(w)) = Sink(w) /\ Sink(Other(w)) = Source(w)
           /\ Connections = {Source(w), "websocket", Sink(w)}
           /\ Source(w) # "websocket" /\ Sink(w) # "websocket" /\ Source(w) # Sink(w)
           /\ Outer(First(w)) = w /\ Outer(Second(w)) = Other(w)
  BY DEF From, To, Other, Source, Sink, First, Second, Relays, Ways, Connections, Outer

WithLine(c, w, s) == [conn EXCEPT ![c][w] = s]

LEMMA LineChange ==
    ASSUME TypeOK, NEW c \in Connections, NEW w \in Ways, NEW s \in Seq(Nat), NEW now,
           now = WithLine(c, w, s)
    PROVE  /\ now \in [Connections -> Connection]
           /\ now[c][w] = s
           /\ \A d \in Connections, v \in Ways : d # c \/ v # w => now[d][v] = conn[d][v]
           /\ \A d \in Connections : /\ now[d].open = conn[d].open
                                     /\ now[d].reset = conn[d].reset
                                     /\ now[d].shut = conn[d].shut
<1>0. conn \in [Connections -> Connection] /\ conn[c] \in Connection
  BY DEF TypeOK
<1>1. CASE w = "up"
  <2> DEFINE new == [conn[c] EXCEPT !.up = s]
  <2>1. now = [conn EXCEPT ![c] = new]
    BY <1>0, <1>1 DEF WithLine
  <2>2. /\ new \in Connection /\ new.up = s /\ new.down = conn[c].down
        /\ new.open = conn[c].open /\ new.reset = conn[c].reset /\ new.shut = conn[c].shut
    BY <1>0 DEF Connection
  <2> HIDE DEF new
  <2>3. /\ now \in [Connections -> Connection] /\ now[c] = new
        /\ \A d \in Connections : d # c => now[d] = conn[d]
    BY <1>0, <2>1, <2>2
  <2>4. \A d \in Connections, v \in Ways : d # c \/ v # w => now[d][v] = conn[d][v]
    BY <1>1, <2>2, <2>3 DEF Ways
  <2> QED
    BY <1>1, <2>2, <2>3, <2>4
<1>2. CASE w = "down"
  <2> DEFINE new == [conn[c] EXCEPT !.down = s]
  <2>1. now = [conn EXCEPT ![c] = new]
    BY <1>0, <1>2 DEF WithLine
  <2>2. /\ new \in Connection /\ new.down = s /\ new.up = conn[c].up
        /\ new.open = conn[c].open /\ new.reset = conn[c].reset /\ new.shut = conn[c].shut
    BY <1>0 DEF Connection
  <2> HIDE DEF new
  <2>3. /\ now \in [Connections -> Connection] /\ now[c] = new
        /\ \A d \in Connections : d # c => now[d] = conn[d]
    BY <1>0, <2>1, <2>2
  <2>4. \A d \in Connections, v \in Ways : d # c \/ v # w => now[d][v] = conn[d][v]
    BY <1>2, <2>2, <2>3 DEF Ways
  <2> QED
    BY <1>2, <2>2, <2>3, <2>4
<1> QED
  BY <1>1, <1>2 DEF Ways

LEMMA LineTypes ==
    ASSUME TypeOK, NEW c \in Connections, NEW w \in Ways
    PROVE  /\ Line(c, w) \in Seq(Nat) /\ Len(Line(c, w)) \in Nat
           /\ conn[c] \in Connection /\ conn[c].open \subseteq Ways
<1>1. conn[c] \in Connection
  BY DEF TypeOK
<1> QED
  BY <1>1 DEF Connection, Ways, Line

LEMMA ThreadTypes ==
    ASSUME TypeOK, NEW r \in Relays, NEW w \in Ways
    PROVE  Chunk(r, w) \in Nat /\ Pc(r, w) \in {"read", "write", "error", "done"}
  BY DEF TypeOK, Chunk, Pc

LEMMA GoesEffect ==
    ASSUME TypeOK, NEW r \in Relays, NEW w \in Ways,
           NEW pc \in {"read", "write", "error", "done"}, NEW chunk \in Nat, Goes(r, w, pc, chunk)
    PROVE  /\ Moves(r, w, pc, chunk)
           /\ thread' \in [Relays -> [Ways -> [pc : {"read", "write", "error", "done"}, chunk : Nat]]]
<1> DEFINE State == [pc : {"read", "write", "error", "done"}, chunk : Nat]
<1> DEFINE new == [pc |-> pc, chunk |-> chunk]
<1>1. thread \in [Relays -> [Ways -> State]] /\ new \in State
  BY DEF TypeOK
<1>2. thread' = [thread EXCEPT ![r][w] = new]
  BY DEF Goes
<1> HIDE DEF State, new
<1>3. thread' \in [Relays -> [Ways -> State]]
  BY <1>1, <1>2
<1>4. thread'[r][w] = new
  BY <1>1, <1>2
<1>5. \A q \in Relays, v \in Ways : q # r \/ v # w => thread'[q][v] = thread[q][v]
  BY <1>1, <1>2
<1> QED
  BY <1>3, <1>4, <1>5 DEF Moves, new, State

LEMMA ReturnsAfter ==
    ASSUME TypeOK, NEW r \in Relays, NEW c \in Connections, NEW w \in Ways,
           NEW s \in Seq(Nat), Returns(r, c, WithLine(c, w, s))
    PROVE  /\ conn' \in [Connections -> Connection] /\ late' \in [Relays -> SUBSET Connections]
           /\ ShutOK' /\ OnConnections(r) /\ LinesBut(c, w) /\ Line(c, w)' = s
<1>0. PICK now : now = WithLine(c, w, s)
  OBVIOUS
<1>1. /\ now \in [Connections -> Connection] /\ now[c][w] = s
      /\ \A d \in Connections, v \in Ways : d # c \/ v # w => now[d][v] = conn[d][v]
      /\ \A d \in Connections : /\ now[d].open = conn[d].open
                                /\ now[d].reset = conn[d].reset
                                /\ now[d].shut = conn[d].shut
  BY <1>0, LineChange
<1>2. Returns(r, c, now)
  BY <1>0
<1>3. /\ conn' \in [Connections -> Connection]
      /\ late' \in [Relays -> SUBSET Connections]
      /\ \A d \in Connections : /\ conn'[d].open \subseteq now[d].open
                                /\ conn'[d].reset = now[d].reset
                                /\ conn'[d].shut = now[d].shut
                                /\ conn'[d].up = now[d].up
                                /\ conn'[d].down = now[d].down
      /\ late[r] = {} => conn' = now /\ late' = late
  BY <1>1, <1>2, ReturnsEffect
<1>4. \A d \in Connections, v \in Ways : conn'[d][v] = now[d][v]
  BY <1>3 DEF Ways
<1>5. OnConnections(r)
  BY <1>1, <1>3 DEF OnConnections, Closing, SameOtherwise, SameOpen
<1>6. LinesBut(c, w) /\ Line(c, w)' = s
  BY <1>1, <1>4 DEF LinesBut, Line
<1>7. ShutOK'
  BY <1>1, <1>3 DEF ShutOK, TypeOK
<1> QED
  BY <1>3, <1>5, <1>6, <1>7

LEMMA ReturnsOnly ==
    ASSUME TypeOK, NEW r \in Relays, NEW c \in Connections, Returns(r, c, conn)
    PROVE  /\ conn' \in [Connections -> Connection] /\ late' \in [Relays -> SUBSET Connections]
           /\ ShutOK' /\ OnConnections(r) /\ SameLines
<1>1. conn \in [Connections -> Connection]
  BY DEF TypeOK
<1>2. /\ conn' \in [Connections -> Connection]
      /\ late' \in [Relays -> SUBSET Connections]
      /\ \A d \in Connections : /\ conn'[d].open \subseteq conn[d].open
                                /\ conn'[d].reset = conn[d].reset
                                /\ conn'[d].shut = conn[d].shut
                                /\ conn'[d].up = conn[d].up
                                /\ conn'[d].down = conn[d].down
      /\ late[r] = {} => conn' = conn /\ late' = late
  BY <1>1, ReturnsEffect
<1>3. \A d \in Connections, v \in Ways : conn'[d][v] = conn[d][v]
  BY <1>2 DEF Ways
<1>4. ShutOK'
  BY <1>2 DEF ShutOK, TypeOK
<1> QED
  BY <1>2, <1>3, <1>4 DEF OnConnections, Closing, SameOtherwise, SameOpen, SameLines, Line

-----------------------------------------------------------------------------
(* The steps of a relay's thread *)

Broken(c, w) == w \notin conn[c].open \/ conn[c].reset = "yes"

Reads(r, w) ==
    /\ Pc(r, w) = "read" /\ Line(From(r, w), w) # <<>>
    /\ Moves(r, w, "write", Head(Line(From(r, w), w)))
    /\ Line(From(r, w), w)' = Tail(Line(From(r, w), w)) /\ LinesBut(From(r, w), w)
    /\ OnConnections(r) /\ UNCHANGED <<clear, reports, ends>>

LEMMA ReadEffect ==
    ASSUME TypeOK, UNCHANGED Linux, NEW r \in Relays, NEW w \in Ways, Read(r, w)
    PROVE  TypeOK' /\ Reads(r, w)
<1> DEFINE c == From(r, w)
<1> DEFINE s == Line(c, w)
<1>1. c \in Connections /\ s \in Seq(Nat)
  BY FromTo, LineTypes
<1>2. /\ Pc(r, w) = "read" /\ s # <<>> /\ Goes(r, w, "write", Head(s))
      /\ Returns(r, c, [conn EXCEPT ![c][w] = Tail(conn[c][w])])
      /\ UNCHANGED <<clear, reports, ends>>
  BY DEF Read, Pc, Line
<1>3. Head(s) \in Nat /\ Tail(s) \in Seq(Nat)
  BY <1>1, <1>2
<1>4. Tail(conn[c][w]) = Tail(s)
  BY DEF Line
<1> HIDE DEF c, s
<1>5. Returns(r, c, WithLine(c, w, Tail(s)))
  BY <1>2, <1>4 DEF WithLine
<1>6. /\ conn' \in [Connections -> Connection] /\ late' \in [Relays -> SUBSET Connections]
      /\ ShutOK' /\ OnConnections(r) /\ LinesBut(c, w) /\ Line(c, w)' = Tail(s)
  BY <1>1, <1>3, <1>5, ReturnsAfter
<1>7. /\ Moves(r, w, "write", Head(s))
      /\ thread' \in [Relays -> [Ways -> [pc : {"read", "write", "error", "done"}, chunk : Nat]]]
  BY <1>2, <1>3, GoesEffect
<1>8. TypeOK'
  BY <1>2, <1>6, <1>7 DEF TypeOK, ends
<1> QED
  BY <1>2, <1>6, <1>7, <1>8 DEF Reads, c, s

Writes(r, w) ==
    /\ Pc(r, w) = "write" /\ ~Broken(To(r, w), w)
    /\ Moves(r, w, "read", 0)
    /\ Line(To(r, w), w)' = Append(Line(To(r, w), w), Chunk(r, w)) /\ LinesBut(To(r, w), w)
    /\ OnConnections(r) /\ UNCHANGED <<clear, reports, ends>>

LEMMA WriteEffect ==
    ASSUME TypeOK, UNCHANGED Linux, NEW r \in Relays, NEW w \in Ways, Write(r, w)
    PROVE  TypeOK' /\ Writes(r, w)
<1> DEFINE c == To(r, w)
<1> DEFINE s == Line(c, w)
<1>1. c \in Connections /\ s \in Seq(Nat) /\ Chunk(r, w) \in Nat
  BY FromTo, LineTypes, ThreadTypes
<1>2. /\ Pc(r, w) = "write" /\ ~Broken(c, w) /\ Goes(r, w, "read", 0)
      /\ Returns(r, c, WithLine(c, w, Append(s, Chunk(r, w))))
      /\ UNCHANGED <<clear, reports, ends>>
  <2>1. conn[c].reset = "no" /\ w \in conn[c].open
    BY DEF Write, MineToWrite
  <2> QED
    BY <2>1 DEF Write, Pc, Chunk, Line, WithLine, Broken
<1> HIDE DEF c, s
<1>3. Append(s, Chunk(r, w)) \in Seq(Nat)
  BY <1>1
<1>4. /\ conn' \in [Connections -> Connection] /\ late' \in [Relays -> SUBSET Connections]
      /\ ShutOK' /\ OnConnections(r) /\ LinesBut(c, w) /\ Line(c, w)' = Append(s, Chunk(r, w))
  BY <1>1, <1>2, <1>3, ReturnsAfter
<1>5. /\ Moves(r, w, "read", 0)
      /\ thread' \in [Relays -> [Ways -> [pc : {"read", "write", "error", "done"}, chunk : Nat]]]
  BY <1>2, GoesEffect
<1>6. TypeOK'
  BY <1>2, <1>4, <1>5 DEF TypeOK, ends
<1> QED
  BY <1>2, <1>4, <1>5, <1>6 DEF Writes, c, s

Gives(r, w) ==
    /\ Pc(r, w) = "read" /\ (~Mine(r, w) \/ AtEnd(From(r, w), w))
    /\ Moves(r, w, "error", 0)
    /\ SameLines /\ OnConnections(r) /\ UNCHANGED <<clear, reports, ends>>

LEMMA ReadFailsEffect ==
    ASSUME TypeOK, UNCHANGED Linux, NEW r \in Relays, NEW w \in Ways, ReadFails(r, w)
    PROVE  TypeOK' /\ Gives(r, w)
<1>1. /\ Pc(r, w) = "read" /\ (~Mine(r, w) \/ AtEnd(From(r, w), w)) /\ Goes(r, w, "error", 0)
      /\ Returns(r, From(r, w), conn) /\ UNCHANGED <<clear, reports, ends>>
  BY DEF ReadFails, Pc
<1>2. /\ conn' \in [Connections -> Connection] /\ late' \in [Relays -> SUBSET Connections]
      /\ ShutOK' /\ OnConnections(r) /\ SameLines
  BY <1>1, FromTo, ReturnsOnly
<1>3. /\ Moves(r, w, "error", 0)
      /\ thread' \in [Relays -> [Ways -> [pc : {"read", "write", "error", "done"}, chunk : Nat]]]
  BY <1>1, GoesEffect
<1>4. TypeOK'
  BY <1>1, <1>2, <1>3 DEF TypeOK, ends
<1> QED
  BY <1>1, <1>2, <1>3, <1>4 DEF Gives

Drops(r, w) ==
    /\ Pc(r, w) = "write" /\ Broken(To(r, w), w)
    /\ \/ /\ r = "server" /\ w = "down" /\ Moves(r, w, "read", 0)
          /\ reports' = [reports EXCEPT ![r] = @ \cup {w}]
       \/ /\ ~(r = "server" /\ w = "down") /\ Moves(r, w, "error", 0) /\ UNCHANGED reports
    /\ SameLines /\ OnConnections(r) /\ UNCHANGED <<clear, ends>>

LEMMA WriteFailsEffect ==
    ASSUME TypeOK, UNCHANGED Linux, NEW r \in Relays, NEW w \in Ways, WriteFails(r, w)
    PROVE  TypeOK' /\ Drops(r, w)
<1> DEFINE special == r = "server" /\ w = "down"
<1>1. /\ Pc(r, w) = "write" /\ Broken(To(r, w), w)
      /\ Returns(r, To(r, w), conn) /\ UNCHANGED <<clear, ends>>
  BY DEF WriteFails, Pc, Broken, MineToWrite
<1>2. \/ special /\ Goes(r, w, "read", 0) /\ reports' = [reports EXCEPT ![r] = @ \cup {w}]
      \/ ~special /\ Goes(r, w, "error", 0) /\ UNCHANGED reports
  BY DEF WriteFails
<1> HIDE DEF special
<1>3. /\ conn' \in [Connections -> Connection] /\ late' \in [Relays -> SUBSET Connections]
      /\ ShutOK' /\ OnConnections(r) /\ SameLines
  BY <1>1, FromTo, ReturnsOnly
<1>4. /\ thread' \in [Relays -> [Ways -> [pc : {"read", "write", "error", "done"}, chunk : Nat]]]
      /\ \/ special /\ Moves(r, w, "read", 0) /\ reports' = [reports EXCEPT ![r] = @ \cup {w}]
         \/ ~special /\ Moves(r, w, "error", 0) /\ UNCHANGED reports
  BY <1>2, GoesEffect
<1>5. reports' \in [Relays -> SUBSET Ways]
  BY <1>4 DEF TypeOK
<1>6. TypeOK'
  BY <1>1, <1>3, <1>4, <1>5 DEF TypeOK, ends
<1> QED
  BY <1>1, <1>3, <1>4, <1>6 DEF Drops, special

Reports(r, w) ==
    /\ Pc(r, w) = "error" /\ Moves(r, w, "done", 0)
    /\ reports' = [reports EXCEPT ![r] = @ \cup {w}]
    /\ UNCHANGED <<conn, clear, late, ends>>

LEMMA SendErrorEffect ==
    ASSUME TypeOK, UNCHANGED Linux, NEW r \in Relays, NEW w \in Ways, SendError(r, w)
    PROVE  TypeOK' /\ Reports(r, w)
<1>1. /\ Pc(r, w) = "error" /\ Goes(r, w, "done", 0)
      /\ reports' = [reports EXCEPT ![r] = @ \cup {w}]
      /\ UNCHANGED <<conn, clear, late, ends>>
  BY DEF SendError, Pc
<1>2. /\ Moves(r, w, "done", 0)
      /\ thread' \in [Relays -> [Ways -> [pc : {"read", "write", "error", "done"}, chunk : Nat]]]
  BY <1>1, GoesEffect
<1>3. reports' \in [Relays -> SUBSET Ways]
  BY <1>1 DEF TypeOK
<1>4. TypeOK'
  BY <1>1, <1>2, <1>3 DEF TypeOK, ShutOK, ends
<1> QED
  BY <1>1, <1>2, <1>4 DEF Reports

-----------------------------------------------------------------------------
(* The steps of the browser, the target and the network *)

Ended(w) == w \notin conn[Source(w)].open \ conn[Source(w)].shut

SameEnds == \A v \in Ways : Put(v)' = Put(v) /\ Got(v)' = Got(v)

Sending(w) ==
    /\ ~Broken(Source(w), w) /\ ~Ended(w)
    /\ Line(Source(w), w)' = Append(Line(Source(w), w), Put(w) + 1) /\ LinesBut(Source(w), w)
    /\ Put(w)' = Put(w) + 1 /\ Put(Other(w))' = Put(Other(w))
    /\ \A v \in Ways : Got(v)' = Got(v)
    /\ SameOpen /\ SameOtherwise /\ UNCHANGED <<thread, clear, reports, late>>

LEMMA EndTypes ==
    ASSUME TypeOK, NEW w \in Ways
    PROVE  Put(w) \in Nat /\ Got(w) \in Nat
  BY DEF TypeOK, Put, Got

LEMMA LineStep ==
    ASSUME TypeOK, NEW c \in Connections, NEW w \in Ways, NEW s \in Seq(Nat),
           conn' = WithLine(c, w, s)
    PROVE  /\ conn' \in [Connections -> Connection] /\ ShutOK'
           /\ Line(c, w)' = s /\ LinesBut(c, w) /\ SameOpen /\ SameOtherwise
<1>1. PICK now : now = WithLine(c, w, s)
  OBVIOUS
<1>2. /\ now \in [Connections -> Connection] /\ now[c][w] = s
      /\ \A d \in Connections, v \in Ways : d # c \/ v # w => now[d][v] = conn[d][v]
      /\ \A d \in Connections : /\ now[d].open = conn[d].open
                                /\ now[d].reset = conn[d].reset
                                /\ now[d].shut = conn[d].shut
  BY <1>1, LineChange
<1>3. conn' = now
  BY <1>1
<1>4. ShutOK'
  BY <1>2, <1>3 DEF ShutOK, TypeOK
<1> QED
  BY <1>2, <1>3, <1>4 DEF Line, LinesBut, SameOpen, SameOtherwise

LEMMA SendEffect ==
    ASSUME TypeOK, UNCHANGED Linux, BrowserSend \/ TargetSend
    PROVE  TypeOK' /\ \E w \in Ways : Sending(w)
<1> DEFINE Send(w) ==
        /\ ~Broken(Source(w), w) /\ ~Ended(w)
        /\ conn' = WithLine(Source(w), w, Append(Line(Source(w), w), Put(w) + 1))
        /\ Put(w)' = Put(w) + 1 /\ Put(Other(w))' = Put(Other(w))
        /\ UNCHANGED <<thread, clear, reports, late, target_got, browser_got>>
<1>1. conn["target"].shut = {}
  BY DEF TypeOK, ShutOK, Connections
<1>2. BrowserSend => Send("up") /\ answered' = answered
  BY DEF BrowserSend, Source, Line, Put, Other, WithLine, Broken, Ended
<1>3. TargetSend => Send("down") /\ sent' = sent
  BY <1>1 DEF TargetSend, Source, Line, Put, Other, WithLine, Broken, Ended
<1>4. PICK w \in Ways : Send(w)
  BY <1>2, <1>3 DEF Ways
<1>5. Append(Line(Source(w), w), Put(w) + 1) \in Seq(Nat) /\ Source(w) \in Connections
  BY Topology, LineTypes, EndTypes
<1>6. /\ conn' \in [Connections -> Connection] /\ ShutOK' /\ SameOpen /\ SameOtherwise
      /\ Line(Source(w), w)' = Append(Line(Source(w), w), Put(w) + 1) /\ LinesBut(Source(w), w)
  BY <1>4, <1>5, LineStep
<1>7. sent' \in Nat /\ answered' \in Nat
  BY <1>4 DEF TypeOK, Put, Other, Ways
<1>8. TypeOK'
  BY <1>4, <1>6, <1>7 DEF TypeOK
<1>9. \A v \in Ways : Got(v)' = Got(v)
  BY <1>4 DEF Got
<1>10. Sending(w)
  BY <1>4, <1>6, <1>9 DEF Sending
<1> QED
  BY <1>8, <1>10

Receiving(w) ==
    /\ Line(Sink(w), w) # <<>> /\ Other(w) \in conn[Sink(w)].open
    /\ Line(Sink(w), w)' = Tail(Line(Sink(w), w)) /\ LinesBut(Sink(w), w)
    /\ Got(w)' = Head(Line(Sink(w), w)) /\ Got(Other(w))' = Got(Other(w))
    /\ \A v \in Ways : Put(v)' = Put(v)
    /\ SameOpen /\ SameOtherwise /\ UNCHANGED <<thread, clear, reports, late>>

LEMMA ReceiveEffect ==
    ASSUME TypeOK, UNCHANGED Linux, BrowserRead \/ TargetRead
    PROVE  TypeOK' /\ \E w \in Ways : Receiving(w)
<1> DEFINE Receive(w) ==
        /\ Line(Sink(w), w) # <<>> /\ Other(w) \in conn[Sink(w)].open
        /\ conn' = WithLine(Sink(w), w, Tail(Line(Sink(w), w)))
        /\ Got(w)' = Head(Line(Sink(w), w)) /\ Got(Other(w))' = Got(Other(w))
        /\ UNCHANGED <<thread, clear, reports, late, sent, answered>>
<1>1. BrowserRead => Receive("down")
  BY DEF BrowserRead, Source, Sink, Line, Got, Other, WithLine
<1>2. TargetRead => Receive("up")
  BY DEF TargetRead, Source, Sink, Line, Got, Other, WithLine
<1>3. PICK w \in Ways : Receive(w)
  BY <1>1, <1>2 DEF Ways
<1>4. Sink(w) \in Connections /\ Line(Sink(w), w) \in Seq(Nat)
  BY Topology, LineTypes
<1>5. Tail(Line(Sink(w), w)) \in Seq(Nat) /\ Head(Line(Sink(w), w)) \in Nat
  BY <1>3, <1>4
<1>6. /\ conn' \in [Connections -> Connection] /\ ShutOK' /\ SameOpen /\ SameOtherwise
      /\ Line(Sink(w), w)' = Tail(Line(Sink(w), w)) /\ LinesBut(Sink(w), w)
  BY <1>3, <1>4, <1>5, LineStep
<1>7. target_got' \in Nat /\ browser_got' \in Nat
  BY <1>3, <1>5 DEF TypeOK, Got, Other, Ways
<1>8. TypeOK'
  BY <1>3, <1>6, <1>7 DEF TypeOK
<1>9. \A v \in Ways : Put(v)' = Put(v)
  BY <1>3 DEF Put
<1>10. Receiving(w)
  BY <1>3, <1>6, <1>9 DEF Receiving
<1> QED
  BY <1>8, <1>10

\* An end closes for its owner, or is said to send no more.
Ending(w) ==
    /\ SameLines /\ SameEnds
    /\ \A d \in Connections : conn'[d].reset = conn[d].reset /\ conn[d].shut \subseteq conn'[d].shut
    /\ \A d \in Connections : d # Source(w) =>
            conn'[d].open = conn[d].open /\ conn'[d].shut = conn[d].shut
    /\ \/ conn'[Source(w)].open = conn[Source(w)].open \ {w}
          /\ conn'[Source(w)].shut = conn[Source(w)].shut
       \/ conn'[Source(w)].open = conn[Source(w)].open
          /\ conn'[Source(w)].shut = {w}
    /\ UNCHANGED <<thread, clear, reports, late>>

\* Another set of open ends, or of ends that send no more, for one connection.
LEMMA OpenStep ==
    ASSUME TypeOK, NEW c \in Connections, NEW open \in SUBSET conn[c].open,
           conn' = [conn EXCEPT ![c].open = open]
    PROVE  /\ conn' \in [Connections -> Connection] /\ ShutOK' /\ SameLines /\ SameOtherwise
           /\ conn'[c].open = open /\ Closing
           /\ \A d \in Connections : d # c => conn'[d].open = conn[d].open
<1> DEFINE new == [conn[c] EXCEPT !.open = open]
<1>1. conn \in [Connections -> Connection] /\ conn[c] \in Connection /\ conn' = [conn EXCEPT ![c] = new]
  BY DEF TypeOK
<1>2. /\ new \in Connection /\ new.up = conn[c].up /\ new.down = conn[c].down
      /\ new.open = open /\ new.reset = conn[c].reset /\ new.shut = conn[c].shut
  BY <1>1 DEF Connection
<1> HIDE DEF new
<1>3. /\ conn' \in [Connections -> Connection] /\ conn'[c] = new
      /\ \A d \in Connections : d # c => conn'[d] = conn[d]
  BY <1>1, <1>2
<1>4. SameLines
  BY <1>2, <1>3 DEF SameLines, Line, Ways
<1>5. SameOtherwise
  BY <1>2, <1>3 DEF SameOtherwise
<1>6. ShutOK'
  BY <1>5 DEF ShutOK, SameOtherwise, TypeOK
<1>7. Closing
  BY <1>2, <1>3 DEF Closing
<1> QED
  BY <1>2, <1>3, <1>4, <1>5, <1>6, <1>7

LEMMA ShutStep ==
    ASSUME TypeOK, conn' = [conn EXCEPT !["browser"].shut = {"up"}]
    PROVE  /\ conn' \in [Connections -> Connection] /\ ShutOK' /\ SameLines /\ SameOpen
           /\ conn'["browser"].shut = {"up"}
           /\ \A d \in Connections : conn'[d].reset = conn[d].reset
           /\ \A d \in Connections : d # "browser" => conn'[d].shut = conn[d].shut
<1> DEFINE new == [conn["browser"] EXCEPT !.shut = {"up"}]
<1>1. /\ conn \in [Connections -> Connection] /\ conn["browser"] \in Connection
      /\ conn' = [conn EXCEPT !["browser"] = new] /\ "browser" \in Connections
  BY DEF TypeOK, Connections
<1>2. /\ new \in Connection /\ new.up = conn["browser"].up /\ new.down = conn["browser"].down
      /\ new.open = conn["browser"].open /\ new.reset = conn["browser"].reset
      /\ new.shut = {"up"}
  BY <1>1 DEF Connection, Ways
<1> HIDE DEF new
<1>3. /\ conn' \in [Connections -> Connection] /\ conn'["browser"] = new
      /\ \A d \in Connections : d # "browser" => conn'[d] = conn[d]
  BY <1>1, <1>2
<1>4. SameLines
  BY <1>2, <1>3 DEF SameLines, Line, Ways
<1>5. SameOpen
  BY <1>2, <1>3 DEF SameOpen
<1>6. ShutOK'
  BY <1>2, <1>3 DEF ShutOK, TypeOK
<1> QED
  BY <1>2, <1>3, <1>4, <1>5, <1>6

LEMMA EndsCloseEffect ==
    ASSUME TypeOK, UNCHANGED Linux, EndsClose
    PROVE  TypeOK' /\ \E w \in Ways : Ending(w)
<1>1. UNCHANGED <<thread, clear, reports, late, ends>>
  BY DEF EndsClose
<1>2. SameEnds
  BY <1>1 DEF SameEnds, Put, Got, ends
<1>3. ASSUME NEW w \in Ways, conn' = [conn EXCEPT ![Source(w)].open = @ \ {w}]
      PROVE  TypeOK' /\ Ending(w)
  <2>1. conn[Source(w)].open \ {w} \in SUBSET conn[Source(w)].open /\ Source(w) \in Connections
    BY Topology
  <2>2. /\ conn' \in [Connections -> Connection] /\ ShutOK' /\ SameLines /\ SameOtherwise
        /\ conn'[Source(w)].open = conn[Source(w)].open \ {w}
        /\ \A d \in Connections : d # Source(w) => conn'[d].open = conn[d].open
    BY <1>3, <2>1, OpenStep
  <2>3. TypeOK'
    BY <1>1, <2>2 DEF TypeOK, ends
  <2> QED
    BY <1>1, <1>2, <2>1, <2>2, <2>3 DEF Ending, SameOtherwise
<1>4. ASSUME conn' = [conn EXCEPT !["browser"].shut = {"up"}]
      PROVE  TypeOK' /\ Ending("up")
  <2>1. /\ conn' \in [Connections -> Connection] /\ ShutOK' /\ SameLines /\ SameOpen
        /\ conn'["browser"].shut = {"up"}
        /\ \A d \in Connections : conn'[d].reset = conn[d].reset
        /\ \A d \in Connections : d # "browser" => conn'[d].shut = conn[d].shut
    BY <1>4, ShutStep
  <2>2. TypeOK'
    BY <1>1, <2>1 DEF TypeOK, ends
  <2>3. conn["browser"].shut \subseteq {"up"} /\ Source("up") = "browser" /\ "browser" \in Connections
    BY DEF TypeOK, ShutOK, Connections, Source
  <2> QED
    BY <1>1, <1>2, <2>1, <2>2, <2>3 DEF Ending, SameOpen
<1>5. \/ conn' = [conn EXCEPT ![Source("up")].open = @ \ {"up"}]
      \/ conn' = [conn EXCEPT ![Source("down")].open = @ \ {"down"}]
      \/ conn' = [conn EXCEPT !["browser"].shut = {"up"}]
  BY DEF EndsClose, Source
<1> QED
  BY <1>3, <1>4, <1>5 DEF Ways

\* A reset: of either way no more than the first chunks are left.
Resetting(c) ==
    /\ \E end \in Ways \ conn[c].open : Line(c, Other(end)) # <<>>
    /\ conn'[c].reset = "yes"
    /\ \A w \in Ways : \E n \in 0 .. Len(Line(c, w)) : Line(c, w)' = SubSeq(Line(c, w), 1, n)
    /\ \A d \in Connections : d # c => conn'[d] = conn[d]
    /\ SameOpen /\ \A d \in Connections : conn'[d].shut = conn[d].shut
    /\ SameEnds /\ UNCHANGED <<thread, clear, reports, late>>

LEMMA ResetEffect ==
    ASSUME TypeOK, UNCHANGED Linux, NEW c \in Connections, Reset(c)
    PROVE  TypeOK' /\ Resetting(c)
<1>1. PICK end \in Ways \ conn[c].open :
        /\ conn[c][Other(end)] # <<>>
        /\ \E kept \in 0 .. Len(conn[c][end]) :
            conn' = [conn EXCEPT ![c] = [@ EXCEPT !.reset = "yes", ![Other(end)] = <<>>,
                                                  ![end] = SubSeq(conn[c][end], 1, kept)]]
        /\ UNCHANGED <<thread, clear, reports, late, ends>>
  BY DEF Reset
<1>2. PICK kept \in 0 .. Len(conn[c][end]) :
        conn' = [conn EXCEPT ![c] = [@ EXCEPT !.reset = "yes", ![Other(end)] = <<>>,
                                              ![end] = SubSeq(conn[c][end], 1, kept)]]
  BY <1>1
<1> DEFINE new == [conn[c] EXCEPT !.reset = "yes", ![Other(end)] = <<>>, ![end] = SubSeq(conn[c][end], 1, kept)]
<1>3. conn \in [Connections -> Connection] /\ conn[c] \in Connection
  BY DEF TypeOK
<1>4. \A w \in Ways : /\ conn[c][w] \in Seq(Nat) /\ SubSeq(conn[c][w], 1, 0) = <<>>
                      /\ 0 \in 0 .. Len(conn[c][w])
                      /\ \A n \in 0 .. Len(conn[c][w]) : SubSeq(conn[c][w], 1, n) \in Seq(Nat)
  BY LineTypes DEF Line
<1>5. /\ new \in Connection /\ new[end] = SubSeq(conn[c][end], 1, kept) /\ new[Other(end)] = <<>>
      /\ new.open = conn[c].open /\ new.reset = "yes" /\ new.shut = conn[c].shut
  <2>1. CASE end = "up"
    BY <1>3, <1>4, <2>1 DEF Connection, Other, Ways
  <2>2. CASE end = "down"
    BY <1>3, <1>4, <2>2 DEF Connection, Other, Ways
  <2> QED
    BY <2>1, <2>2 DEF Ways
<1>6. conn' = [conn EXCEPT ![c] = new]
  BY <1>2
<1> HIDE DEF new
<1>7. /\ conn' \in [Connections -> Connection] /\ conn'[c] = new
      /\ \A d \in Connections : d # c => conn'[d] = conn[d]
  BY <1>3, <1>5, <1>6
<1>8. \A w \in Ways : \E n \in 0 .. Len(Line(c, w)) : Line(c, w)' = SubSeq(Line(c, w), 1, n)
  <2>1. Line(c, end)' = SubSeq(Line(c, end), 1, kept) /\ kept \in 0 .. Len(Line(c, end))
    BY <1>5, <1>7 DEF Line
  <2>2. /\ Line(c, Other(end))' = SubSeq(Line(c, Other(end)), 1, 0)
        /\ 0 \in 0 .. Len(Line(c, Other(end)))
    BY <1>4, <1>5, <1>7, Topology DEF Line
  <2> QED
    BY <2>1, <2>2, Topology
<1>9. SameOpen /\ (\A d \in Connections : conn'[d].shut = conn[d].shut)
  BY <1>5, <1>7 DEF SameOpen
<1>10. ShutOK'
  BY <1>9 DEF ShutOK, TypeOK
<1>11. TypeOK' /\ SameEnds
  BY <1>1, <1>7, <1>10 DEF TypeOK, ends, SameEnds, Put, Got
<1> QED
  BY <1>1, <1>5, <1>7, <1>8, <1>9, <1>11 DEF Resetting, Line

-----------------------------------------------------------------------------
(* The steps of Clear *)

Closes(r, w) ==
    /\ SameLines /\ SameOtherwise /\ Closing /\ SameEnds /\ UNCHANGED thread
    /\ \A d \in Connections : d # From(r, w) => conn'[d].open = conn[d].open
    /\ Linux = {} => late' = late /\ conn'[From(r, w)].open = conn[From(r, w)].open \ {Other(w)}

LEMMA CloseEffect ==
    ASSUME TypeOK, NEW r \in Relays, NEW w \in Ways, Close(r, w), UNCHANGED <<thread, ends>>
    PROVE  /\ conn' \in [Connections -> Connection] /\ ShutOK'
           /\ late' \in [Relays -> SUBSET Connections] /\ Closes(r, w)
<1> DEFINE c == From(r, w)
<1>0. c \in Connections /\ SameEnds
  BY FromTo DEF SameEnds, Put, Got, ends
<1>1. \/ conn' = [conn EXCEPT ![c].open = @ \ {Other(w)}] /\ UNCHANGED late
      \/ r \in Linux /\ late' = [late EXCEPT ![r] = @ \cup {c}] /\ UNCHANGED conn
  BY DEF Close
<1> HIDE DEF c
<1>2. CASE conn' = [conn EXCEPT ![c].open = @ \ {Other(w)}] /\ UNCHANGED late
  <2>1. conn[c].open \ {Other(w)} \in SUBSET conn[c].open
    OBVIOUS
  <2>2. /\ conn' \in [Connections -> Connection] /\ ShutOK' /\ SameLines /\ SameOtherwise
        /\ conn'[c].open = conn[c].open \ {Other(w)} /\ Closing
        /\ \A d \in Connections : d # c => conn'[d].open = conn[d].open
    BY <1>0, <1>2, <2>1, OpenStep
  <2>3. late' \in [Relays -> SUBSET Connections]
    BY <1>2 DEF TypeOK
  <2> QED
    BY <1>0, <1>2, <2>2, <2>3 DEF Closes, c
<1>3. CASE r \in Linux /\ late' = [late EXCEPT ![r] = @ \cup {c}] /\ UNCHANGED conn
  <2>1. late' \in [Relays -> SUBSET Connections]
    BY <1>0, <1>3 DEF TypeOK
  <2>2. SameLines /\ SameOtherwise /\ Closing
    BY <1>3 DEF SameLines, SameOtherwise, Closing, Line
  <2>3. ShutOK' /\ conn' \in [Connections -> Connection]
    BY <1>3 DEF ShutOK, TypeOK
  <2> QED
    BY <1>0, <1>3, <2>1, <2>2, <2>3 DEF Closes
<1> QED
  BY <1>1, <1>2, <1>3

Clears(r) ==
    /\ \A q \in Relays : q # r => clear'[q] = clear[q] /\ reports'[q] = reports[q]
    /\ reports'[r] \subseteq reports[r]
    /\ \/ clear[r] = "idle" /\ reports[r] # {} /\ clear'[r] = "join_outer" /\ Closes(r, Outer(r))
       \/ clear[r] = "join_outer" /\ clear'[r] = "join_inner" /\ Closes(r, Other(Outer(r)))
       \/ clear[r] = "join_inner" /\ clear'[r] = "idle" /\ UNCHANGED <<conn, late, thread>> /\ SameEnds

LEMMA ClearEffect ==
    ASSUME TypeOK, UNCHANGED Linux, NEW r \in Relays, OnError(r)
    PROVE  TypeOK' /\ Clears(r)
<1>0. Outer(r) \in Ways /\ Other(Outer(r)) \in Ways
  BY DEF Outer, Other, Ways
<1>1. CASE ClearBegin(r)
  <2>1. PICK way \in reports[r] : reports' = [reports EXCEPT ![r] = @ \ {way}]
    BY <1>1 DEF ClearBegin
  <2>2. /\ clear[r] = "idle" /\ clear' = [clear EXCEPT ![r] = "join_outer"]
        /\ Close(r, Outer(r)) /\ UNCHANGED <<thread, ends>>
    BY <1>1 DEF ClearBegin
  <2>3. /\ conn' \in [Connections -> Connection] /\ ShutOK'
        /\ late' \in [Relays -> SUBSET Connections] /\ Closes(r, Outer(r))
    BY <1>0, <2>2, CloseEffect
  <2>4. /\ reports' \in [Relays -> SUBSET Ways] /\ reports'[r] \subseteq reports[r]
        /\ \A q \in Relays : q # r => reports'[q] = reports[q]
    BY <2>1 DEF TypeOK
  <2>5. /\ clear' \in [Relays -> {"idle", "join_outer", "join_inner"}] /\ clear'[r] = "join_outer"
        /\ \A q \in Relays : q # r => clear'[q] = clear[q]
    BY <2>2 DEF TypeOK
  <2>6. TypeOK'
    BY <2>2, <2>3, <2>4, <2>5 DEF TypeOK, ends
  <2> QED
    BY <2>1, <2>2, <2>3, <2>4, <2>5, <2>6 DEF Clears
<1>2. CASE ClearJoinOuter(r)
  <2>1. /\ clear[r] = "join_outer" /\ clear' = [clear EXCEPT ![r] = "join_inner"]
        /\ Close(r, Other(Outer(r))) /\ UNCHANGED <<thread, reports, ends>>
    BY <1>2 DEF ClearJoinOuter
  <2>2. /\ conn' \in [Connections -> Connection] /\ ShutOK'
        /\ late' \in [Relays -> SUBSET Connections] /\ Closes(r, Other(Outer(r)))
    BY <1>0, <2>1, CloseEffect
  <2>3. /\ clear' \in [Relays -> {"idle", "join_outer", "join_inner"}] /\ clear'[r] = "join_inner"
        /\ \A q \in Relays : q # r => clear'[q] = clear[q]
    BY <2>1 DEF TypeOK
  <2>4. TypeOK'
    BY <2>1, <2>2, <2>3 DEF TypeOK, ends
  <2> QED
    BY <2>1, <2>2, <2>3, <2>4 DEF Clears
<1>3. CASE ClearJoinInner(r)
  <2>1. /\ clear[r] = "join_inner" /\ clear' = [clear EXCEPT ![r] = "idle"]
        /\ UNCHANGED <<conn, late, thread, reports, ends>>
    BY <1>3 DEF ClearJoinInner
  <2>2. /\ clear' \in [Relays -> {"idle", "join_outer", "join_inner"}] /\ clear'[r] = "idle"
        /\ \A q \in Relays : q # r => clear'[q] = clear[q]
    BY <2>1 DEF TypeOK
  <2>3. TypeOK' /\ SameEnds
    BY <2>1, <2>2 DEF TypeOK, ShutOK, ends, SameEnds, Put, Got
  <2> QED
    BY <2>1, <2>2, <2>3 DEF Clears
<1> QED
  BY <1>1, <1>2, <1>3 DEF OnError

-----------------------------------------------------------------------------
(* Every step is one of these *)

ThreadStep(r, w) == Reads(r, w) \/ Gives(r, w) \/ Writes(r, w) \/ Drops(r, w) \/ Reports(r, w)

Step ==
    \/ \E w \in Ways : Sending(w) \/ Receiving(w) \/ Ending(w)
    \/ \E c \in Connections : Resetting(c)
    \/ \E r \in Relays : Clears(r)
    \/ \E r \in Relays, w \in Ways : ThreadStep(r, w)

LEMMA Steps ==
    ASSUME TypeOK, Next
    PROVE  TypeOK' /\ Linux' = Linux /\ Step
<1>0. Linux' = Linux
  BY DEF Next
<1>1. CASE BrowserSend \/ TargetSend
  BY <1>0, <1>1, SendEffect DEF Step
<1>2. CASE BrowserRead \/ TargetRead
  BY <1>0, <1>2, ReceiveEffect DEF Step
<1>3. CASE EndsClose
  BY <1>0, <1>3, EndsCloseEffect DEF Step
<1>4. CASE \E c \in Connections : Reset(c)
  BY <1>0, <1>4, ResetEffect DEF Step
<1>5. CASE \E r \in Relays : OnError(r)
  BY <1>0, <1>5, ClearEffect DEF Step
<1>6. ASSUME NEW r \in Relays, NEW w \in Ways, Thread(r, w)
      PROVE  TypeOK' /\ ThreadStep(r, w)
  BY <1>0, <1>6, ReadEffect, ReadFailsEffect, WriteEffect, WriteFailsEffect, SendErrorEffect
     DEF Thread, ThreadStep
<1> QED
  BY <1>0, <1>1, <1>2, <1>3, <1>4, <1>5, <1>6 DEF Next, Step

LEMMA InitTypeOK ==
    ASSUME Init
    PROVE  TypeOK
<1> DEFINE fresh == [up |-> <<>>, down |-> <<>>, open |-> Ways, shut |-> {}, reset |-> "no"]
<1>1. <<>> \in Seq(Nat)
  OBVIOUS
<1>2. fresh \in Connection /\ fresh.shut = {}
  BY <1>1 DEF Connection
<1>3. conn = [c \in Connections |-> fresh]
  BY DEF Init
<1> HIDE DEF fresh
<1>4. conn \in [Connections -> Connection] /\ ShutOK
  BY <1>2, <1>3 DEF ShutOK
<1>5. Linux \in SUBSET Relays
  BY BoundsAssumption DEF Init
<1> QED
  BY <1>4, <1>5 DEF Init, TypeOK

-----------------------------------------------------------------------------
(* Each connection, and each thread's chunk, goes on where the next one    *)
(* ends, as far as what is behind can still arrive.                        *)

\* The chunks of s are those behind chunk n.
After(s, n) == \A k \in 1..Len(s) : s[k] = n + k

In(r, w) == IF Pc(r, w) = "write" THEN 1 ELSE 0
Relaying(r, w) == Pc(r, w) \in {"read", "write"}

Arrived(w) == Got(w) + Len(Line(Sink(w), w))
AtSecond(w) == Arrived(w) + In(Second(w), w)
Between(w) == AtSecond(w) + Len(Line("websocket", w))
AtFirst(w) == Between(w) + In(First(w), w)
Total(w) == AtFirst(w) + Len(Line(Source(w), w))

CutOff(w) == Broken(Sink(w), w) \/ ~Relaying(Second(w), w)
CutOffBefore(w) == CutOff(w) \/ Broken("websocket", w) \/ ~Relaying(First(w), w)

InOrder(w) ==
    /\ After(Line(Sink(w), w), Got(w))
    /\ CutOff(w) \/ /\ Pc(Second(w), w) = "write" => Chunk(Second(w), w) = Arrived(w) + 1
                    /\ After(Line("websocket", w), AtSecond(w))
    /\ CutOffBefore(w) \/ /\ Pc(First(w), w) = "write" => Chunk(First(w), w) = Between(w) + 1
                          /\ After(Line(Source(w), w), AtFirst(w))
    /\ CutOffBefore(w) \/ Broken(Source(w), w) \/ Total(w) = Put(w)

OrderInv == TypeOK /\ \A w \in Ways : InOrder(w)

LEMMA AfterNone ==
    ASSUME NEW n
    PROVE  After(<<>>, n)
  BY DEF After

LEMMA AfterTail ==
    ASSUME NEW s \in Seq(Nat), NEW n \in Nat, s # <<>>, After(s, n)
    PROVE  Head(s) = n + 1 /\ Len(Tail(s)) = Len(s) - 1 /\ After(Tail(s), n + 1)
<1>1. Len(s) \in Nat /\ Len(s) > 0 /\ Head(s) = s[1] /\ 1 \in 1..Len(s)
  OBVIOUS
<1>2. Len(Tail(s)) = Len(s) - 1 /\ \A k \in 1 .. Len(s) - 1 : Tail(s)[k] = s[k + 1]
  BY <1>1
<1>3. ASSUME NEW k \in 1 .. Len(s) - 1
      PROVE  s[k + 1] = (n + 1) + k
  <2>1. k + 1 \in 1..Len(s) /\ n + (k + 1) = (n + 1) + k
    BY <1>1
  <2> QED
    BY <2>1 DEF After
<1> QED
  BY <1>1, <1>2, <1>3 DEF After

LEMMA AfterAppend ==
    ASSUME NEW s \in Seq(Nat), NEW n \in Nat, NEW x \in Nat, After(s, n), x = n + Len(s) + 1
    PROVE  After(Append(s, x), n) /\ Len(Append(s, x)) = Len(s) + 1
<1>1. /\ Len(s) \in Nat /\ Len(Append(s, x)) = Len(s) + 1
      /\ \A k \in 1..Len(s) : Append(s, x)[k] = s[k]
      /\ Append(s, x)[Len(s) + 1] = x
  OBVIOUS
<1>2. ASSUME NEW k \in 1 .. Len(s) + 1
      PROVE  Append(s, x)[k] = n + k
  <2>1. CASE k \in 1..Len(s)
    BY <1>1, <2>1 DEF After
  <2>2. CASE k = Len(s) + 1
    BY <1>1, <2>2
  <2> QED
    BY <1>1, <2>1, <2>2
<1> QED
  BY <1>1, <1>2 DEF After

LEMMA AfterCut ==
    ASSUME NEW s \in Seq(Nat), NEW n \in Nat, NEW k \in 0..Len(s), After(s, n)
    PROVE  After(SubSeq(s, 1, k), n) /\ Len(SubSeq(s, 1, k)) = k
<1>1. Len(SubSeq(s, 1, k)) = k /\ \A j \in 1..k : SubSeq(s, 1, k)[j] = s[j] /\ j \in 1..Len(s)
  OBVIOUS
<1> QED
  BY <1>1 DEF After

LEMMA PlaceTypes ==
    ASSUME TypeOK, NEW w \in Ways
    PROVE  /\ Got(w) \in Nat /\ Put(w) \in Nat
           /\ Arrived(w) \in Nat /\ AtSecond(w) \in Nat /\ Between(w) \in Nat
           /\ AtFirst(w) \in Nat /\ Total(w) \in Nat
           /\ \A r \in Relays : In(r, w) \in {0, 1}
           /\ \A c \in Connections : Line(c, w) \in Seq(Nat) /\ Len(Line(c, w)) \in Nat
<1>1. Got(w) \in Nat /\ Put(w) \in Nat
  BY EndTypes
<1>2. \A r \in Relays : In(r, w) \in {0, 1}
  BY DEF In
<1>3. \A c \in Connections : Line(c, w) \in Seq(Nat) /\ Len(Line(c, w)) \in Nat
  BY LineTypes
<1>4. In(First(w), w) \in Nat /\ In(Second(w), w) \in Nat
  BY DEF In
<1>5. /\ Len(Line(Sink(w), w)) \in Nat /\ Len(Line("websocket", w)) \in Nat
      /\ Len(Line(Source(w), w)) \in Nat
  BY <1>3, Topology
<1>6. Arrived(w) \in Nat
  BY <1>1, <1>5 DEF Arrived
<1>7. AtSecond(w) \in Nat
  BY <1>4, <1>6 DEF AtSecond
<1>8. Between(w) \in Nat
  BY <1>5, <1>7 DEF Between
<1>9. AtFirst(w) \in Nat
  BY <1>4, <1>8 DEF AtFirst
<1>10. Total(w) \in Nat
  BY <1>5, <1>9 DEF Total
<1> QED
  BY <1>1, <1>2, <1>3, <1>6, <1>7, <1>8, <1>9, <1>10

LEMMA BrokenStays ==
    ASSUME TypeOK, Closing, NEW c \in Connections, NEW w \in Ways, Broken(c, w)
    PROVE  Broken(c, w)'
  BY DEF Closing, Broken

LEMMA CutOffStays ==
    ASSUME TypeOK, Closing, NEW w \in Ways, \A r \in Relays : ~Relaying(r, w) => ~Relaying(r, w)'
    PROVE  /\ CutOff(w) => CutOff(w)'
           /\ CutOffBefore(w) => CutOffBefore(w)'
<1>1. CutOff(w) => CutOff(w)'
  BY BrokenStays, Topology DEF CutOff
<1>2. CutOffBefore(w) => CutOffBefore(w)'
  BY <1>1, BrokenStays, Topology DEF CutOffBefore
<1> QED
  BY <1>1, <1>2

\* Steps elsewhere, and threads that stop relaying or drop what cannot be written.
LEMMA Undisturbed ==
    ASSUME TypeOK, NEW w \in Ways, InOrder(w), Closing,
           \A c \in Connections : Line(c, w)' = Line(c, w),
           Put(w)' = Put(w), Got(w)' = Got(w),
           \A r \in Relays : \/ thread'[r][w] = thread[r][w]
                             \/ ~Relaying(r, w)'
                             \/ Relaying(r, w) /\ Broken(To(r, w), w)
    PROVE  InOrder(w)'
<1>1. \A r \in Relays : ~Relaying(r, w) => ~Relaying(r, w)'
  BY DEF Relaying, Pc
<1>2. /\ CutOff(w) => CutOff(w)'
      /\ CutOffBefore(w) => CutOffBefore(w)'
  BY <1>1, CutOffStays
<1>3. /\ Line(Sink(w), w)' = Line(Sink(w), w) /\ Line("websocket", w)' = Line("websocket", w)
      /\ Line(Source(w), w)' = Line(Source(w), w) /\ Arrived(w)' = Arrived(w)
      /\ Broken(Source(w), w) => Broken(Source(w), w)'
  BY Topology, BrokenStays DEF Arrived
<1>4. ~CutOff(w)' => thread'[Second(w)][w] = thread[Second(w)][w]
  BY <1>2, Topology DEF CutOff
<1>5. ~CutOff(w)' => /\ Pc(Second(w), w)' = Pc(Second(w), w)
                     /\ Chunk(Second(w), w)' = Chunk(Second(w), w)
                     /\ AtSecond(w)' = AtSecond(w) /\ Between(w)' = Between(w)
  BY <1>3, <1>4 DEF Pc, Chunk, In, AtSecond, Between
<1>6. ~CutOffBefore(w)' => ~CutOff(w)' /\ thread'[First(w)][w] = thread[First(w)][w]
  BY <1>2, Topology DEF CutOffBefore
<1>7. ~CutOffBefore(w)' => /\ ~CutOff(w)'
                           /\ Pc(First(w), w)' = Pc(First(w), w)
                           /\ Chunk(First(w), w)' = Chunk(First(w), w)
                           /\ AtFirst(w)' = AtFirst(w) /\ Total(w)' = Total(w)
  BY <1>3, <1>5, <1>6 DEF Pc, Chunk, In, AtFirst, Total
<1> QED
  BY <1>2, <1>3, <1>5, <1>7 DEF InOrder

LEMMA SendingKeepsOrder ==
    ASSUME TypeOK, NEW w \in Ways, InOrder(w), Sending(w)
    PROVE  InOrder(w)'
<1>1. /\ Line(Sink(w), w)' = Line(Sink(w), w) /\ Line("websocket", w)' = Line("websocket", w)
      /\ Line(Source(w), w)' = Append(Line(Source(w), w), Put(w) + 1)
      /\ Put(w)' = Put(w) + 1 /\ Got(w)' = Got(w) /\ UNCHANGED thread /\ SameOpen /\ SameOtherwise
  BY Topology DEF Sending, LinesBut
<1>2. /\ Arrived(w)' = Arrived(w) /\ AtSecond(w)' = AtSecond(w) /\ Between(w)' = Between(w)
      /\ AtFirst(w)' = AtFirst(w)
  BY <1>1 DEF Arrived, AtSecond, Between, AtFirst, In, Pc
<1>3. /\ CutOff(w)' <=> CutOff(w)
      /\ CutOffBefore(w)' <=> CutOffBefore(w)
  BY <1>1, Topology DEF CutOff, CutOffBefore, Broken, Relaying, Pc, SameOpen, SameOtherwise
<1>4. ASSUME ~CutOffBefore(w)
      PROVE  After(Line(Source(w), w)', AtFirst(w)') /\ Total(w)' = Put(w)'
  <2>1. After(Line(Source(w), w), AtFirst(w)) /\ Total(w) = Put(w)
    BY <1>4 DEF InOrder, Sending
  <2>2. Line(Source(w), w) \in Seq(Nat) /\ AtFirst(w) \in Nat /\ Put(w) \in Nat
    BY PlaceTypes, Topology
  <2>3. Put(w) + 1 = AtFirst(w) + Len(Line(Source(w), w)) + 1
    BY <2>1 DEF Total
  <2>4. /\ After(Append(Line(Source(w), w), Put(w) + 1), AtFirst(w))
        /\ Len(Append(Line(Source(w), w), Put(w) + 1)) = Len(Line(Source(w), w)) + 1
    <3>1. Put(w) + 1 \in Nat
      BY <2>2
    <3> QED
      BY <2>1, <2>2, <2>3, <3>1, AfterAppend
  <2>5. Total(w)' = Put(w) + 1
    <3>1. Total(w)' = AtFirst(w) + (Len(Line(Source(w), w)) + 1)
      BY <1>1, <1>2, <2>4 DEF Total
    <3>2. Len(Line(Source(w), w)) \in Nat
      BY <2>2
    <3> QED
      BY <2>2, <2>3, <3>1, <3>2
  <2> QED
    BY <1>1, <1>2, <2>4, <2>5
<1>5. /\ Pc(First(w), w)' = Pc(First(w), w) /\ Pc(Second(w), w)' = Pc(Second(w), w)
      /\ Chunk(First(w), w)' = Chunk(First(w), w) /\ Chunk(Second(w), w)' = Chunk(Second(w), w)
  BY <1>1 DEF Pc, Chunk
<1> QED
  BY <1>1, <1>2, <1>3, <1>4, <1>5 DEF InOrder

LEMMA ReceivingKeepsOrder ==
    ASSUME TypeOK, NEW w \in Ways, InOrder(w), Receiving(w)
    PROVE  InOrder(w)' /\ Got(w)' = Got(w) + 1
<1>1. /\ Line(Sink(w), w)' = Tail(Line(Sink(w), w)) /\ Line("websocket", w)' = Line("websocket", w)
      /\ Line(Source(w), w)' = Line(Source(w), w) /\ Line(Sink(w), w) # <<>>
      /\ Got(w)' = Head(Line(Sink(w), w)) /\ Put(w)' = Put(w) /\ UNCHANGED thread
      /\ SameOpen /\ SameOtherwise
  BY Topology DEF Receiving, LinesBut
<1>2. Line(Sink(w), w) \in Seq(Nat) /\ Got(w) \in Nat /\ Len(Line(Sink(w), w)) \in Nat
  BY PlaceTypes, Topology
<1>3. /\ Got(w)' = Got(w) + 1 /\ After(Line(Sink(w), w)', Got(w)')
      /\ Len(Line(Sink(w), w)') = Len(Line(Sink(w), w)) - 1
  BY <1>1, <1>2, AfterTail DEF InOrder
<1>4. Arrived(w)' = Arrived(w)
  BY <1>2, <1>3 DEF Arrived
<1>5. /\ AtSecond(w)' = AtSecond(w) /\ Between(w)' = Between(w)
      /\ AtFirst(w)' = AtFirst(w) /\ Total(w)' = Total(w)
  BY <1>1, <1>4 DEF AtSecond, Between, AtFirst, Total, In, Pc
<1>6. /\ CutOff(w)' <=> CutOff(w)
      /\ CutOffBefore(w)' <=> CutOffBefore(w)
      /\ Broken(Source(w), w)' <=> Broken(Source(w), w)
  BY <1>1, Topology DEF CutOff, CutOffBefore, Broken, Relaying, Pc, SameOpen, SameOtherwise
<1>7. /\ Pc(First(w), w)' = Pc(First(w), w) /\ Pc(Second(w), w)' = Pc(Second(w), w)
      /\ Chunk(First(w), w)' = Chunk(First(w), w) /\ Chunk(Second(w), w)' = Chunk(Second(w), w)
  BY <1>1 DEF Pc, Chunk
<1> QED
  BY <1>1, <1>3, <1>4, <1>5, <1>6, <1>7 DEF InOrder

\* What a thread's move says of the two threads of its way.
LEMMA MovesOnWay ==
    ASSUME NEW r \in Relays, NEW w \in Ways, NEW pc, NEW chunk, Moves(r, w, pc, chunk)
    PROVE  /\ Pc(r, w)' = pc /\ Chunk(r, w)' = chunk
           /\ \A q \in Relays : q # r => Pc(q, w)' = Pc(q, w) /\ Chunk(q, w)' = Chunk(q, w)
           /\ \A q \in Relays, v \in Ways : v # w => thread'[q][v] = thread[q][v]
  BY DEF Moves, Pc, Chunk

LEMMA FirstReadsInOrder ==
    ASSUME TypeOK, NEW w \in Ways, InOrder(w), Reads(First(w), w)
    PROVE  InOrder(w)'
<1> DEFINE f == First(w)
<1> DEFINE s == Second(w)
<1>1. /\ Line(Sink(w), w)' = Line(Sink(w), w) /\ Line("websocket", w)' = Line("websocket", w)
      /\ Line(Source(w), w)' = Tail(Line(Source(w), w)) /\ Line(Source(w), w) # <<>>
      /\ Put(w)' = Put(w) /\ Got(w)' = Got(w) /\ Closing
  BY Topology DEF Reads, LinesBut, OnConnections, ends, Put, Got
<1>2. /\ Pc(f, w) = "read" /\ Pc(f, w)' = "write" /\ Chunk(f, w)' = Head(Line(Source(w), w))
      /\ Pc(s, w)' = Pc(s, w) /\ Chunk(s, w)' = Chunk(s, w)
  BY Topology, MovesOnWay DEF Reads
<1>3. /\ CutOff(w) => CutOff(w)'
      /\ CutOffBefore(w) => CutOffBefore(w)'
      /\ Broken(Source(w), w) => Broken(Source(w), w)'
  <2>1. \A r \in Relays : ~Relaying(r, w) => ~Relaying(r, w)'
    BY <1>2, Topology DEF Relaying
  <2> QED
    BY <1>1, <2>1, CutOffStays, BrokenStays, Topology
<1>4. /\ Arrived(w)' = Arrived(w) /\ AtSecond(w)' = AtSecond(w) /\ Between(w)' = Between(w)
  BY <1>1, <1>2 DEF Arrived, AtSecond, Between, In
<1>5. AtFirst(w) = Between(w) /\ AtFirst(w)' = Between(w) + 1
  BY <1>2, <1>4, PlaceTypes DEF AtFirst, In
<1>6. ASSUME ~CutOffBefore(w)
      PROVE  /\ Chunk(f, w)' = Between(w)' + 1 /\ After(Line(Source(w), w)', AtFirst(w)')
             /\ Total(w)' = Total(w)
  <2>1. After(Line(Source(w), w), AtFirst(w))
    BY <1>6 DEF InOrder
  <2>2. Line(Source(w), w) \in Seq(Nat) /\ AtFirst(w) \in Nat /\ Len(Line(Source(w), w)) \in Nat
    BY PlaceTypes, Topology
  <2>3. /\ Head(Line(Source(w), w)) = AtFirst(w) + 1
        /\ Len(Tail(Line(Source(w), w))) = Len(Line(Source(w), w)) - 1
        /\ After(Tail(Line(Source(w), w)), AtFirst(w) + 1)
    BY <1>1, <2>1, <2>2, AfterTail
  <2>4. Total(w)' = Total(w)
    <3>1. Total(w)' = (AtFirst(w) + 1) + (Len(Line(Source(w), w)) - 1)
      BY <1>1, <1>5, <2>3 DEF Total
    <3> QED
      BY <2>2, <3>1 DEF Total
  <2> QED
    BY <1>1, <1>2, <1>4, <1>5, <2>3, <2>4
<1> QED
  BY <1>1, <1>2, <1>3, <1>4, <1>6 DEF InOrder

LEMMA SecondReadsInOrder ==
    ASSUME TypeOK, NEW w \in Ways, InOrder(w), Reads(Second(w), w)
    PROVE  InOrder(w)'
<1> DEFINE f == First(w)
<1> DEFINE s == Second(w)
<1> DEFINE m == Line("websocket", w)
<1>1. /\ Line(Sink(w), w)' = Line(Sink(w), w) /\ Line(Source(w), w)' = Line(Source(w), w)
      /\ m' = Tail(m) /\ m # <<>>
      /\ Put(w)' = Put(w) /\ Got(w)' = Got(w) /\ Closing
  BY Topology DEF Reads, LinesBut, OnConnections, ends, Put, Got
<1>2. /\ Pc(s, w) = "read" /\ Pc(s, w)' = "write" /\ Chunk(s, w)' = Head(m)
      /\ Pc(f, w)' = Pc(f, w) /\ Chunk(f, w)' = Chunk(f, w)
  BY Topology, MovesOnWay DEF Reads
<1>3. /\ CutOff(w) => CutOff(w)'
      /\ CutOffBefore(w) => CutOffBefore(w)'
      /\ Broken(Source(w), w) => Broken(Source(w), w)'
  <2>1. \A r \in Relays : ~Relaying(r, w) => ~Relaying(r, w)'
    BY <1>2, Topology DEF Relaying
  <2> QED
    BY <1>1, <2>1, CutOffStays, BrokenStays, Topology
<1>4. Arrived(w)' = Arrived(w) /\ AtSecond(w) = Arrived(w) /\ AtSecond(w)' = Arrived(w) + 1
  BY <1>1, <1>2, PlaceTypes DEF Arrived, AtSecond, In
<1>5. ASSUME ~CutOff(w)
      PROVE  /\ Chunk(s, w)' = Arrived(w)' + 1 /\ After(m', AtSecond(w)')
             /\ Between(w)' = Between(w) /\ AtFirst(w)' = AtFirst(w) /\ Total(w)' = Total(w)
  <2>1. After(m, AtSecond(w))
    BY <1>5 DEF InOrder
  <2>2. m \in Seq(Nat) /\ AtSecond(w) \in Nat /\ Len(m) \in Nat
    BY PlaceTypes DEF Connections
  <2> HIDE DEF m
  <2>3. Head(m) = AtSecond(w) + 1 /\ Len(Tail(m)) = Len(m) - 1 /\ After(Tail(m), AtSecond(w) + 1)
    BY <1>1, <2>1, <2>2, AfterTail
  <2>4. Between(w)' = Between(w)
    <3>1. Between(w)' = (AtSecond(w) + 1) + (Len(m) - 1)
      BY <1>1, <1>4, <2>3 DEF Between, m
    <3> QED
      BY <2>2, <3>1 DEF Between, m
  <2>5. AtFirst(w)' = AtFirst(w) /\ Total(w)' = Total(w)
    BY <1>1, <1>2, <2>4 DEF AtFirst, Total, In
  <2> QED
    BY <1>1, <1>2, <1>4, <2>3, <2>4, <2>5
<1>6. CutOff(w) => CutOffBefore(w)
  BY DEF CutOffBefore
<1> QED
  BY <1>1, <1>2, <1>3, <1>4, <1>5, <1>6 DEF InOrder

LEMMA FirstWritesInOrder ==
    ASSUME TypeOK, NEW w \in Ways, InOrder(w), Writes(First(w), w)
    PROVE  InOrder(w)'
<1> DEFINE f == First(w)
<1> DEFINE s == Second(w)
<1> DEFINE m == Line("websocket", w)
<1>1. /\ Line(Sink(w), w)' = Line(Sink(w), w) /\ Line(Source(w), w)' = Line(Source(w), w)
      /\ m' = Append(m, Chunk(f, w)) /\ ~Broken("websocket", w)
      /\ Put(w)' = Put(w) /\ Got(w)' = Got(w) /\ Closing
  BY Topology DEF Writes, LinesBut, OnConnections, ends, Put, Got
<1>2. /\ Pc(f, w) = "write" /\ Pc(f, w)' = "read"
      /\ Pc(s, w)' = Pc(s, w) /\ Chunk(s, w)' = Chunk(s, w)
  BY Topology, MovesOnWay DEF Writes
<1>3. /\ CutOff(w) => CutOff(w)'
      /\ CutOffBefore(w) => CutOffBefore(w)'
      /\ Broken(Source(w), w) => Broken(Source(w), w)'
  <2>1. \A r \in Relays : ~Relaying(r, w) => ~Relaying(r, w)'
    BY <1>2, Topology DEF Relaying
  <2> QED
    BY <1>1, <2>1, CutOffStays, BrokenStays, Topology
<1>4. Arrived(w)' = Arrived(w) /\ AtSecond(w)' = AtSecond(w)
  BY <1>1, <1>2 DEF Arrived, AtSecond, In
<1>5. ASSUME ~CutOff(w)
      PROVE  /\ After(m', AtSecond(w)') /\ AtFirst(w)' = AtFirst(w) /\ Total(w)' = Total(w)
             /\ ~CutOffBefore(w)
  <2>1. ~CutOffBefore(w)
    BY <1>1, <1>2, <1>5 DEF CutOffBefore, Relaying
  <2>2. After(m, AtSecond(w)) /\ Chunk(f, w) = Between(w) + 1
    BY <1>2, <1>5, <2>1 DEF InOrder
  <2>3. /\ m \in Seq(Nat) /\ AtSecond(w) \in Nat /\ Len(m) \in Nat /\ Chunk(f, w) \in Nat
        /\ Between(w) = AtSecond(w) + Len(m)
    BY PlaceTypes, ThreadTypes, Topology DEF Connections, Between
  <2> HIDE DEF m
  <2>4. After(Append(m, Chunk(f, w)), AtSecond(w)) /\ Len(Append(m, Chunk(f, w))) = Len(m) + 1
    BY <2>2, <2>3, AfterAppend
  <2>5. AtFirst(w)' = AtFirst(w)
    <3>1. AtFirst(w)' = AtSecond(w) + (Len(m) + 1) + 0
      BY <1>1, <1>2, <1>4, <2>4 DEF AtFirst, Between, In, m
    <3>2. AtFirst(w) = AtSecond(w) + Len(m) + 1
      BY <1>2, <2>3 DEF AtFirst, In
    <3> QED
      BY <2>3, <3>1, <3>2
  <2>6. Total(w)' = Total(w)
    BY <1>1, <2>5 DEF Total
  <2> QED
    BY <1>1, <1>4, <2>1, <2>4, <2>5, <2>6
<1>6. CutOff(w) => CutOffBefore(w)
  BY DEF CutOffBefore
<1> QED
  BY <1>1, <1>2, <1>3, <1>4, <1>5, <1>6 DEF InOrder

LEMMA SecondWritesInOrder ==
    ASSUME TypeOK, NEW w \in Ways, InOrder(w), Writes(Second(w), w)
    PROVE  InOrder(w)'
<1> DEFINE f == First(w)
<1> DEFINE s == Second(w)
<1> DEFINE z == Line(Sink(w), w)
<1>1. /\ Line("websocket", w)' = Line("websocket", w) /\ Line(Source(w), w)' = Line(Source(w), w)
      /\ z' = Append(z, Chunk(s, w)) /\ ~Broken(Sink(w), w)
      /\ Put(w)' = Put(w) /\ Got(w)' = Got(w) /\ Closing
  BY Topology DEF Writes, LinesBut, OnConnections, ends, Put, Got
<1>2. /\ Pc(s, w) = "write" /\ Pc(s, w)' = "read"
      /\ Pc(f, w)' = Pc(f, w) /\ Chunk(f, w)' = Chunk(f, w)
  BY Topology, MovesOnWay DEF Writes
<1>3. /\ CutOffBefore(w) => CutOffBefore(w)'
      /\ Broken(Source(w), w) => Broken(Source(w), w)'
  <2>1. \A r \in Relays : ~Relaying(r, w) => ~Relaying(r, w)'
    BY <1>2, Topology DEF Relaying
  <2> QED
    BY <1>1, <2>1, CutOffStays, BrokenStays, Topology
<1>4. ~CutOff(w)
  BY <1>1, <1>2 DEF CutOff, Relaying
<1>5. After(z, Got(w)) /\ Chunk(s, w) = Arrived(w) + 1 /\ After(Line("websocket", w), AtSecond(w))
  BY <1>2, <1>4 DEF InOrder
<1>6. /\ z \in Seq(Nat) /\ Got(w) \in Nat /\ Len(z) \in Nat /\ Chunk(s, w) \in Nat
      /\ Arrived(w) = Got(w) + Len(z)
  BY PlaceTypes, ThreadTypes, Topology DEF Arrived
<1> HIDE DEF z
<1>7. After(Append(z, Chunk(s, w)), Got(w)) /\ Len(Append(z, Chunk(s, w))) = Len(z) + 1
  BY <1>5, <1>6, AfterAppend
<1>8. AtSecond(w)' = AtSecond(w)
  <2>1. AtSecond(w)' = Got(w) + (Len(z) + 1) + 0
    BY <1>1, <1>2, <1>7 DEF AtSecond, Arrived, In, z
  <2>2. AtSecond(w) = Got(w) + Len(z) + 1
    BY <1>2, <1>6 DEF AtSecond, In
  <2> QED
    BY <1>6, <2>1, <2>2
<1>9. Between(w)' = Between(w) /\ AtFirst(w)' = AtFirst(w) /\ Total(w)' = Total(w)
  BY <1>1, <1>2, <1>8 DEF Between, AtFirst, Total, In
<1>10. After(z', Got(w)')
  BY <1>1, <1>7
<1> QED
  BY <1>1, <1>2, <1>3, <1>5, <1>8, <1>9, <1>10 DEF InOrder, z

LEMMA ResettingKeepsOrder ==
    ASSUME TypeOK, NEW w \in Ways, InOrder(w), NEW c \in Connections, Resetting(c)
    PROVE  InOrder(w)'
<1>1. /\ Put(w)' = Put(w) /\ Got(w)' = Got(w) /\ UNCHANGED thread /\ Closing
      /\ \A d \in Connections : d # c => Line(d, w)' = Line(d, w)
      /\ Broken(c, w)'
  BY DEF Resetting, SameEnds, SameOpen, Closing, Line, Broken
<1>2. PICK n \in 0 .. Len(Line(c, w)) : Line(c, w)' = SubSeq(Line(c, w), 1, n)
  BY DEF Resetting
<1>3. /\ CutOff(w) => CutOff(w)'
      /\ CutOffBefore(w) => CutOffBefore(w)'
      /\ Broken(Source(w), w) => Broken(Source(w), w)'
  <2>1. \A r \in Relays : ~Relaying(r, w) => ~Relaying(r, w)'
    BY <1>1 DEF Relaying, Pc
  <2> QED
    BY <1>1, <2>1, CutOffStays, BrokenStays, Topology
<1>4. ASSUME NEW p \in Nat, After(Line(c, w), p)
      PROVE  After(Line(c, w)', p)
  BY <1>2, <1>4, AfterCut, PlaceTypes
<1>5. \A r \in Relays : /\ Pc(r, w)' = Pc(r, w) /\ Chunk(r, w)' = Chunk(r, w)
                        /\ In(r, w)' = In(r, w)
  BY <1>1 DEF Pc, Chunk, In
<1>6. Got(w) \in Nat /\ AtSecond(w) \in Nat /\ AtFirst(w) \in Nat
  BY PlaceTypes
<1>7. CASE c = Sink(w)
  <2>1. CutOff(w)' /\ CutOffBefore(w)' /\ After(Line(Sink(w), w)', Got(w)')
    BY <1>1, <1>4, <1>6, <1>7 DEF CutOff, CutOffBefore, InOrder
  <2> QED
    BY <2>1 DEF InOrder
<1>8. CASE c = "websocket"
  <2>1. CutOffBefore(w)' /\ Line(Sink(w), w)' = Line(Sink(w), w)
    BY <1>1, <1>8, Topology DEF CutOffBefore
  <2>2. Arrived(w)' = Arrived(w) /\ AtSecond(w)' = AtSecond(w)
    BY <1>1, <1>5, <2>1, Topology DEF Arrived, AtSecond
  <2>3. CutOff(w) \/ After(Line("websocket", w)', AtSecond(w)')
    BY <1>4, <1>6, <1>8, <2>2 DEF InOrder
  <2> QED
    BY <1>1, <1>3, <1>5, <2>1, <2>2, <2>3, Topology DEF InOrder
<1>9. CASE c = Source(w)
  <2>1. /\ Line(Sink(w), w)' = Line(Sink(w), w) /\ Line("websocket", w)' = Line("websocket", w)
        /\ Broken(Source(w), w)'
    BY <1>1, <1>9, Topology
  <2>2. /\ Arrived(w)' = Arrived(w) /\ AtSecond(w)' = AtSecond(w) /\ Between(w)' = Between(w)
        /\ AtFirst(w)' = AtFirst(w)
    BY <1>1, <1>5, <2>1, Topology DEF Arrived, AtSecond, Between, AtFirst
  <2>3. CutOffBefore(w) \/ After(Line(Source(w), w)', AtFirst(w)')
    BY <1>4, <1>6, <1>9, <2>2 DEF InOrder
  <2> QED
    BY <1>1, <1>3, <1>5, <2>1, <2>2, <2>3, Topology DEF InOrder
<1> QED
  BY <1>7, <1>8, <1>9, Topology

LEMMA EndsStepKeepsOrder ==
    ASSUME TypeOK, NEW w \in Ways, InOrder(w), NEW v \in Ways,
           Sending(v) \/ Receiving(v) \/ Ending(v)
    PROVE  InOrder(w)'
<1>1. CASE v = w /\ ~Ending(v)
  BY <1>1, SendingKeepsOrder, ReceivingKeepsOrder
<1>2. CASE v # w /\ ~Ending(v)
  <2>1. w = Other(v) /\ v = Other(w)
    BY <1>2, Topology
  <2>2. \A c \in Connections : Line(c, w)' = Line(c, w)
    BY <1>2 DEF Sending, Receiving, LinesBut
  <2>3. Put(w)' = Put(w) /\ Got(w)' = Got(w)
    BY <1>2, <2>1 DEF Sending, Receiving
  <2>4. Closing /\ \A r \in Relays : thread'[r][w] = thread[r][w]
    BY <1>2 DEF Sending, Receiving, SameOpen, SameOtherwise, Closing
  <2> QED
    BY <2>2, <2>3, <2>4, Undisturbed
<1>3. CASE Ending(v)
  <2>1. /\ \A c \in Connections : Line(c, w)' = Line(c, w)
        /\ Put(w)' = Put(w) /\ Got(w)' = Got(w) /\ UNCHANGED thread
    BY <1>3 DEF Ending, SameLines, SameEnds
  <2>2. Closing
    BY <1>3 DEF Ending, Closing
  <2> QED
    BY <2>1, <2>2, Undisturbed
<1> QED
  BY <1>1, <1>2, <1>3

LEMMA ThreadStepKeepsOrder ==
    ASSUME TypeOK, NEW w \in Ways, InOrder(w), NEW r \in Relays, NEW v \in Ways, ThreadStep(r, v)
    PROVE  InOrder(w)'
<1>1. Put(w)' = Put(w) /\ Got(w)' = Got(w)
  BY DEF ThreadStep, Reads, Gives, Writes, Drops, Reports, ends, Put, Got
<1>2. Closing
  BY DEF ThreadStep, Reads, Gives, Writes, Drops, Reports, OnConnections, Closing
<1>3. CASE v # w
  <2>1. \A c \in Connections : Line(c, w)' = Line(c, w)
    BY <1>3 DEF ThreadStep, Reads, Gives, Writes, Drops, Reports, SameLines, LinesBut, Line
  <2>2. \A q \in Relays : thread'[q][w] = thread[q][w]
    BY <1>3 DEF ThreadStep, Reads, Gives, Writes, Drops, Reports, Moves
  <2> QED
    BY <1>1, <1>2, <2>1, <2>2, Undisturbed
<1>4. CASE v = w /\ (Reads(r, v) \/ Writes(r, v))
  BY <1>4, Topology, FirstReadsInOrder, SecondReadsInOrder, FirstWritesInOrder,
     SecondWritesInOrder
<1>5. CASE v = w /\ ~(Reads(r, v) \/ Writes(r, v))
  <2>1. \A c \in Connections : Line(c, w)' = Line(c, w)
    BY <1>5 DEF ThreadStep, Gives, Drops, Reports, SameLines, Line
  <2>2. PICK pc : \E chunk : Moves(r, w, pc, chunk)
    BY <1>5 DEF ThreadStep, Gives, Drops, Reports
  <2>3. \A q \in Relays : q # r => thread'[q][w] = thread[q][w]
    BY <2>2 DEF Moves
  <2>4. ~Relaying(r, w)' \/ (Relaying(r, w) /\ Broken(To(r, w), w))
    BY <1>5, MovesOnWay DEF ThreadStep, Gives, Drops, Reports, Relaying
  <2> QED
    BY <1>1, <1>2, <2>1, <2>3, <2>4, Undisturbed
<1> QED
  BY <1>3, <1>4, <1>5

LEMMA ClearKeepsOrder ==
    ASSUME TypeOK, NEW w \in Ways, InOrder(w), NEW r \in Relays, Clears(r)
    PROVE  InOrder(w)'
<1>1. /\ \A c \in Connections : Line(c, w)' = Line(c, w)
      /\ Put(w)' = Put(w) /\ Got(w)' = Got(w) /\ UNCHANGED thread /\ Closing
  BY DEF Clears, Closes, SameLines, SameEnds, Closing, Line
<1> QED
  BY <1>1, Undisturbed

LEMMA InitOrder ==
    ASSUME Init
    PROVE  OrderInv
<1>1. TypeOK
  BY InitTypeOK
<1>2. ASSUME NEW w \in Ways
      PROVE  InOrder(w)
  <2>1. \A c \in Connections : Line(c, w) = <<>>
    BY DEF Init, Line, Ways
  <2>2. \A r \in Relays : Pc(r, w) = "read" /\ In(r, w) = 0
    BY DEF Init, Pc, In
  <2>3. /\ Line(Sink(w), w) = <<>> /\ Line("websocket", w) = <<>> /\ Line(Source(w), w) = <<>>
        /\ In(First(w), w) = 0 /\ In(Second(w), w) = 0
        /\ Pc(First(w), w) = "read" /\ Pc(Second(w), w) = "read"
    BY <2>1, <2>2, Topology
  <2>4. Put(w) = 0 /\ Got(w) = 0 /\ Len(<<>>) = 0
    BY DEF Init, Put, Got
  <2>5. Total(w) = 0
    BY <2>3, <2>4 DEF Total, AtFirst, Between, AtSecond, Arrived
  <2> QED
    BY <2>3, <2>4, <2>5, AfterNone DEF InOrder
<1> QED
  BY <1>1, <1>2 DEF OrderInv

LEMMA NextKeepsOrder ==
    ASSUME OrderInv, [Next]_vars
    PROVE  OrderInv'
<1>1. ASSUME Next
      PROVE  OrderInv'
  <2>1. TypeOK' /\ Step
    BY <1>1, Steps DEF OrderInv
  <2>2. ASSUME NEW w \in Ways
        PROVE  InOrder(w)'
    BY <2>1, EndsStepKeepsOrder, ThreadStepKeepsOrder, ClearKeepsOrder, ResettingKeepsOrder
       DEF OrderInv, Step
  <2> QED
    BY <2>1, <2>2 DEF OrderInv
<1>2. ASSUME UNCHANGED vars
      PROVE  OrderInv'
  <2>1. UNCHANGED <<Linux, conn, thread, clear, reports, late, sent, answered, target_got, browser_got>>
    BY <1>2 DEF vars, moves, ends
  <2>2. TypeOK'
    BY <2>1 DEF TypeOK, ShutOK, OrderInv
  <2>3. ASSUME NEW w \in Ways
        PROVE  InOrder(w)'
    <3>1. /\ \A c \in Connections : Line(c, w)' = Line(c, w)
          /\ Put(w)' = Put(w) /\ Got(w)' = Got(w) /\ Closing
      BY <2>1 DEF Line, Put, Got, Closing
    <3> QED
      BY <2>1, <3>1, Undisturbed DEF OrderInv
  <2> QED
    BY <2>2, <2>3 DEF OrderInv
<1> QED
  BY <1>1, <1>2

\* Of every way the chunks under way are in order, whatever has closed or is reset.
THEOREM Order == Spec => []OrderInv
<1>1. Spec => Init /\ [][Next]_vars
  BY DEF Spec
<1> QED
  BY <1>1, InitOrder, NextKeepsOrder, PTL

\* A step receives the next chunk, or none.
LEMMA NextReceivesNext ==
    ASSUME OrderInv, [Next]_vars
    PROVE  /\ browser_got' \in {browser_got, browser_got + 1}
           /\ target_got' \in {target_got, target_got + 1}
<1>1. ASSUME NEW w \in Ways
      PROVE  Got(w)' \in {Got(w), Got(w) + 1}
  <2>1. CASE Next
    <3>1. Step
      BY <2>1, Steps DEF OrderInv
    <3>2. ASSUME NEW v \in Ways, Receiving(v)
          PROVE  Got(w)' \in {Got(w), Got(w) + 1}
      <4>1. Got(v)' = Got(v) + 1 /\ Got(Other(v))' = Got(Other(v))
        BY <3>2, ReceivingKeepsOrder DEF OrderInv, Receiving
      <4> QED
        BY <4>1, Topology
    <3>3. CASE ~\E v \in Ways : Receiving(v)
      BY <3>1, <3>3 DEF Step, Sending, Ending, Resetting, Clears, Closes, SameEnds, ThreadStep,
         Reads, Gives, Writes, Drops, Reports, ends, Got
    <3> QED
      BY <3>2, <3>3
  <2>2. CASE UNCHANGED vars
    BY <2>2 DEF vars, moves, ends, Got
  <2> QED
    BY <2>1, <2>2
<1>2. Got("down") = browser_got /\ Got("up") = target_got /\ "up" \in Ways /\ "down" \in Ways
  BY DEF Got, Ways
<1>3. Got("down")' = browser_got' /\ Got("up")' = target_got'
  BY DEF Got
<1> QED
  BY <1>1, <1>2, <1>3

\* Chunks arrive in order and none is left out, for any number of chunks and any
\* capacity, through failed writes, late closes and resets (server_socket_item.cpp:184).
THEOREM NoneIsLeftOut == Spec => NoGap
<1>1. Spec => [][Next]_vars
  BY DEF Spec
<1> DEFINE A == /\ browser_got' \in {browser_got, browser_got + 1}
                /\ target_got' \in {target_got, target_got + 1}
<1>2. OrderInv /\ [Next]_vars => A
  BY NextReceivesNext
<1> HIDE DEF A
<1>3. Spec => [][A]_vars
  BY <1>1, <1>2, Order, PTL
<1> QED
  BY <1>3 DEF NoGap, A

-----------------------------------------------------------------------------
(* Where a close ends blocked calls, a way closes from its source on, each *)
(* place when all before it has passed, as long as its sink waits for it   *)
(* and the other way has lost nothing that its own sink still misses.      *)

\* The sink has ended its sending, or chunks of the other way will never arrive.
Doomed(w) ==
    \/ Ended(Other(w))
    \/ w \notin conn[Source(w)].open /\ Got(Other(w)) < Put(Other(w))
    \/ Broken(Source(w), Other(w)) /\ Arrived(Other(w)) < Put(Other(w))

Failed(r, w) == ~Relaying(r, w)

\* The relay next to the source fails at the end of what is sent, and then closes.
FirstCloses(w) ==
    /\ Failed(First(w), w) => Ended(w) /\ Line(Source(w), w) = <<>>
    /\ reports[First(w)] # {} => Pc(First(w), w) = "done"
    /\ clear[First(w)] # "idle" => Other(w) \notin conn[Source(w)].open
    /\ Other(w) \notin conn[Source(w)].open => Pc(First(w), w) = "done"
    /\ w \notin conn["websocket"].open => Other(w) \notin conn[Source(w)].open
    /\ Failed(First(w), Other(w)) => w \notin conn["websocket"].open

\* The relay next to the sink fails at the end of the websocket, and then closes.
SecondCloses(w) ==
    /\ Failed(Second(w), w) => w \notin conn["websocket"].open /\ Line("websocket", w) = <<>>
    /\ reports[Second(w)] # {} => Pc(Second(w), w) = "done"
    /\ clear[Second(w)] # "idle" => w \notin conn[Sink(w)].open
    /\ w \notin conn[Sink(w)].open => Pc(Second(w), w) = "done"
    /\ Other(w) \notin conn["websocket"].open => w \notin conn[Sink(w)].open
    /\ Failed(Second(w), Other(w)) => w \notin conn[Sink(w)].open

Counted == \A w \in Ways : Total(w) = Put(w)
NoReset == \A c \in Connections : conn[c].reset = "no"

Chain(w) == Counted /\ NoReset /\ FirstCloses(w) /\ SecondCloses(w)

Whole(w) == Doomed(w) \/ Chain(w)

WholeInv ==
    /\ OrderInv
    /\ Linux = {} => /\ \A r \in Relays : late[r] = {}
                     /\ \A w \in Ways : Whole(w)

LEMMA Shut ==
    ASSUME TypeOK, NEW w \in Ways
    PROVE  /\ conn["websocket"].shut = {} /\ Other(w) \notin conn[Source(w)].shut
           /\ ~Ended(Other(w)) => conn[Sink(w)].shut = {}
  BY Topology DEF TypeOK, ShutOK, Ended, Source, Sink, Other, Ways, Connections

\* Once the source's side of the first relay has closed, nothing is left of the other way.
LEMMA Emptied ==
    ASSUME TypeOK, NEW w \in Ways, Counted, ~Doomed(w),
           Other(w) \notin conn[Source(w)].open \/ w \notin conn[Source(w)].open
    PROVE  /\ In(First(w), Other(w)) = 0 /\ Line("websocket", Other(w)) = <<>>
           /\ In(Second(w), Other(w)) = 0 /\ Line(Sink(w), Other(w)) = <<>>
           /\ w \notin conn[Source(w)].open => Line(Source(w), Other(w)) = <<>>
<1> DEFINE o == Other(w)
<1> DEFINE a == Line(Source(w), o)
<1> DEFINE m == Line("websocket", o)
<1> DEFINE z == Line(Sink(w), o)
<1>1. /\ o \in Ways /\ Sink(o) = Source(w) /\ Source(o) = Sink(w)
      /\ Second(o) = First(w) /\ First(o) = Second(w)
  BY Topology
<1>2. Total(o) = Got(o) + Len(a) + In(First(w), o) + Len(m) + In(Second(w), o) + Len(z)
  BY <1>1 DEF Total, AtFirst, Between, AtSecond, Arrived
<1>3. Total(o) = Put(o)
  BY <1>1 DEF Counted
<1>4. Got(o) \in Nat /\ Put(o) \in Nat /\ Arrived(o) = Got(o) + Len(a)
  BY <1>1, PlaceTypes DEF Arrived
<1>5. a \in Seq(Nat) /\ m \in Seq(Nat) /\ z \in Seq(Nat)
  BY <1>1, LineTypes, Topology
<1>6. Len(a) \in Nat /\ Len(m) \in Nat /\ Len(z) \in Nat
  BY <1>5
<1>7. In(First(w), o) \in Nat /\ In(Second(w), o) \in Nat
  BY DEF In
<1>8. Arrived(o) >= Put(o) \/ (w \notin conn[Source(w)].open /\ Got(o) >= Put(o))
  BY <1>4, <1>6 DEF Doomed, Broken
<1>9. w \notin conn[Source(w)].open => Got(o) >= Put(o)
  BY <1>4 DEF Doomed
<1> HIDE DEF a, m, z, o
<1>10. In(First(w), o) = 0 /\ Len(m) = 0 /\ In(Second(w), o) = 0 /\ Len(z) = 0
  BY <1>2, <1>3, <1>4, <1>6, <1>7, <1>8
<1>11. w \notin conn[Source(w)].open => Len(a) = 0
  BY <1>2, <1>3, <1>4, <1>6, <1>7, <1>9
<1>12. m = <<>> /\ z = <<>>
  BY <1>5, <1>10
<1>13. w \notin conn[Source(w)].open => a = <<>>
  BY <1>5, <1>11
<1> QED
  BY <1>10, <1>12, <1>13 DEF a, m, z, o

\* What is sent of a way, has arrived or is under way.
LEMMA CountsKept ==
    ASSUME TypeOK, NEW w \in Ways, \A c \in Connections : Line(c, w)' = Line(c, w),
           \A r \in Relays : In(r, w)' = In(r, w), Put(w)' = Put(w), Got(w)' = Got(w)
    PROVE  Total(w)' = Total(w) /\ Put(w)' = Put(w)
  BY Topology DEF Total, AtFirst, Between, AtSecond, Arrived

LEMMA EndsStepCounts ==
    ASSUME OrderInv, Counted, NEW v \in Ways, Sending(v) \/ Receiving(v) \/ Ending(v)
    PROVE  Counted'
<1> SUFFICES ASSUME NEW w \in Ways PROVE Total(w)' = Put(w)'
  BY DEF Counted
<1>0. TypeOK /\ Total(w) = Put(w)
  BY DEF OrderInv, Counted
<1>1. \A r \in Relays : In(r, w)' = In(r, w)
  BY DEF Sending, Receiving, Ending, In, Pc
<1>2. CASE v # w \/ Ending(v)
  <2>1. \A c \in Connections : Line(c, w)' = Line(c, w)
    BY <1>2 DEF Sending, Receiving, Ending, LinesBut, SameLines
  <2>2. Put(w)' = Put(w) /\ Got(w)' = Got(w)
    BY <1>2, Topology DEF Sending, Receiving, Ending, SameEnds
  <2> QED
    BY <1>0, <1>1, <2>1, <2>2, CountsKept
<1>3. CASE Sending(w)
  <2>1. /\ Line(Sink(w), w)' = Line(Sink(w), w) /\ Line("websocket", w)' = Line("websocket", w)
        /\ Line(Source(w), w)' = Append(Line(Source(w), w), Put(w) + 1)
        /\ Put(w)' = Put(w) + 1 /\ Got(w)' = Got(w)
    BY <1>3, Topology DEF Sending, LinesBut
  <2>2. AtFirst(w)' = AtFirst(w)
    BY <1>1, <2>1, Topology DEF AtFirst, Between, AtSecond, Arrived
  <2>3. Len(Line(Source(w), w)') = Len(Line(Source(w), w)) + 1
    BY <1>0, <2>1, PlaceTypes, Topology
  <2>4. AtFirst(w) \in Nat /\ Len(Line(Source(w), w)) \in Nat
    BY <1>0, PlaceTypes, Topology
  <2>5. Total(w)' = AtFirst(w) + (Len(Line(Source(w), w)) + 1)
    BY <2>2, <2>3 DEF Total
  <2>6. Put(w) = AtFirst(w) + Len(Line(Source(w), w))
    BY <1>0 DEF Total
  <2> QED
    BY <2>1, <2>4, <2>5, <2>6
<1>4. CASE Receiving(w)
  <2>1. /\ Line(Sink(w), w)' = Tail(Line(Sink(w), w)) /\ Line(Sink(w), w) # <<>>
        /\ Line("websocket", w)' = Line("websocket", w) /\ Line(Source(w), w)' = Line(Source(w), w)
        /\ Put(w)' = Put(w)
    BY <1>4, Topology DEF Receiving, LinesBut
  <2>2. Got(w)' = Got(w) + 1
    BY <1>0, <1>4, ReceivingKeepsOrder DEF OrderInv
  <2>3. Line(Sink(w), w) \in Seq(Nat) /\ Len(Line(Sink(w), w)) \in Nat /\ Got(w) \in Nat
    BY <1>0, PlaceTypes, Topology
  <2>4. Len(Line(Sink(w), w)') = Len(Line(Sink(w), w)) - 1
    BY <2>1, <2>3
  <2>5. Arrived(w)' = Arrived(w)
    BY <2>2, <2>3, <2>4 DEF Arrived
  <2> QED
    BY <1>0, <1>1, <2>1, <2>5, Topology DEF Total, AtFirst, Between, AtSecond
<1> QED
  BY <1>2, <1>3, <1>4

LEMMA ReadCounts ==
    ASSUME TypeOK, NEW w \in Ways, NEW r \in Relays, Reads(r, w)
    PROVE  Total(w)' = Total(w)
<1> DEFINE c == From(r, w)
<1>1. /\ Pc(r, w) = "read" /\ Pc(r, w)' = "write" /\ Got(w)' = Got(w)
      /\ \A q \in Relays : q # r => Pc(q, w)' = Pc(q, w)
  BY MovesOnWay DEF Reads, ends, Got
<1>2. /\ In(r, w) = 0 /\ In(r, w)' = 1 /\ \A q \in Relays : q # r => In(q, w)' = In(q, w)
  BY <1>1 DEF In
<1>3. Line(c, w) \in Seq(Nat) /\ Line(c, w) # <<>> /\ Line(c, w)' = Tail(Line(c, w))
  BY FromTo, LineTypes DEF Reads
<1>4. Len(Line(c, w)') = Len(Line(c, w)) - 1 /\ Len(Line(c, w)) \in Nat
  BY <1>3
<1>5. \A d \in Connections : d # c => Line(d, w)' = Line(d, w)
  BY DEF Reads, LinesBut
<1> HIDE DEF c
<1>6. CASE r = First(w)
  <2>1. c = Source(w)
    BY <1>6, Topology DEF c
  <2>2. Between(w)' = Between(w)
    BY <1>1, <1>2, <1>5, <1>6, <2>1, Topology DEF Between, AtSecond, Arrived
  <2>3. /\ Total(w) = Between(w) + 0 + Len(Line(c, w))
        /\ Total(w)' = Between(w) + 1 + (Len(Line(c, w)) - 1)
    BY <1>2, <1>4, <1>6, <2>1, <2>2 DEF Total, AtFirst
  <2>4. Between(w) \in Nat
    BY PlaceTypes
  <2> QED
    BY <1>4, <2>3, <2>4
<1>7. CASE r = Second(w)
  <2>1. c = "websocket"
    BY <1>7, Topology DEF c
  <2>2. Arrived(w)' = Arrived(w)
    BY <1>1, <1>5, <2>1, Topology DEF Arrived
  <2>3. /\ Between(w) = Arrived(w) + 0 + Len(Line(c, w))
        /\ Between(w)' = Arrived(w) + 1 + (Len(Line(c, w)) - 1)
    BY <1>2, <1>4, <1>7, <2>1, <2>2 DEF Between, AtSecond
  <2>4. Arrived(w) \in Nat
    BY PlaceTypes
  <2>5. Between(w)' = Between(w)
    BY <1>4, <2>3, <2>4
  <2> QED
    BY <1>2, <1>5, <1>7, <2>1, <2>5, Topology DEF Total, AtFirst
<1> QED
  BY <1>6, <1>7, Topology

LEMMA WriteCounts ==
    ASSUME TypeOK, NEW w \in Ways, NEW r \in Relays, Writes(r, w)
    PROVE  Total(w)' = Total(w)
<1> DEFINE c == To(r, w)
<1>1. /\ Pc(r, w) = "write" /\ Pc(r, w)' = "read" /\ Got(w)' = Got(w)
      /\ \A q \in Relays : q # r => Pc(q, w)' = Pc(q, w)
  BY MovesOnWay DEF Writes, ends, Got
<1>2. /\ In(r, w) = 1 /\ In(r, w)' = 0 /\ \A q \in Relays : q # r => In(q, w)' = In(q, w)
  BY <1>1 DEF In
<1>3. /\ Line(c, w) \in Seq(Nat) /\ Line(c, w)' = Append(Line(c, w), Chunk(r, w))
  BY FromTo, LineTypes DEF Writes
<1>4. Len(Line(c, w)') = Len(Line(c, w)) + 1 /\ Len(Line(c, w)) \in Nat
  BY <1>3, ThreadTypes
<1>5. \A d \in Connections : d # c => Line(d, w)' = Line(d, w)
  BY DEF Writes, LinesBut
<1> HIDE DEF c
<1>6. CASE r = First(w)
  <2>1. c = "websocket"
    BY <1>6, Topology DEF c
  <2>2. AtSecond(w)' = AtSecond(w)
    BY <1>1, <1>2, <1>5, <1>6, <2>1, Topology DEF AtSecond, Arrived
  <2>3. /\ AtFirst(w) = AtSecond(w) + Len(Line(c, w)) + 1
        /\ AtFirst(w)' = AtSecond(w) + (Len(Line(c, w)) + 1) + 0
    BY <1>2, <1>4, <1>6, <2>1, <2>2 DEF Between, AtFirst
  <2>4. AtSecond(w) \in Nat
    BY PlaceTypes
  <2>5. AtFirst(w)' = AtFirst(w)
    BY <1>4, <2>3, <2>4
  <2> QED
    BY <1>5, <2>1, <2>5, Topology DEF Total
<1>7. CASE r = Second(w)
  <2>1. c = Sink(w)
    BY <1>7, Topology DEF c
  <2>2. /\ AtSecond(w) = Got(w) + Len(Line(c, w)) + 1
        /\ AtSecond(w)' = Got(w) + (Len(Line(c, w)) + 1) + 0
    BY <1>1, <1>2, <1>4, <1>7, <2>1 DEF Arrived, AtSecond
  <2>3. Got(w) \in Nat
    BY PlaceTypes
  <2>4. AtSecond(w)' = AtSecond(w)
    BY <1>4, <2>2, <2>3
  <2> QED
    BY <1>2, <1>5, <1>7, <2>1, <2>4, Topology DEF Total, AtFirst, Between
<1> QED
  BY <1>6, <1>7, Topology

LEMMA ThreadStepCounts ==
    ASSUME TypeOK, Counted, NEW r \in Relays, NEW v \in Ways, ThreadStep(r, v), ~Drops(r, v)
    PROVE  Counted'
<1> SUFFICES ASSUME NEW w \in Ways PROVE Total(w)' = Put(w)'
  BY DEF Counted
<1>0. Total(w) = Put(w) /\ Put(w)' = Put(w) /\ Got(w)' = Got(w)
  BY DEF Counted, ThreadStep, Reads, Gives, Writes, Reports, ends, Put, Got
<1>1. CASE w # v
  <2>1. \A c \in Connections : Line(c, w)' = Line(c, w)
    BY <1>1 DEF ThreadStep, Reads, Gives, Writes, Reports, SameLines, LinesBut, Line
  <2>2. \A q \in Relays : In(q, w)' = In(q, w)
    BY <1>1 DEF ThreadStep, Reads, Gives, Writes, Reports, Moves, In, Pc
  <2> QED
    BY <1>0, <2>1, <2>2, CountsKept
<1>2. CASE w = v /\ (Reads(r, v) \/ Writes(r, v))
  BY <1>0, <1>2, ReadCounts, WriteCounts
<1>3. CASE w = v /\ ~(Reads(r, v) \/ Writes(r, v))
  <2>1. \A c \in Connections : Line(c, w)' = Line(c, w)
    BY <1>3 DEF ThreadStep, Gives, Reports, SameLines, Line
  <2>2. \A q \in Relays : In(q, w)' = In(q, w)
    BY <1>3, MovesOnWay DEF ThreadStep, Gives, Reports, In
  <2> QED
    BY <1>0, <2>1, <2>2, CountsKept
<1> QED
  BY <1>1, <1>2, <1>3

-----------------------------------------------------------------------------
(* A way that is doomed stays so, and no step breaks the chain of another. *)

\* No step opens an end, takes back a reset or what an end said.
LEMMA StepCloses ==
    ASSUME TypeOK, Step
    PROVE  Closing /\ \A c \in Connections : conn[c].shut \subseteq conn'[c].shut
<1>1. CASE \E w \in Ways : Sending(w) \/ Receiving(w)
  BY <1>1 DEF Sending, Receiving, SameOpen, SameOtherwise, Closing
<1>2. CASE \E w \in Ways : Ending(w)
  <2>1. PICK w \in Ways : Ending(w)
    BY <1>2
  <2>2. \A c \in Connections : conn'[c].open \subseteq conn[c].open
    BY <2>1 DEF Ending
  <2> QED
    BY <2>1, <2>2 DEF Ending, Closing
<1>3. CASE \E c \in Connections : Resetting(c)
  BY <1>3 DEF Resetting, SameOpen, Closing
<1>4. CASE \E r \in Relays : Clears(r)
  BY <1>4 DEF Clears, Closes, SameOtherwise, Closing
<1>5. CASE \E r \in Relays, w \in Ways : ThreadStep(r, w)
  BY <1>5 DEF ThreadStep, Reads, Gives, Writes, Drops, Reports, OnConnections, SameOtherwise, Closing
<1> QED
  BY <1>1, <1>2, <1>3, <1>4, <1>5 DEF Step

\* What a step does to the ends of a way.
LEMMA StepAtEnds ==
    ASSUME OrderInv, Step, NEW v \in Ways
    PROVE  /\ Put(v)' \in Nat /\ Put(v)' >= Put(v)
           /\ Other(v) \notin conn[Sink(v)].open => Got(v)' = Got(v)
           /\ Broken(Sink(v), v) => Arrived(v)' <= Arrived(v)
<1> DEFINE l == Line(Sink(v), v)
<1>0. /\ TypeOK /\ Got(v) \in Nat /\ Put(v) \in Nat /\ l \in Seq(Nat) /\ Len(l) \in Nat
      /\ Arrived(v) = Got(v) + Len(l)
  BY PlaceTypes, Topology DEF OrderInv, Arrived
<1>1. ASSUME Put(v)' = Put(v), Got(v)' = Got(v), Line(Sink(v), v)' = l
      PROVE  Put(v)' \in Nat /\ Put(v)' >= Put(v) /\ Arrived(v)' <= Arrived(v)
  <2>1. Arrived(v)' = Arrived(v)
    BY <1>0, <1>1 DEF Arrived
  <2> QED
    BY <1>0, <1>1, <2>1
<1>2. CASE \E w \in Ways : Sending(w)
  <2>1. PICK w \in Ways : Sending(w)
    BY <1>2
  <2>2. Put(v)' \in {Put(v), Put(v) + 1} /\ Got(v)' = Got(v)
    BY <2>1, Topology DEF Sending
  <2>3. Line(Sink(v), v)' = l
    BY <2>1, Topology DEF Sending, LinesBut
  <2>4. Arrived(v)' = Arrived(v)
    BY <1>0, <2>2, <2>3 DEF Arrived
  <2> QED
    BY <1>0, <2>2, <2>4
<1>3. CASE \E w \in Ways : Receiving(w)
  <2>1. PICK w \in Ways : Receiving(w)
    BY <1>3
  <2>2. Put(v)' = Put(v)
    BY <2>1 DEF Receiving
  <2>3. CASE w = v
    <3>1. Other(v) \in conn[Sink(v)].open
      BY <2>1, <2>3 DEF Receiving
    <3>2. Got(v)' = Got(v) + 1 /\ Line(Sink(v), v)' = Tail(l) /\ l # <<>>
      BY <1>0, <2>1, <2>3, ReceivingKeepsOrder DEF OrderInv, Receiving
    <3>3. Len(Line(Sink(v), v)') = Len(l) - 1
      BY <1>0, <3>2
    <3>4. Arrived(v)' = Arrived(v)
      BY <1>0, <3>2, <3>3 DEF Arrived
    <3> QED
      BY <1>0, <2>2, <3>1, <3>4
  <2>4. CASE w # v
    <3>1. Got(v)' = Got(v) /\ Line(Sink(v), v)' = l
      BY <2>1, <2>4, Topology DEF Receiving, LinesBut
    <3> QED
      BY <1>1, <2>2, <3>1
  <2> QED
    BY <2>3, <2>4
<1>4. CASE \E c \in Connections : Resetting(c)
  <2>1. PICK c \in Connections : Resetting(c)
    BY <1>4
  <2>2. Put(v)' = Put(v) /\ Got(v)' = Got(v)
    BY <2>1 DEF Resetting, SameEnds
  <2>3. CASE c = Sink(v)
    <3>1. PICK n \in 0 .. Len(l) : Line(Sink(v), v)' = SubSeq(l, 1, n)
      BY <2>1, <2>3 DEF Resetting
    <3>2. Len(Line(Sink(v), v)') = n
      BY <1>0, <3>1
    <3>3. Arrived(v)' = Got(v) + n
      BY <2>2, <3>2 DEF Arrived
    <3> QED
      BY <1>0, <2>2, <3>3
  <2>4. CASE c # Sink(v)
    <3>1. Line(Sink(v), v)' = l
      BY <2>1, <2>4, Topology DEF Resetting, Line
    <3> QED
      BY <1>1, <2>2, <3>1
  <2> QED
    BY <2>3, <2>4
<1>5. CASE (\E w \in Ways : Ending(w)) \/ (\E r \in Relays : Clears(r))
  <2>1. Put(v)' = Put(v) /\ Got(v)' = Got(v) /\ Line(Sink(v), v)' = l
    BY <1>5, Topology DEF Ending, Clears, Closes, SameEnds, SameLines, Line
  <2> QED
    BY <1>1, <2>1
<1>6. CASE \E r \in Relays, w \in Ways : ThreadStep(r, w)
  <2>1. PICK r \in Relays, w \in Ways : ThreadStep(r, w)
    BY <1>6
  <2>2. Put(v)' = Put(v) /\ Got(v)' = Got(v)
    BY <2>1 DEF ThreadStep, Reads, Gives, Writes, Drops, Reports, ends, Put, Got
  <2>3. CASE Broken(Sink(v), v)
    <3>1. Line(Sink(v), v)' = l
      BY <2>1, <2>3, Topology DEF ThreadStep, Reads, Gives, Writes, Drops, Reports, LinesBut, SameLines, Line
    <3> QED
      BY <1>1, <2>2, <3>1
  <2> QED
    BY <1>0, <2>2, <2>3
<1> QED
  BY <1>2, <1>3, <1>4, <1>5, <1>6 DEF Step

LEMMA Numbers ==
    TypeOK => \A v \in Ways : Got(v) \in Nat /\ Arrived(v) \in Nat
  BY PlaceTypes

LEMMA DoomStays ==
    ASSUME OrderInv, Step, TypeOK', NEW w \in Ways, Doomed(w)
    PROVE  Doomed(w)'
<1> DEFINE o == Other(w)
<1>1. /\ TypeOK /\ o \in Ways /\ Sink(o) = Source(w) /\ Other(o) = w
      /\ Source(w) \in Connections /\ Source(o) \in Connections
  BY Topology DEF OrderInv
<1>2. Closing /\ \A c \in Connections : conn[c].shut \subseteq conn'[c].shut
  BY <1>1, StepCloses
<1>3. /\ Put(o)' \in Nat /\ Put(o)' >= Put(o)
      /\ w \notin conn[Source(w)].open => Got(o)' = Got(o)
      /\ Broken(Source(w), o) => Arrived(o)' <= Arrived(o)
  BY <1>1, StepAtEnds
<1>4. Put(o) \in Nat /\ Got(o) \in Nat /\ Arrived(o) \in Nat
  BY <1>1, PlaceTypes
<1>5. Got(o)' \in Nat /\ Arrived(o)' \in Nat
  <2>1. (TypeOK => \A v \in Ways : Got(v) \in Nat /\ Arrived(v) \in Nat)'
    BY Numbers, PTL
  <2> QED
    BY <1>1, <2>1
<1>6. Broken(Source(w), o) => Broken(Source(w), o)'
  BY <1>1, <1>2 DEF Broken, Closing
<1>7. w \notin conn[Source(w)].open => w \notin conn'[Source(w)].open
  BY <1>1, <1>2 DEF Closing
<1>8. Ended(o) => Ended(o)'
  BY <1>1, <1>2 DEF Ended, Closing
<1> HIDE DEF o
<1>9. CASE Ended(o)
  BY <1>8, <1>9 DEF Doomed, o
<1>10. CASE w \notin conn[Source(w)].open /\ Got(o) < Put(o)
  <2>1. w \notin conn'[Source(w)].open /\ Got(o)' < Put(o)'
    BY <1>3, <1>4, <1>7, <1>10
  <2> QED
    BY <2>1 DEF Doomed, o
<1>11. CASE Broken(Source(w), o) /\ Arrived(o) < Put(o)
  <2>1. Broken(Source(w), o)' /\ Arrived(o)' < Put(o)'
    BY <1>3, <1>4, <1>5, <1>6, <1>11
  <2> QED
    BY <2>1 DEF Doomed, o
<1> QED
  BY <1>9, <1>10, <1>11 DEF Doomed, o

\* Every connection is read, or its source still sends nothing.
LEMMA NothingResets ==
    ASSUME TypeOK, NEW w \in Ways, Chain(w), ~Doomed(w), NEW c \in Connections
    PROVE  ~Resetting(c)
<1> DEFINE o == Other(w)
<1>1. SUFFICES ASSUME NEW end \in Ways \ conn[c].open PROVE Line(c, Other(end)) = <<>>
  BY DEF Resetting
<1>2. /\ end = w \/ end = o
      /\ Other(w) = o /\ Other(o) = w
      /\ c = Source(w) \/ c = "websocket" \/ c = Sink(w)
  BY Topology
<1>3. /\ o \notin conn[Source(w)].open => Pc(First(w), w) = "done"
      /\ w \notin conn["websocket"].open => o \notin conn[Source(w)].open
      /\ o \notin conn["websocket"].open => w \notin conn[Sink(w)].open
      /\ w \notin conn[Sink(w)].open => Pc(Second(w), w) = "done"
  BY DEF Chain, FirstCloses, SecondCloses
<1>4. Pc(First(w), w) = "done" => Line(Source(w), w) = <<>>
  BY DEF Chain, FirstCloses, Failed, Relaying
<1>5. Pc(Second(w), w) = "done" => w \notin conn["websocket"].open /\ Line("websocket", w) = <<>>
  BY DEF Chain, SecondCloses, Failed, Relaying
<1>6. o \notin conn[Source(w)].open \/ w \notin conn[Source(w)].open
        => /\ Line("websocket", o) = <<>> /\ Line(Sink(w), o) = <<>>
           /\ w \notin conn[Source(w)].open => Line(Source(w), o) = <<>>
  BY Emptied DEF Chain
<1>7. o \in conn[Sink(w)].open
  BY Topology DEF Doomed, Ended
<1> HIDE DEF o
<1>8. CASE c = Source(w)
  BY <1>2, <1>3, <1>4, <1>6, <1>8
<1>9. CASE c = "websocket"
  BY <1>2, <1>3, <1>5, <1>6, <1>9
<1>10. CASE c = Sink(w)
  BY <1>2, <1>3, <1>5, <1>6, <1>7, <1>10
<1> QED
  BY <1>2, <1>8, <1>9, <1>10

LEMMA EndsStepKeepsChain ==
    ASSUME OrderInv, NEW w \in Ways, Chain(w), ~Doomed(w)', NEW v \in Ways,
           Sending(v) \/ Receiving(v) \/ Ending(v)
    PROVE  Chain(w)'
<1> DEFINE o == Other(w)
<1>0. /\ o \in Ways /\ o # w /\ Source(o) = Sink(w) /\ Sink(o) = Source(w)
      /\ Source(w) \in Connections /\ "websocket" \in Connections /\ Sink(w) \in Connections
      /\ Source(w) # "websocket" /\ Sink(w) # "websocket" /\ Source(w) # Sink(w)
      /\ v = w \/ v = o
  BY Topology
<1>1. Counted'
  BY EndsStepCounts DEF Chain
<1>2. NoReset'
  BY DEF Sending, Receiving, Ending, SameOtherwise, Chain, NoReset
<1>3. UNCHANGED <<thread, clear, reports>>
  BY DEF Sending, Receiving, Ending
<1>4. ~Ending(o)
  <2>1. Ending(o) => Ended(o)'
    BY <1>0 DEF Ending, Ended
  <2> QED
    BY <2>1 DEF Doomed
<1>5. /\ o \in conn'[Source(w)].open <=> o \in conn[Source(w)].open
      /\ \A c \in Connections : c # Source(w) => conn'[c].open = conn[c].open
      /\ Ended(w) => Ended(w)'
  <2>1. CASE Sending(v) \/ Receiving(v)
    BY <1>0, <2>1 DEF Sending, Receiving, SameOpen, SameOtherwise, Ended
  <2>2. CASE Ending(w)
    BY <1>0, <2>2 DEF Ending, Ended
  <2> QED
    BY <1>0, <1>4, <2>1, <2>2
<1>6. Line("websocket", w)' = Line("websocket", w)
  BY <1>0 DEF Sending, Receiving, Ending, LinesBut, SameLines
<1>7. Ended(w) => Line(Source(w), w)' = Line(Source(w), w)
  BY <1>0 DEF Sending, Receiving, Ending, LinesBut, SameLines
<1>8. FirstCloses(w)'
  BY <1>0, <1>3, <1>5, <1>7 DEF Chain, FirstCloses, Failed, Relaying, Pc
<1>9. SecondCloses(w)'
  BY <1>0, <1>3, <1>5, <1>6 DEF Chain, SecondCloses, Failed, Relaying, Pc
<1> QED
  BY <1>1, <1>2, <1>8, <1>9 DEF Chain

\* Each relay closes the socket it was asked to, then the websocket.
LEMMA ClearKeepsChain ==
    ASSUME TypeOK, Linux = {}, NEW w \in Ways, Chain(w), NEW r \in Relays, Clears(r)
    PROVE  Chain(w)'
<1> DEFINE o == Other(w)
<1> DEFINE f == First(w)
<1> DEFINE s == Second(w)
<1>0. /\ o \in Ways /\ o # w /\ Other(o) = w /\ f \in Relays /\ s \in Relays /\ f # s
      /\ Outer(f) = w /\ Outer(s) = o
      /\ From(f, w) = Source(w) /\ From(f, o) = "websocket"
      /\ From(s, w) = "websocket" /\ From(s, o) = Sink(w)
      /\ Source(w) \in Connections /\ "websocket" \in Connections /\ Sink(w) \in Connections
      /\ Source(w) # "websocket" /\ Source(w) # Sink(w) /\ Sink(w) # "websocket"
      /\ r = f \/ r = s
  BY Topology
<1>1. /\ SameLines /\ SameEnds /\ UNCHANGED thread /\ Closing
      /\ \A c \in Connections : conn'[c].reset = conn[c].reset /\ conn'[c].shut = conn[c].shut
  BY DEF Clears, Closes, SameLines, SameOtherwise, Closing, Line
<1>2. Counted'
  <2>1. ASSUME NEW v \in Ways
        PROVE  Total(v)' = Put(v)'
    <3>1. /\ \A c \in Connections : Line(c, v)' = Line(c, v)
          /\ Put(v)' = Put(v) /\ Got(v)' = Got(v) /\ \A q \in Relays : In(q, v)' = In(q, v)
      BY <1>1 DEF SameLines, SameEnds, In, Pc
    <3> QED
      BY <3>1, CountsKept DEF Chain, Counted
  <2> QED
    BY <2>1 DEF Counted
<1>3. NoReset'
  BY <1>1 DEF Chain, NoReset
<1>4. \A q \in Relays, v \in Ways : Pc(q, v)' = Pc(q, v)
  BY <1>1 DEF Pc
<1>5. /\ Line(Source(w), w)' = Line(Source(w), w) /\ Line("websocket", w)' = Line("websocket", w)
      /\ Ended(w) => Ended(w)'
  BY <1>0, <1>1 DEF SameLines, Closing, Ended
<1>6. /\ reports'[f] \subseteq reports[f] /\ reports'[s] \subseteq reports[s]
      /\ clear'[f] # "idle" => clear[f] # "idle" \/ (r = f /\ reports[f] # {} /\ Closes(f, w))
      /\ clear'[s] # "idle" => clear[s] # "idle" \/ (r = s /\ reports[s] # {} /\ Closes(s, o))
  BY <1>0 DEF Clears
<1>7. \/ r = f /\ reports[f] # {} /\ Closes(f, w)
      \/ r = f /\ clear[f] # "idle" /\ Closes(f, o)
      \/ r = s /\ reports[s] # {} /\ Closes(s, o)
      \/ r = s /\ clear[s] # "idle" /\ Closes(s, w)
      \/ UNCHANGED conn
  BY <1>0 DEF Clears
<1>8. \A q \in Relays, v \in Ways : Closes(q, v) =>
        /\ \A d \in Connections : d # From(q, v) => conn'[d].open = conn[d].open
        /\ conn'[From(q, v)].open = conn[From(q, v)].open \ {Other(v)}
  BY DEF Closes
<1>9. /\ o \notin conn'[Source(w)].open
            <=> o \notin conn[Source(w)].open \/ (r = f /\ reports[f] # {} /\ Closes(f, w))
      /\ w \notin conn'["websocket"].open => w \notin conn["websocket"].open \/ (r = f /\ clear[f] # "idle")
      /\ w \notin conn'[Sink(w)].open
            <=> w \notin conn[Sink(w)].open \/ (r = s /\ reports[s] # {} /\ Closes(s, o))
      /\ o \notin conn'["websocket"].open => o \notin conn["websocket"].open \/ (r = s /\ clear[s] # "idle")
  BY <1>0, <1>7, <1>8
<1>10. w \notin conn["websocket"].open => w \notin conn'["websocket"].open
  BY <1>0, <1>1 DEF Closing
<1> HIDE DEF o, f, s
<1>11. FirstCloses(w)'
  <2>1. /\ Failed(f, w) => Ended(w) /\ Line(Source(w), w) = <<>>
        /\ reports[f] # {} => Pc(f, w) = "done"
        /\ clear[f] # "idle" => o \notin conn[Source(w)].open
        /\ o \notin conn[Source(w)].open => Pc(f, w) = "done"
        /\ w \notin conn["websocket"].open => o \notin conn[Source(w)].open
        /\ Failed(f, o) => w \notin conn["websocket"].open
    BY DEF Chain, FirstCloses, f, o
  <2>2. Failed(f, w)' <=> Failed(f, w)
    BY <1>0, <1>4 DEF Failed, Relaying
  <2>3. Failed(f, o)' <=> Failed(f, o)
    BY <1>0, <1>4 DEF Failed, Relaying
  <2>4. /\ Failed(f, w)' => Ended(w)' /\ Line(Source(w), w)' = <<>>
        /\ reports'[f] # {} => Pc(f, w)' = "done"
        /\ clear'[f] # "idle" => o \notin conn'[Source(w)].open
        /\ o \notin conn'[Source(w)].open => Pc(f, w)' = "done"
        /\ w \notin conn'["websocket"].open => o \notin conn'[Source(w)].open
        /\ Failed(f, o)' => w \notin conn'["websocket"].open
    BY <1>0, <1>4, <1>5, <1>6, <1>9, <1>10, <2>1, <2>2, <2>3
  <2> QED
    BY <2>4 DEF FirstCloses, f, o
<1>12. SecondCloses(w)'
  <2>1. /\ Failed(s, w) => w \notin conn["websocket"].open /\ Line("websocket", w) = <<>>
        /\ reports[s] # {} => Pc(s, w) = "done"
        /\ clear[s] # "idle" => w \notin conn[Sink(w)].open
        /\ w \notin conn[Sink(w)].open => Pc(s, w) = "done"
        /\ o \notin conn["websocket"].open => w \notin conn[Sink(w)].open
        /\ Failed(s, o) => w \notin conn[Sink(w)].open
    BY DEF Chain, SecondCloses, s, o
  <2>2. Failed(s, w)' <=> Failed(s, w)
    BY <1>0, <1>4 DEF Failed, Relaying
  <2>3. Failed(s, o)' <=> Failed(s, o)
    BY <1>0, <1>4 DEF Failed, Relaying
  <2>4. /\ Failed(s, w)' => w \notin conn'["websocket"].open /\ Line("websocket", w)' = <<>>
        /\ reports'[s] # {} => Pc(s, w)' = "done"
        /\ clear'[s] # "idle" => w \notin conn'[Sink(w)].open
        /\ w \notin conn'[Sink(w)].open => Pc(s, w)' = "done"
        /\ o \notin conn'["websocket"].open => w \notin conn'[Sink(w)].open
        /\ Failed(s, o)' => w \notin conn'[Sink(w)].open
    BY <1>0, <1>4, <1>5, <1>6, <1>9, <1>10, <2>1, <2>2, <2>3
  <2> QED
    BY <2>4 DEF SecondCloses, s, o
<1> QED
  BY <1>2, <1>3, <1>11, <1>12 DEF Chain

\* A thread's step keeps the chain when a relay that fails has reason to, and one
\* that reports or closes has failed.
LEMMA ThreadKeepsChain ==
    ASSUME TypeOK, NEW w \in Ways, Chain(w), SameOpen, SameOtherwise, UNCHANGED clear, Counted',
           Failed(First(w), w)' => Ended(w) /\ Line(Source(w), w)' = <<>>,
           Failed(First(w), Other(w))' => w \notin conn["websocket"].open,
           Failed(Second(w), w)' => w \notin conn["websocket"].open /\ Line("websocket", w)' = <<>>,
           Failed(Second(w), Other(w))' => w \notin conn[Sink(w)].open,
           \A r \in Relays : /\ reports'[r] # {} => Pc(r, w)' = "done"
                             /\ Pc(r, w) = "done" => Pc(r, w)' = "done"
    PROVE  Chain(w)'
<1> DEFINE o == Other(w)
<1> DEFINE f == First(w)
<1> DEFINE s == Second(w)
<1>1. /\ conn'[Source(w)].open = conn[Source(w)].open
      /\ conn'["websocket"].open = conn["websocket"].open
      /\ conn'[Sink(w)].open = conn[Sink(w)].open
  BY Topology DEF SameOpen
<1>2. NoReset'
  BY DEF Chain, NoReset, SameOtherwise
<1>3. Ended(w)' <=> Ended(w)
  BY Topology DEF SameOpen, SameOtherwise, Ended
<1>4. f \in Relays /\ s \in Relays
  BY Topology
<1> HIDE DEF o, f, s
<1>5. FirstCloses(w)'
  <2>1. /\ clear[f] # "idle" => o \notin conn[Source(w)].open
        /\ o \notin conn[Source(w)].open => Pc(f, w) = "done"
        /\ w \notin conn["websocket"].open => o \notin conn[Source(w)].open
    BY DEF Chain, FirstCloses, f, o
  <2>2. /\ Failed(f, w)' => Ended(w)' /\ Line(Source(w), w)' = <<>>
        /\ Failed(f, o)' => w \notin conn'["websocket"].open
    BY <1>1, <1>3 DEF f, o
  <2>3. /\ reports'[f] # {} => Pc(f, w)' = "done"
        /\ clear'[f] # "idle" => o \notin conn'[Source(w)].open
        /\ o \notin conn'[Source(w)].open => Pc(f, w)' = "done"
        /\ w \notin conn'["websocket"].open => o \notin conn'[Source(w)].open
    BY <1>1, <1>4, <2>1
  <2> QED
    BY <2>2, <2>3 DEF FirstCloses, f, o
<1>6. SecondCloses(w)'
  <2>1. /\ clear[s] # "idle" => w \notin conn[Sink(w)].open
        /\ w \notin conn[Sink(w)].open => Pc(s, w) = "done"
        /\ o \notin conn["websocket"].open => w \notin conn[Sink(w)].open
    BY DEF Chain, SecondCloses, s, o
  <2>2. /\ Failed(s, w)' => w \notin conn'["websocket"].open /\ Line("websocket", w)' = <<>>
        /\ Failed(s, o)' => w \notin conn'[Sink(w)].open
    BY <1>1 DEF s, o
  <2>3. /\ reports'[s] # {} => Pc(s, w)' = "done"
        /\ clear'[s] # "idle" => w \notin conn'[Sink(w)].open
        /\ w \notin conn'[Sink(w)].open => Pc(s, w)' = "done"
        /\ o \notin conn'["websocket"].open => w \notin conn'[Sink(w)].open
    BY <1>1, <1>4, <2>1
  <2> QED
    BY <2>2, <2>3 DEF SecondCloses, s, o
<1> QED
  BY <1>2, <1>5, <1>6 DEF Chain

\* What the chain says of each relay.
LEMMA ChainReads ==
    ASSUME NEW w \in Ways, Chain(w)
    PROVE  /\ Other(w) \notin conn[Source(w)].open => Pc(First(w), w) = "done"
           /\ w \notin conn["websocket"].open => Other(w) \notin conn[Source(w)].open
           /\ w \notin conn[Sink(w)].open => Pc(Second(w), w) = "done"
           /\ Other(w) \notin conn["websocket"].open => w \notin conn[Sink(w)].open
           /\ Pc(Second(w), w) = "done" => w \notin conn["websocket"].open
  BY DEF Chain, FirstCloses, SecondCloses, Failed, Relaying

LEMMA NothingDrops ==
    ASSUME TypeOK, NEW w \in Ways, Chain(w), ~Doomed(w), NEW r \in Relays, NEW v \in Ways
    PROVE  ~Drops(r, v)
<1> DEFINE o == Other(w)
<1>1. SUFFICES ASSUME Pc(r, v) = "write", v \notin conn[To(r, v)].open
               PROVE  FALSE
  BY FromTo DEF Drops, Broken, Chain, NoReset
<1>2. In(r, v) = 1
  BY <1>1 DEF In
<1>3. /\ o \notin conn[Source(w)].open => Pc(First(w), w) = "done"
      /\ w \notin conn["websocket"].open => o \notin conn[Source(w)].open
      /\ w \notin conn[Sink(w)].open => Pc(Second(w), w) = "done"
      /\ o \notin conn["websocket"].open => w \notin conn[Sink(w)].open
      /\ Pc(Second(w), w) = "done" => w \notin conn["websocket"].open
  BY ChainReads
<1>4. o \notin conn[Source(w)].open => In(First(w), o) = 0 /\ In(Second(w), o) = 0
  BY Emptied DEF Chain
<1>5. /\ v = w \/ v = o
      /\ r = First(w) \/ r = Second(w)
      /\ To(First(w), w) = "websocket" /\ To(First(w), o) = Source(w)
      /\ To(Second(w), w) = Sink(w) /\ To(Second(w), o) = "websocket"
  BY Topology
<1> HIDE DEF o
<1> QED
  BY <1>1, <1>2, <1>3, <1>4, <1>5

LEMMA RelayKeepsChain ==
    ASSUME TypeOK, NEW w \in Ways, Chain(w), NEW r \in Relays, NEW v \in Ways,
           late[r] = {}, Reads(r, v) \/ Writes(r, v), Counted'
    PROVE  Chain(w)'
<1>1. SameOpen /\ SameOtherwise /\ UNCHANGED <<clear, reports>>
  BY DEF Reads, Writes, OnConnections
<1>2. /\ thread'[r][v].pc \in {"read", "write"} /\ Pc(r, v) \in {"read", "write"}
      /\ \A q \in Relays, u \in Ways : q # r \/ u # v => Pc(q, u)' = Pc(q, u)
  BY DEF Reads, Writes, Moves, Pc
<1>3. \A q \in Relays, u \in Ways : /\ Failed(q, u)' <=> Failed(q, u)
                                    /\ Pc(q, u) = "done" <=> Pc(q, u)' = "done"
  BY <1>2 DEF Failed, Relaying, Pc
<1>4. /\ First(w) \in Relays /\ Second(w) \in Relays /\ Other(w) \in Ways
      /\ From(First(w), w) = Source(w) /\ From(Second(w), w) = "websocket"
      /\ To(First(w), w) = "websocket" /\ To(Second(w), w) = Sink(w)
      /\ Source(w) \in Connections /\ "websocket" \in Connections /\ Source(w) # "websocket"
      /\ Sink(w) # "websocket" /\ Source(w) # Sink(w)
      /\ r = First(w) \/ r = Second(w)
  BY Topology
<1>5. ASSUME Failed(First(w), w)
      PROVE  Line(Source(w), w)' = Line(Source(w), w)
  <2>1. ~(r = First(w) /\ v = w)
    BY <1>2, <1>5 DEF Failed, Relaying
  <2> QED
    BY <1>4, <2>1 DEF Reads, Writes, LinesBut
<1>6. ASSUME Failed(Second(w), w)
      PROVE  Line("websocket", w)' = Line("websocket", w)
  <2>1. ~(r = Second(w) /\ v = w)
    BY <1>2, <1>6 DEF Failed, Relaying
  <2>2. w \notin conn["websocket"].open
    BY <1>6 DEF Chain, SecondCloses
  <2>3. ~(Writes(r, v) /\ r = First(w) /\ v = w)
    BY <1>4, <2>2 DEF Writes, Broken
  <2>4. CASE v = w
    BY <1>4, <2>1, <2>3, <2>4 DEF Reads, LinesBut
  <2>5. CASE v # w
    BY <1>4, <2>5 DEF Reads, Writes, LinesBut
  <2> QED
    BY <2>4, <2>5
<1>7. /\ Failed(First(w), w) => Ended(w) /\ Line(Source(w), w) = <<>>
      /\ reports[First(w)] # {} => Pc(First(w), w) = "done"
      /\ Failed(First(w), Other(w)) => w \notin conn["websocket"].open
  BY DEF Chain, FirstCloses
<1>8. /\ Failed(Second(w), w) => w \notin conn["websocket"].open /\ Line("websocket", w) = <<>>
      /\ reports[Second(w)] # {} => Pc(Second(w), w) = "done"
      /\ Failed(Second(w), Other(w)) => w \notin conn[Sink(w)].open
  BY DEF Chain, SecondCloses
<1>9. \A q \in Relays : reports'[q] # {} => Pc(q, w)' = "done"
  BY <1>1, <1>3, <1>7, <1>8, Topology
<1> QED
  BY <1>1, <1>3, <1>4, <1>5, <1>6, <1>7, <1>8, <1>9, ThreadKeepsChain

\* Why each thread may meet the end of what it reads.
LEMMA GivesWithReason ==
    ASSUME TypeOK, NEW w \in Ways, Chain(w), ~Doomed(w), NEW r \in Relays, NEW v \in Ways, Gives(r, v)
    PROVE  /\ r = First(w) /\ v = w => Ended(w) /\ Line(Source(w), w) = <<>>
           /\ r = First(w) /\ v = Other(w) => w \notin conn["websocket"].open
           /\ r = Second(w) /\ v = w => w \notin conn["websocket"].open /\ Line("websocket", w) = <<>>
           /\ r = Second(w) /\ v = Other(w) => w \notin conn[Sink(w)].open
<1> DEFINE o == Other(w)
<1>1. /\ Pc(r, v) # "done"
      /\ Other(v) \notin conn[From(r, v)].open \/ AtEnd(From(r, v), v)
  BY DEF Gives, Mine
<1>2. \A c \in Connections, u \in Ways : AtEnd(c, u) =>
        /\ Line(c, u) = <<>>
        /\ u \notin conn[c].open \/ u \in conn[c].shut
  BY DEF AtEnd, Line, Chain, NoReset
<1>3. /\ o \notin conn[Source(w)].open => Pc(First(w), w) = "done"
      /\ w \notin conn["websocket"].open => o \notin conn[Source(w)].open
      /\ w \notin conn[Sink(w)].open => Pc(Second(w), w) = "done"
      /\ o \notin conn["websocket"].open => w \notin conn[Sink(w)].open
      /\ Pc(Second(w), w) = "done" => w \notin conn["websocket"].open
  BY ChainReads
<1>4. /\ From(First(w), w) = Source(w) /\ From(First(w), o) = "websocket"
      /\ From(Second(w), w) = "websocket" /\ From(Second(w), o) = Sink(w)
      /\ Other(o) = w /\ o \in Ways
      /\ Source(w) \in Connections /\ "websocket" \in Connections /\ Sink(w) \in Connections
  BY Topology
<1>5. o \in conn[Sink(w)].open /\ conn[Sink(w)].shut = {} /\ conn["websocket"].shut = {}
  BY Shut, Topology DEF Doomed, Ended
<1>6. CASE r = First(w) /\ v = w
  <2>1. AtEnd(Source(w), w)
    BY <1>1, <1>3, <1>4, <1>6
  <2>2. Ended(w) /\ Line(Source(w), w) = <<>>
    BY <1>2, <1>4, <2>1 DEF Ended
  <2> QED
    BY <1>6, <2>2, Topology
<1>7. CASE r = First(w) /\ v = o
  BY <1>1, <1>2, <1>3, <1>4, <1>5, <1>7, Topology
<1>8. CASE r = Second(w) /\ v = w
  BY <1>1, <1>2, <1>3, <1>4, <1>5, <1>8, Topology
<1>9. CASE r = Second(w) /\ v = o
  BY <1>1, <1>2, <1>3, <1>4, <1>5, <1>9, Topology
<1> QED
  BY <1>6, <1>7, <1>8, <1>9, Topology

LEMMA GivesKeepsChain ==
    ASSUME TypeOK, NEW w \in Ways, Chain(w), ~Doomed(w), NEW r \in Relays, NEW v \in Ways,
           late[r] = {}, Gives(r, v), Counted'
    PROVE  Chain(w)'
<1>1. SameOpen /\ SameOtherwise /\ SameLines /\ UNCHANGED <<clear, reports>>
  BY DEF Gives, OnConnections
<1>2. Pc(r, v) = "read" /\ \A q \in Relays, u \in Ways : q # r \/ u # v => Pc(q, u)' = Pc(q, u)
  BY DEF Gives, Moves, Pc
<1>3. \A q \in Relays, u \in Ways : /\ Failed(q, u)' => Failed(q, u) \/ (q = r /\ u = v)
                                    /\ Pc(q, u) = "done" => Pc(q, u)' = "done"
  BY <1>2 DEF Failed, Relaying
<1>4. /\ r = First(w) /\ v = w => Ended(w) /\ Line(Source(w), w) = <<>>
      /\ r = First(w) /\ v = Other(w) => w \notin conn["websocket"].open
      /\ r = Second(w) /\ v = w => w \notin conn["websocket"].open /\ Line("websocket", w) = <<>>
      /\ r = Second(w) /\ v = Other(w) => w \notin conn[Sink(w)].open
  BY GivesWithReason
<1>5. /\ Failed(First(w), w) => Ended(w) /\ Line(Source(w), w) = <<>>
      /\ reports[First(w)] # {} => Pc(First(w), w) = "done"
      /\ Failed(First(w), Other(w)) => w \notin conn["websocket"].open
  BY DEF Chain, FirstCloses
<1>6. /\ Failed(Second(w), w) => w \notin conn["websocket"].open /\ Line("websocket", w) = <<>>
      /\ reports[Second(w)] # {} => Pc(Second(w), w) = "done"
      /\ Failed(Second(w), Other(w)) => w \notin conn[Sink(w)].open
  BY DEF Chain, SecondCloses
<1>7. /\ First(w) \in Relays /\ Second(w) \in Relays /\ Other(w) \in Ways
      /\ Line(Source(w), w)' = Line(Source(w), w) /\ Line("websocket", w)' = Line("websocket", w)
  BY <1>1, Topology DEF SameLines
<1>8. \A q \in Relays : /\ reports'[q] # {} => Pc(q, w)' = "done"
                        /\ Pc(q, w) = "done" => Pc(q, w)' = "done"
  BY <1>1, <1>3, <1>5, <1>6, Topology
<1>9. /\ Failed(First(w), w)' => Ended(w) /\ Line(Source(w), w)' = <<>>
      /\ Failed(First(w), Other(w))' => w \notin conn["websocket"].open
  BY <1>3, <1>4, <1>5, <1>7
<1>10. /\ Failed(Second(w), w)' => w \notin conn["websocket"].open /\ Line("websocket", w)' = <<>>
       /\ Failed(Second(w), Other(w))' => w \notin conn[Sink(w)].open
  BY <1>3, <1>4, <1>6, <1>7
<1> QED
  BY <1>1, <1>8, <1>9, <1>10, ThreadKeepsChain

\* Who reports has failed, and then so has the thread that reads the way.
LEMMA ReportsKeepsChain ==
    ASSUME TypeOK, NEW w \in Ways, Chain(w), NEW r \in Relays, NEW v \in Ways, Reports(r, v), Counted'
    PROVE  Chain(w)'
<1>1. SameOpen /\ SameOtherwise /\ SameLines /\ UNCHANGED clear
  BY DEF Reports, SameOpen, SameOtherwise, SameLines, Line
<1>2. /\ Pc(r, v) = "error" /\ Pc(r, v)' = "done" /\ Failed(r, v)
      /\ \A q \in Relays, u \in Ways : q # r \/ u # v => Pc(q, u)' = Pc(q, u)
  BY DEF Reports, Moves, Pc, Failed, Relaying
<1>3. \A q \in Relays, u \in Ways : /\ Failed(q, u)' => Failed(q, u)
                                    /\ Pc(q, u) = "done" => Pc(q, u)' = "done"
  BY <1>2 DEF Failed, Relaying
<1>4. \A q \in Relays : q # r => reports'[q] = reports[q]
  BY DEF Reports, TypeOK
<1>5. /\ Failed(First(w), w) => Ended(w) /\ Line(Source(w), w) = <<>>
      /\ reports[First(w)] # {} => Pc(First(w), w) = "done"
      /\ Failed(First(w), Other(w)) => w \notin conn["websocket"].open
  BY DEF Chain, FirstCloses
<1>6. /\ Failed(Second(w), w) => w \notin conn["websocket"].open /\ Line("websocket", w) = <<>>
      /\ reports[Second(w)] # {} => Pc(Second(w), w) = "done"
      /\ Failed(Second(w), Other(w)) => w \notin conn[Sink(w)].open
  BY DEF Chain, SecondCloses
<1>7. /\ First(w) \in Relays /\ Second(w) \in Relays /\ Other(w) \in Ways
      /\ r = First(w) \/ r = Second(w)
      /\ v = w \/ v = Other(w)
      /\ Line(Source(w), w)' = Line(Source(w), w) /\ Line("websocket", w)' = Line("websocket", w)
  BY <1>1, Topology DEF SameLines
<1>8. Pc(r, w)' = "done"
  <2>1. CASE v = w
    BY <1>2, <2>1
  <2>2. CASE v = Other(w)
    <3>1. r = First(w) => Pc(r, w) = "done"
      BY <1>2, <1>5, <2>2, ChainReads
    <3>2. r = Second(w) => Pc(r, w) = "done"
      BY <1>2, <1>6, <2>2, ChainReads
    <3> QED
      BY <1>3, <1>7, <3>1, <3>2
  <2> QED
    BY <1>7, <2>1, <2>2
<1>9. \A q \in Relays : /\ reports'[q] # {} => Pc(q, w)' = "done"
                        /\ Pc(q, w) = "done" => Pc(q, w)' = "done"
  BY <1>3, <1>4, <1>5, <1>6, <1>8, Topology
<1>10. /\ Failed(First(w), w)' => Ended(w) /\ Line(Source(w), w)' = <<>>
       /\ Failed(First(w), Other(w))' => w \notin conn["websocket"].open
  BY <1>3, <1>5, <1>7
<1>11. /\ Failed(Second(w), w)' => w \notin conn["websocket"].open /\ Line("websocket", w)' = <<>>
       /\ Failed(Second(w), Other(w))' => w \notin conn[Sink(w)].open
  BY <1>3, <1>6, <1>7
<1> QED
  BY <1>1, <1>9, <1>10, <1>11, ThreadKeepsChain

LEMMA StepKeepsWhole ==
    ASSUME OrderInv, TypeOK', Linux = {}, \A r \in Relays : late[r] = {}, Step,
           NEW w \in Ways, Whole(w)
    PROVE  Whole(w)'
<1>0. TypeOK
  BY DEF OrderInv
<1>1. SUFFICES ASSUME ~Doomed(w)' PROVE Chain(w)'
  BY DEF Whole
<1>2. ~Doomed(w) /\ Chain(w)
  BY <1>1, DoomStays DEF Whole
<1>3. CASE \E v \in Ways : Sending(v) \/ Receiving(v) \/ Ending(v)
  BY <1>1, <1>2, <1>3, EndsStepKeepsChain
<1>4. CASE \E c \in Connections : Resetting(c)
  BY <1>0, <1>2, <1>4, NothingResets
<1>5. CASE \E r \in Relays : Clears(r)
  BY <1>0, <1>2, <1>5, ClearKeepsChain
<1>6. CASE \E r \in Relays, v \in Ways : ThreadStep(r, v)
  <2>1. PICK r \in Relays, v \in Ways : ThreadStep(r, v)
    BY <1>6
  <2>2. ~Drops(r, v) /\ late[r] = {}
    BY <1>0, <1>2, NothingDrops
  <2>3. Counted'
    BY <1>0, <1>2, <2>1, <2>2, ThreadStepCounts DEF Chain
  <2>4. CASE Reads(r, v) \/ Writes(r, v)
    BY <1>0, <1>2, <2>2, <2>3, <2>4, RelayKeepsChain
  <2>5. CASE Gives(r, v)
    BY <1>0, <1>2, <2>2, <2>3, <2>5, GivesKeepsChain
  <2>6. CASE Reports(r, v)
    BY <1>0, <1>2, <2>3, <2>6, ReportsKeepsChain
  <2> QED
    BY <2>1, <2>2, <2>4, <2>5, <2>6 DEF ThreadStep
<1> QED
  BY <1>3, <1>4, <1>5, <1>6 DEF Step

LEMMA NothingIsLate ==
    ASSUME Linux = {}, \A r \in Relays : late[r] = {}, Step
    PROVE  late' = late
  BY DEF Step, Sending, Receiving, Ending, Resetting, Clears, Closes, ThreadStep, Reads, Gives,
     Writes, Drops, Reports, OnConnections

LEMMA InitWhole ==
    ASSUME Init
    PROVE  WholeInv
<1>1. TypeOK /\ OrderInv
  BY InitTypeOK, InitOrder
<1>2. \A r \in Relays : late[r] = {} /\ reports[r] = {} /\ clear[r] = "idle"
  BY DEF Init
<1>3. \A c \in Connections : conn[c].open = Ways /\ conn[c].reset = "no"
  BY DEF Init
<1>4. \A r \in Relays, v \in Ways : Pc(r, v) = "read" /\ In(r, v) = 0
  BY DEF Init, Pc, In
<1>5. ASSUME NEW v \in Ways
      PROVE  Total(v) = Put(v)
  <2>1. \A c \in Connections : Line(c, v) = <<>>
    BY DEF Init, Line, Ways
  <2>2. /\ Line(Sink(v), v) = <<>> /\ Line("websocket", v) = <<>> /\ Line(Source(v), v) = <<>>
        /\ In(First(v), v) = 0 /\ In(Second(v), v) = 0
    BY <1>4, <2>1, Topology
  <2>3. Put(v) = 0 /\ Got(v) = 0 /\ Len(<<>>) = 0
    BY DEF Init, Put, Got
  <2> QED
    BY <2>2, <2>3 DEF Total, AtFirst, Between, AtSecond, Arrived
<1>6. ASSUME NEW w \in Ways
      PROVE  Chain(w)
  <2>1. FirstCloses(w)
    BY <1>2, <1>3, <1>4, Topology DEF FirstCloses, Failed, Relaying
  <2>2. SecondCloses(w)
    BY <1>2, <1>3, <1>4, Topology DEF SecondCloses, Failed, Relaying
  <2> QED
    BY <1>3, <1>5, <2>1, <2>2 DEF Chain, Counted, NoReset
<1> QED
  BY <1>1, <1>2, <1>6 DEF WholeInv, Whole

LEMMA NextKeepsWhole ==
    ASSUME WholeInv, [Next]_vars
    PROVE  WholeInv'
<1>0. OrderInv /\ OrderInv'
  BY NextKeepsOrder DEF WholeInv
<1>1. ASSUME Linux' = {}
      PROVE  (\A r \in Relays : late'[r] = {}) /\ \A w \in Ways : Whole(w)'
  <2>1. CASE Next
    <3>1. TypeOK' /\ Linux = {} /\ Step
      BY <1>0, <1>1, <2>1, Steps DEF OrderInv
    <3>2. (\A r \in Relays : late[r] = {}) /\ \A w \in Ways : Whole(w)
      BY <3>1 DEF WholeInv
    <3>3. \A r \in Relays : late'[r] = {}
      BY <3>1, <3>2, NothingIsLate
    <3> QED
      BY <1>0, <3>1, <3>2, <3>3, StepKeepsWhole
  <2>2. CASE UNCHANGED vars
    <3>1. UNCHANGED <<Linux, conn, thread, clear, reports, late, sent, answered, target_got, browser_got>>
      BY <2>2 DEF vars, moves, ends
    <3>2. (\A r \in Relays : late[r] = {}) /\ \A w \in Ways : Whole(w)
      BY <1>1, <3>1 DEF WholeInv
    <3>3. ASSUME NEW w \in Ways
          PROVE  Whole(w)' <=> Whole(w)
      <4>1. \A v \in Ways : /\ Put(v)' = Put(v) /\ Got(v)' = Got(v)
                            /\ Arrived(v)' = Arrived(v) /\ Total(v)' = Total(v)
                            /\ Ended(v)' <=> Ended(v)
        BY <3>1 DEF Put, Got, Arrived, Total, AtFirst, Between, AtSecond, In, Pc, Line, Ended
      <4>2. Doomed(w)' <=> Doomed(w)
        BY <3>1, <4>1, Topology DEF Doomed, Broken
      <4>3. Chain(w)' <=> Chain(w)
        BY <3>1, <4>1 DEF Chain, Counted, NoReset, FirstCloses, SecondCloses, Failed, Relaying, Pc, Line
      <4> QED
        BY <4>2, <4>3 DEF Whole
    <3> QED
      BY <3>1, <3>2, <3>3
  <2> QED
    BY <2>1, <2>2
<1> QED
  BY <1>0, <1>1 DEF WholeInv

\* A sink that sees the end of a way has all of it.
LEMMA EndComesLast ==
    ASSUME WholeInv, Linux = {}, NEW w \in Ways, AtEnd(Sink(w), w), ~Ended(Other(w)),
           Got(Other(w)) = Put(Other(w))
    PROVE  Got(w) = Put(w)
<1> DEFINE o == Other(w)
<1>0. /\ TypeOK /\ Whole(w) /\ o \in Ways /\ Sink(o) = Source(w)
      /\ Sink(w) \in Connections /\ Source(w) \in Connections
  BY Topology DEF WholeInv, OrderInv
<1>1. Got(o) \in Nat /\ Put(o) \in Nat /\ Arrived(o) = Got(o) + Len(Line(Source(w), o))
      /\ Len(Line(Source(w), o)) \in Nat /\ Got(w) \in Nat
  BY <1>0, PlaceTypes DEF Arrived
<1>2. ~Doomed(w)
  BY <1>1 DEF Doomed
<1>3. Chain(w)
  BY <1>0, <1>2 DEF Whole
<1>4. /\ o \notin conn[Source(w)].open => Pc(First(w), w) = "done"
      /\ w \notin conn["websocket"].open => o \notin conn[Source(w)].open
      /\ w \notin conn[Sink(w)].open => Pc(Second(w), w) = "done"
      /\ Pc(Second(w), w) = "done" => w \notin conn["websocket"].open
  BY <1>3, ChainReads
<1>5. Line(Sink(w), w) = <<>> /\ w \notin conn[Sink(w)].open
  BY <1>0, <1>3, Shut DEF AtEnd, Line, Chain, NoReset
<1>6. Pc(First(w), w) = "done" /\ Pc(Second(w), w) = "done"
  BY <1>4, <1>5
<1>7. Line(Source(w), w) = <<>> /\ Line("websocket", w) = <<>>
  BY <1>3, <1>6 DEF Chain, FirstCloses, SecondCloses, Failed, Relaying
<1>8. In(First(w), w) = 0 /\ In(Second(w), w) = 0 /\ Len(<<>>) = 0
  BY <1>6 DEF In
<1>9. Total(w) = Got(w)
  BY <1>1, <1>5, <1>7, <1>8 DEF Total, AtFirst, Between, AtSecond, Arrived
<1> QED
  BY <1>3, <1>9 DEF Chain, Counted

\* Where a close ends blocked calls, closings go from hop to hop behind the last
\* chunk: who sees an end without having ended his own sending, when nothing that he
\* sent is missing at the other side, has all of it (client_socket_item.cpp:41, :47).
THEOREM ArrivesWhole == Spec => []WholeMessages
<1>1. WholeInv => WholeMessages
  <2>1. ASSUME WholeInv, Linux = {}, BrowserSeesEnd, ~BrowserEnded, target_got = sent
        PROVE  browser_got = answered
    <3>1. "down" \in Ways /\ Sink("down") = "browser" /\ Other("down") = "up" /\ Source("up") = "browser"
      BY DEF Ways, Sink, Source, Other
    <3>2. AtEnd(Sink("down"), "down") /\ ~Ended("up")
      BY <2>1, <3>1 DEF BrowserSeesEnd, BrowserEnded, Ended
    <3>3. Got("up") = Put("up")
      BY <2>1 DEF Got, Put
    <3>4. Got("down") = Put("down")
      BY <2>1, <3>1, <3>2, <3>3, EndComesLast
    <3> QED
      BY <3>4 DEF Got, Put
  <2>2. ASSUME WholeInv, Linux = {}, TargetSeesEnd, ~TargetEnded, browser_got = answered
        PROVE  target_got = sent
    <3>1. "up" \in Ways /\ Sink("up") = "target" /\ Other("up") = "down" /\ Source("down") = "target"
      BY DEF Ways, Sink, Source, Other
    <3>2. AtEnd(Sink("up"), "up")
      BY <2>2, <3>1 DEF TargetSeesEnd
    <3>3. conn["target"].shut = {}
      BY <2>2 DEF WholeInv, OrderInv, TypeOK, ShutOK, Connections
    <3>4. ~Ended("down")
      BY <2>2, <3>1, <3>3 DEF TargetEnded, Ended
    <3>5. Got("down") = Put("down")
      BY <2>2 DEF Got, Put
    <3>6. Got("up") = Put("up")
      BY <2>2, <3>1, <3>2, <3>4, <3>5, EndComesLast
    <3> QED
      BY <3>6 DEF Got, Put
  <2> QED
    BY <2>1, <2>2 DEF WholeMessages
<1>2. Spec => Init /\ [][Next]_vars
  BY DEF Spec
<1> QED
  BY <1>1, <1>2, InitWhole, NextKeepsWhole, PTL
=============================================================================
