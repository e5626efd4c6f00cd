-------------------------- MODULE WebsocketServerProofs --------------------------
(***************************************************************************)
(* Proofs about the tunnel's server, for any number of connections.        *)
(***************************************************************************)
EXTENDS WebsocketServer, TLAPS

Started(i) == items[i].websocket_thread # "none"

(* Its websocket thread has ended, or will not be waited for.              *)
Over(i) == items[i].websocket_thread = "done" \/ items[i].fate # "normal"

(* The error that the websocket thread ends in is on its way to the map.   *)
Reported(i) ==
    "websocket" \in items[i].reports \cup items[i].erasing \/ items[i].mutex = "websocket"

(* The threads of an item against its Clear: what a Clear that begins when *)
(* the websocket thread has ended finds, it also leaves.                   *)
ItemInv(i) ==
    /\ items[i].mutex = "free" <=> items[i].clear = "idle"
    /\ ~Started(i) => /\ items[i].mutex = "free" /\ items[i].open = {}
                      /\ items[i].reports = {} /\ items[i].erasing = {}
                      /\ items[i].socket_thread = "none" /\ items[i].fate = "normal"
    /\ items[i].websocket_thread \notin {"none", "adopt"} => items[i].adopted = "yes"
    /\ ~Ended(i, "socket") =>
            "socket" \in items[i].joinable \/ items[i].websocket_thread = "assign"
    /\ items[i].erasing # {} => Over(i)
    /\ items[i].websocket_thread = "done" /\ "websocket" \notin items[i].reports =>
            \/ Dead(i)
            \/ items[i].clear = "join_socket" /\ "socket" \notin items[i].open

(* Where a thread that still runs, and an error that is over, can be.      *)
ListInv(i) ==
    /\ ~Over(i) /\ Started(i) => i \in websocket_map \cup {client}
    /\ items[i].websocket_thread = "done" /\ items[i].fate = "normal" =>
            Reported(i) \/ i \notin websocket_map \cup {client}
    /\ i \in websocket_map => Started(i) /\ items[i].fate # "terminated"

SettingUp == {"start", "assign", "insert"}

ServerTypes ==
    /\ owner \in {"off", "on", "join", "loop", "clear"}
    /\ acceptor \in {"null", "open", "closed"}
    /\ accept_thread \in {"none", "accept", "done"} \cup SettingUp
    /\ {client, item} \subseteq Items \cup {NoItem}
    /\ websocket_map \subseteq Items /\ todo \subseteq Items

ServerInv ==
    /\ client \in Items <=> accept_thread \in SettingUp
    /\ accept_thread \in {"assign", "insert"} => Started(client)
    /\ owner \in {"off", "loop", "clear"} \/ acceptor = "null" => accept_thread = "none"
    /\ owner = "off" \/ acceptor = "null" => websocket_map = {}
    /\ MapLocked => /\ todo \subseteq websocket_map
                    /\ \A i \in websocket_map : i \in todo \/ Over(i)
    /\ owner = "clear" => item \in Items /\ (items[item].mutex = "stop" \/ Over(item))

IInv ==
    /\ items \in [Items -> Item]
    /\ \A i \in Items : ItemInv(i) /\ ListInv(i)
    /\ ServerTypes /\ ServerInv

-----------------------------------------------------------------------------
(* What every step on an item in service does to it.                       *)
ItemStep(i) ==
    /\ items' \in [Items -> Item] /\ \A j \in Items \ {i} : items'[j] = items[j]
    /\ ItemInv(i)' /\ Started(i)'
    /\ Over(i) => Over(i)'
    /\ items[i].websocket_thread = "done" => items'[i].websocket_thread = "done"
    /\ items'[i].fate = "normal" => items[i].fate = "normal"

(* ... and, when it is none of Clear's or the destructor's, to its errors. *)
ThreadStep(i) ==
    /\ ItemStep(i) /\ Started(i)
    /\ items'[i].fate = items[i].fate /\ items'[i].mutex = items[i].mutex
    /\ Reported(i) => Reported(i)'
    /\ items'[i].websocket_thread = "done" => items[i].websocket_thread = "done" \/ Reported(i)'

LEMMA BecomesItem ==
    ASSUME NEW i \in Items, items \in [Items -> Item], NEW now \in Item,
           Becomes(i, now)
    PROVE  /\ items' \in [Items -> Item] /\ items'[i] = now
           /\ \A j \in Items \ {i} : items'[j] = items[j]
  BY DEF Becomes

LEMMA WebSocketGoesKeeps ==
    ASSUME NEW i \in Items, items \in [Items -> Item], ItemInv(i),
           NEW from \in {"request", "reply", "read", "greet", "forward"},
           NEW to \in {"reply", "read", "spawn", "forward", "error"},
           WebSocketGoes(i, from, to)
    PROVE  ThreadStep(i)
  BY DEF WebSocketGoes, Becomes, ThreadStep, ItemStep, ItemInv, Started, Over,
     Reported, Dead, Ended, Item, Sides, Reporters

LEMMA SocketGoesKeeps ==
    ASSUME NEW i \in Items, items \in [Items -> Item], ItemInv(i),
           NEW from \in {"read", "write"}, NEW to \in {"read", "write", "error"},
           SocketGoes(i, from, to)
    PROVE  ThreadStep(i)
  BY DEF SocketGoes, Becomes, ThreadStep, ItemStep, ItemInv, Started, Over,
     Reported, Dead, Ended, Item, Sides, Reporters

(* The other steps of the websocket thread.                                *)
LEMMA AdoptKeeps ==
    ASSUME NEW i \in Items, items \in [Items -> Item], ItemInv(i), Adopt(i)
    PROVE  ThreadStep(i)
<1> DEFINE late == items[i].late \cup IF items[i].clear = "join_websocket" THEN {"websocket"} ELSE {}
           now == [items[i] EXCEPT !.adopted = "yes", !.websocket_thread = "request", !.late = late]
<1>1. items[i] \in Item
  OBVIOUS
<1>2. late \in SUBSET Sides
  BY <1>1 DEF Item, Sides
<1>3. Becomes(i, now) /\ items[i].websocket_thread = "adopt"
  BY DEF Adopt
<1> HIDE DEF late
<1>4. now \in Item
  BY <1>1, <1>2 DEF Item
<1>5. /\ items' \in [Items -> Item] /\ items'[i] = now
      /\ \A j \in Items \ {i} : items'[j] = items[j]
  BY <1>3, <1>4, BecomesItem
<1>6. ItemInv(i)'
  BY <1>1, <1>3, <1>5 DEF ItemInv, Started, Over, Dead, Ended, Item, Sides
<1> QED
  BY <1>1, <1>3, <1>5, <1>6 DEF ThreadStep, ItemStep, Started, Over, Reported, Item

LEMMA DialKeeps ==
    ASSUME NEW i \in Items, items \in [Items -> Item], ItemInv(i), Dial(i)
    PROVE  ThreadStep(i)
<1> DEFINE late == items[i].late \cup IF items[i].clear = "join_socket" THEN {"socket"} ELSE {}
           now == [items[i] EXCEPT !.open = @ \cup {"socket"},
                    !.websocket_thread = "greet", !.late = late]
<1>1. items[i] \in Item
  OBVIOUS
<1>2. late \in SUBSET Sides
  BY <1>1 DEF Item, Sides
<1>3. Becomes(i, now) /\ items[i].websocket_thread = "connect"
  BY DEF Dial
<1> HIDE DEF late
<1>4. now \in Item
  BY <1>1, <1>2 DEF Item, Sides
<1>5. /\ items' \in [Items -> Item] /\ items'[i] = now
      /\ \A j \in Items \ {i} : items'[j] = items[j]
  BY <1>3, <1>4, BecomesItem
<1>6. ItemInv(i)'
  BY <1>1, <1>3, <1>5 DEF ItemInv, Started, Over, Dead, Ended, Item, Sides
<1> QED
  BY <1>1, <1>3, <1>5, <1>6 DEF ThreadStep, ItemStep, Started, Over, Reported, Item

LEMMA RefuseKeeps ==
    ASSUME NEW i \in Items, items \in [Items -> Item], ItemInv(i),
           items[i].websocket_thread = "request",
           Becomes(i, [items[i] EXCEPT !.open = @ \ {"websocket"},
                                       !.websocket_thread = "error"])
    PROVE  ThreadStep(i)
<1> DEFINE now == [items[i] EXCEPT !.open = @ \ {"websocket"}, !.websocket_thread = "error"]
<1>1. items[i] \in Item
  OBVIOUS
<1>2. now \in Item
  BY <1>1 DEF Item, Sides, Reporters
<1>3. /\ items' \in [Items -> Item] /\ items'[i] = now
      /\ \A j \in Items \ {i} : items'[j] = items[j]
  BY <1>2, BecomesItem
<1>4. ItemInv(i)'
  BY <1>1, <1>3 DEF ItemInv, Started, Over, Dead, Ended, Item, Sides
<1> QED
  BY <1>1, <1>3, <1>4 DEF ThreadStep, ItemStep, Started, Over, Reported, Item

LEMMA AcceptFailsKeeps ==
    ASSUME NEW i \in Items, items \in [Items -> Item], ItemInv(i),
           AcceptFails(i)
    PROVE  ThreadStep(i)
<1> DEFINE now == [items[i] EXCEPT !.open = @ \ {"websocket"}, !.websocket_thread = "read"]
<1>1. items[i] \in Item
  OBVIOUS
<1>2. now \in Item
  BY <1>1 DEF Item, Sides, Reporters
<1>3. /\ items' \in [Items -> Item] /\ items'[i] = now
      /\ \A j \in Items \ {i} : items'[j] = items[j]
  BY <1>2, BecomesItem DEF AcceptFails
<1>4. ItemInv(i)'
  BY <1>1, <1>3 DEF AcceptFails, ItemInv, Started, Over, Dead, Ended, Item, Sides
<1> QED
  BY <1>1, <1>3, <1>4 DEF AcceptFails, ThreadStep, ItemStep, Started, Over, Reported,
     Item

LEMMA FirstRequestKeeps ==
    ASSUME NEW i \in Items, items \in [Items -> Item], ItemInv(i),
           items[i].websocket_thread = "read",
           Becomes(i, [items[i] EXCEPT !.first = "no", !.websocket_thread = "connect"])
    PROVE  ThreadStep(i)
<1> DEFINE now == [items[i] EXCEPT !.first = "no", !.websocket_thread = "connect"]
<1>1. items[i] \in Item
  OBVIOUS
<1>2. now \in Item
  BY <1>1 DEF Item, Sides, Reporters
<1>3. /\ items' \in [Items -> Item] /\ items'[i] = now
      /\ \A j \in Items \ {i} : items'[j] = items[j]
  BY <1>2, BecomesItem
<1>4. ItemInv(i)'
  BY <1>1, <1>3 DEF ItemInv, Started, Over, Dead, Ended, Item, Sides
<1> QED
  BY <1>1, <1>3, <1>4 DEF ThreadStep, ItemStep, Started, Over, Reported, Item

LEMMA DialFailsKeeps ==
    ASSUME NEW i \in Items, items \in [Items -> Item], ItemInv(i), DialFails(i)
    PROVE  ThreadStep(i)
<1>1. items[i] \in Item
  OBVIOUS
<1>2. PICK dialled \in SUBSET {"socket"} :
        Becomes(i, [items[i] EXCEPT !.open = @ \cup dialled, !.websocket_thread = "read",
                                    !.reports = @ \cup {"decode"}])
  BY DEF DialFails
<1> DEFINE now == [items[i] EXCEPT !.open = @ \cup dialled, !.websocket_thread = "read",
                                   !.reports = @ \cup {"decode"}]
<1>3. now \in Item
  BY <1>1 DEF Item, Sides, Reporters
<1>4. /\ items' \in [Items -> Item] /\ items'[i] = now
      /\ \A j \in Items \ {i} : items'[j] = items[j]
  BY <1>2, <1>3, BecomesItem
<1>5. ItemInv(i)'
  BY <1>1, <1>4 DEF DialFails, ItemInv, Started, Over, Dead, Ended, Item, Sides
<1> QED
  BY <1>1, <1>4, <1>5 DEF DialFails, ThreadStep, ItemStep, Started, Over, Reported, Item

LEMMA GreetFailsKeeps ==
    ASSUME NEW i \in Items, items \in [Items -> Item], ItemInv(i), GreetFails(i)
    PROVE  ThreadStep(i)
<1>1. items[i] \in Item
  OBVIOUS
<1>2. PICK next \in {"spawn", "read"} :
        Becomes(i, [items[i] EXCEPT !.websocket_thread = next,
                                    !.reports = @ \cup {"decode"}])
  BY DEF GreetFails
<1> DEFINE now == [items[i] EXCEPT !.websocket_thread = next,
                                   !.reports = @ \cup {"decode"}]
<1>3. now \in Item
  BY <1>1 DEF Item, Sides, Reporters
<1>4. /\ items' \in [Items -> Item] /\ items'[i] = now
      /\ \A j \in Items \ {i} : items'[j] = items[j]
  BY <1>2, <1>3, BecomesItem
<1>5. ItemInv(i)'
  BY <1>1, <1>4 DEF GreetFails, ItemInv, Started, Over, Dead, Ended, Item, Sides
<1> QED
  BY <1>1, <1>4, <1>5 DEF GreetFails, ThreadStep, ItemStep, Started, Over, Reported, Item

LEMMA SpawnKeeps ==
    ASSUME NEW i \in Items, items \in [Items -> Item], ItemInv(i),
           Spawn(i)
    PROVE  ThreadStep(i)
<1> DEFINE now == [items[i] EXCEPT !.socket_thread = "read", !.websocket_thread = "assign"]
<1>1. items[i] \in Item
  OBVIOUS
<1>2. now \in Item
  BY <1>1 DEF Item, Sides, Reporters
<1>3. /\ items' \in [Items -> Item] /\ items'[i] = now
      /\ \A j \in Items \ {i} : items'[j] = items[j]
  BY <1>2, BecomesItem DEF Spawn
<1>4. ItemInv(i)'
  BY <1>1, <1>3 DEF Spawn, ItemInv, Started, Over, Dead, Ended, Item, Sides
<1> QED
  BY <1>1, <1>3, <1>4 DEF Spawn, ThreadStep, ItemStep, Started, Over, Reported,
     Item

LEMMA AssignSocketKeeps ==
    ASSUME NEW i \in Items, items \in [Items -> Item], ItemInv(i),
           AssignSocketThread(i)
    PROVE  ThreadStep(i)
<1> DEFINE now == [items[i] EXCEPT !.joinable = @ \cup {"socket"},
                                   !.websocket_thread = "read"]
<1>1. items[i] \in Item
  OBVIOUS
<1>2. now \in Item
  BY <1>1 DEF Item, Sides, Reporters
<1>3. /\ items' \in [Items -> Item] /\ items'[i] = now
      /\ \A j \in Items \ {i} : items'[j] = items[j]
  BY <1>2, BecomesItem DEF AssignSocketThread
<1>4. ItemInv(i)'
  BY <1>1, <1>3 DEF AssignSocketThread, ItemInv, Started, Over, Dead, Ended, Item, Sides
<1> QED
  BY <1>1, <1>3, <1>4 DEF AssignSocketThread, ThreadStep, ItemStep, Started, Over, Reported,
     Item

LEMMA WebSocketErrorKeeps ==
    ASSUME NEW i \in Items, items \in [Items -> Item], ItemInv(i),
           WebSocketSendError(i)
    PROVE  ThreadStep(i)
<1> DEFINE now == [items[i] EXCEPT !.websocket_thread = "done",
                                   !.reports = @ \cup {"websocket"}]
<1>1. items[i] \in Item
  OBVIOUS
<1>2. now \in Item
  BY <1>1 DEF Item, Sides, Reporters
<1>3. /\ items' \in [Items -> Item] /\ items'[i] = now
      /\ \A j \in Items \ {i} : items'[j] = items[j]
  BY <1>2, BecomesItem DEF WebSocketSendError
<1>4. ItemInv(i)'
  BY <1>1, <1>3 DEF WebSocketSendError, ItemInv, Started, Over, Dead, Ended, Item, Sides
<1> QED
  BY <1>1, <1>3, <1>4 DEF WebSocketSendError, ThreadStep, ItemStep, Started, Over, Reported,
     Item

LEMMA WebSocketThreadKeeps ==
    ASSUME NEW i \in Items, items \in [Items -> Item], ItemInv(i), WebSocketThread(i)
    PROVE  ThreadStep(i)
<1>1. CASE Adopt(i) \/ ReadRequest(i) \/ ReplyAccept(i) \/ AcceptFails(i)
  BY <1>1, WebSocketGoesKeeps, AdoptKeeps, RefuseKeeps, AcceptFailsKeeps
     DEF ReadRequest, ReplyAccept
<1>2. CASE ReadWebSocket(i) \/ ReadWebSocketFails(i) \/ Dial(i) \/ DialFails(i)
  BY <1>2, WebSocketGoesKeeps, FirstRequestKeeps, DialKeeps, DialFailsKeeps
     DEF ReadWebSocket, ReadWebSocketFails
<1>3. CASE \/ Greet(i) \/ GreetFails(i) \/ Spawn(i) \/ AssignSocketThread(i)
           \/ Forward(i) \/ ForwardFails(i) \/ WebSocketSendError(i)
  BY <1>3, WebSocketGoesKeeps, GreetFailsKeeps, SpawnKeeps, AssignSocketKeeps,
     WebSocketErrorKeeps DEF Greet, Forward, ForwardFails
<1> QED
  BY <1>1, <1>2, <1>3 DEF WebSocketThread

LEMMA WriteFailsKeeps ==
    ASSUME NEW i \in Items, items \in [Items -> Item], ItemInv(i),
           WebSocketWriteFails(i)
    PROVE  ThreadStep(i)
<1> DEFINE now == [items[i] EXCEPT !.socket_thread = "read",
                                   !.reports = @ \cup {"socket"}]
<1>1. items[i] \in Item
  OBVIOUS
<1>2. now \in Item
  BY <1>1 DEF Item, Sides, Reporters
<1>3. /\ items' \in [Items -> Item] /\ items'[i] = now
      /\ \A j \in Items \ {i} : items'[j] = items[j]
  BY <1>2, BecomesItem DEF WebSocketWriteFails
<1>4. ItemInv(i)'
  BY <1>1, <1>3 DEF WebSocketWriteFails, ItemInv, Started, Over, Dead, Ended, Item, Sides
<1>5. /\ items[i].websocket_thread # "none"
      /\ items'[i].websocket_thread = items[i].websocket_thread
      /\ items'[i].fate = items[i].fate /\ items'[i].mutex = items[i].mutex
      /\ items'[i].erasing = items[i].erasing
      /\ items[i].reports \subseteq items'[i].reports
  BY <1>1, <1>3 DEF WebSocketWriteFails, ItemInv, Started, Item
<1> QED
  BY <1>3, <1>4, <1>5 DEF ThreadStep, ItemStep, Started, Over, Reported

LEMMA SocketErrorKeeps ==
    ASSUME NEW i \in Items, items \in [Items -> Item], ItemInv(i),
           SocketSendError(i)
    PROVE  ThreadStep(i)
<1> DEFINE now == [items[i] EXCEPT !.socket_thread = "done",
                                   !.reports = @ \cup {"socket"}]
<1>1. items[i] \in Item
  OBVIOUS
<1>2. now \in Item
  BY <1>1 DEF Item, Sides, Reporters
<1>3. /\ items' \in [Items -> Item] /\ items'[i] = now
      /\ \A j \in Items \ {i} : items'[j] = items[j]
  BY <1>2, BecomesItem DEF SocketSendError
<1>4. ItemInv(i)'
  BY <1>1, <1>3 DEF SocketSendError, ItemInv, Started, Over, Dead, Ended, Item, Sides
<1>5. /\ items[i].websocket_thread # "none"
      /\ items'[i].websocket_thread = items[i].websocket_thread
      /\ items'[i].fate = items[i].fate /\ items'[i].mutex = items[i].mutex
      /\ items'[i].erasing = items[i].erasing
      /\ items[i].reports \subseteq items'[i].reports
  BY <1>1, <1>3 DEF SocketSendError, ItemInv, Started, Item
<1> QED
  BY <1>3, <1>4, <1>5 DEF ThreadStep, ItemStep, Started, Over, Reported

LEMMA SocketThreadKeeps ==
    ASSUME NEW i \in Items, items \in [Items -> Item], ItemInv(i), SocketThread(i)
    PROVE  ThreadStep(i)
  BY SocketGoesKeeps, WriteFailsKeeps, SocketErrorKeeps
     DEF SocketThread, ReadSocket, ReadSocketFails, WebSocketWrite

-----------------------------------------------------------------------------
(* The steps of Clear, and the end of an item.                             *)

LEMMA ClearBeginKeeps ==
    ASSUME NEW i \in Items, NEW c \in Reporters \cup {"stop"}, items \in [Items -> Item], ItemInv(i),
           Started(i), ClearBegin(i, c)
    PROVE  /\ ItemStep(i) /\ items'[i].fate = items[i].fate
           /\ items'[i].mutex = c /\ items'[i].websocket_thread = items[i].websocket_thread
           /\ Reported(i) => Reported(i)'
<1> DEFINE now == [items[i] EXCEPT !.mutex = c, !.clear = "join_socket",
                    !.reports = @ \ {c}, !.open = @ \ {"socket"}]
<1>1. items[i] \in Item
  OBVIOUS
<1>2. now \in Item
  <2>1. /\ items[i].open \ {"socket"} \in SUBSET Sides
        /\ items[i].reports \ {c} \in SUBSET Reporters
    BY <1>1 DEF Item
  <2>2. c \in Reporters \cup {"free", "stop"}
    OBVIOUS
  <2> QED
    BY <1>1, <2>1, <2>2 DEF Item
<1>3. /\ items' \in [Items -> Item] /\ items'[i] = now
      /\ \A j \in Items \ {i} : items'[j] = items[j]
  BY <1>2, BecomesItem DEF ClearBegin
<1>4. ItemInv(i)'
  <2>1. /\ c # "free" /\ items[i].mutex = "free" /\ items'[i].open \subseteq items[i].open
        /\ "socket" \notin items'[i].open
        /\ c = "websocket" \/ ("websocket" \in items[i].reports => "websocket" \in items'[i].reports)
    BY <1>1, <1>3 DEF ClearBegin, Item, Reporters, Sides
  <2> QED
    BY <1>1, <1>3, <2>1 DEF ItemInv, Started, Over, Dead, Ended, Item, Sides
<1> QED
  BY <1>1, <1>3, <1>4 DEF ClearBegin, ThreadStep, ItemStep, Started, Over, Reported,
     Item

LEMMA ClearJoinSocketKeeps ==
    ASSUME NEW i \in Items, NEW c \in Reporters \cup {"stop"}, items \in [Items -> Item], ItemInv(i),
           ClearJoinSocket(i, c), Started(i)
    PROVE  ThreadStep(i)
<1> DEFINE now == [items[i] EXCEPT !.clear = "join_websocket",
                    !.joinable = @ \ {"socket"},
                    !.open = IF items[i].adopted = "yes" THEN @ \ {"websocket"} ELSE @]
<1>1. items[i] \in Item
  OBVIOUS
<1>2. now \in Item
  <2>1. /\ items[i].joinable \ {"socket"} \in SUBSET Sides
        /\ items[i].open \ {"websocket"} \in SUBSET Sides
    BY <1>1 DEF Item
  <2> QED
    BY <1>1, <2>1 DEF Item
<1>3. /\ items' \in [Items -> Item] /\ items'[i] = now
      /\ \A j \in Items \ {i} : items'[j] = items[j]
  BY <1>2, BecomesItem DEF ClearJoinSocket
<1>4. ItemInv(i)'
  BY <1>1, <1>3 DEF ClearJoinSocket, Joins, ItemInv, Started, Over, Dead, Ended, Item, Sides
<1> QED
  BY <1>1, <1>3, <1>4 DEF ClearJoinSocket, ThreadStep, ItemStep, Started, Over, Reported,
     Item

LEMMA FateTyped ==
    ASSUME NEW r \in Item, NEW f \in {"normal", "raced", "terminated"}
    PROVE  [r EXCEPT !.fate = f] \in Item
  BY DEF Item

LEMMA ErasingTyped ==
    ASSUME NEW r \in Item, NEW e \in SUBSET Reporters
    PROVE  [r EXCEPT !.erasing = e] \in Item
  BY DEF Item

LEMMA ErasedTyped ==
    ASSUME NEW r \in Item, NEW e \in SUBSET Reporters,
           NEW f \in {"normal", "raced", "terminated"}
    PROVE  [r EXCEPT !.erasing = e, !.fate = f] \in Item
<1> DEFINE one == [r EXCEPT !.erasing = e]
<1>1. one \in Item
  BY ErasingTyped
<1>2. [one EXCEPT !.fate = f] \in Item
  <2> HIDE DEF one
  <2> QED
    BY <1>1, FateTyped
<1>3. [r EXCEPT !.erasing = e, !.fate = f] = [one EXCEPT !.fate = f]
  BY DEF Item
<1> QED
  BY <1>2, <1>3

LEMMA ClearedTyped ==
    ASSUME NEW r \in Item, NEW j \in SUBSET Sides, NEW e \in SUBSET Reporters,
           NEW f \in {"normal", "raced", "terminated"}
    PROVE  [r EXCEPT !.clear = "idle", !.mutex = "free", !.joinable = j, !.erasing = e,
                     !.fate = f] \in Item
<1> DEFINE one == [r EXCEPT !.clear = "idle", !.mutex = "free", !.joinable = j]
<1>1. one \in Item
  BY DEF Item
<1>2. [one EXCEPT !.erasing = e, !.fate = f] \in Item
  <2> HIDE DEF one
  <2> QED
    BY <1>1, ErasedTyped
<1>3. [r EXCEPT !.clear = "idle", !.mutex = "free", !.joinable = j, !.erasing = e, !.fate = f]
        = [one EXCEPT !.erasing = e, !.fate = f]
  BY DEF Item
<1> QED
  BY <1>2, <1>3

LEMMA ClearJoinWebSocketKeeps ==
    ASSUME NEW i \in Items, NEW c \in Reporters \cup {"stop"}, items \in [Items -> Item],
           ItemInv(i), ClearJoinWebSocket(i, c), items[i].fate # "terminated"
    PROVE  /\ ItemStep(i) /\ Started(i) /\ Over(i)'
           /\ items'[i].mutex = "free"
           /\ items'[i].fate \in {items[i].fate, "raced"}
           /\ items'[i].websocket_thread = items[i].websocket_thread
           /\ Reported(i) => Reported(i)'
<1>1. items[i] \in Item
  OBVIOUS
<1>2. Started(i)
  BY DEF ClearJoinWebSocket, ItemInv, Started
<1> DEFINE fate == IF "websocket" \in items[i].joinable THEN items[i].fate ELSE
                   IF items[i].websocket_thread = "done" THEN items[i].fate ELSE "raced"
           now == [items[i] EXCEPT !.clear = "idle", !.mutex = "free",
                    !.joinable = @ \ {"websocket"},
                    !.erasing = @ \cup (Reporters \cap {c}), !.fate = fate]
<1>3. fate \in {items[i].fate, "raced"} /\ fate \in {"normal", "raced", "terminated"}
  BY <1>1 DEF Item
<1>4. items[i].websocket_thread = "done" \/ fate # "normal"
  BY <1>1, <1>2 DEF ClearJoinWebSocket, Joins, Ended, Started
<1> HIDE DEF fate
<1>5. now \in Item
  <2>1. /\ items[i].joinable \ {"websocket"} \in SUBSET Sides
        /\ items[i].erasing \cup (Reporters \cap {c}) \in SUBSET Reporters
    BY <1>1 DEF Item
  <2> QED
    BY <1>1, <1>3, <2>1, ClearedTyped
<1>6. /\ items' \in [Items -> Item] /\ items'[i] = now
      /\ \A j \in Items \ {i} : items'[j] = items[j]
  BY <1>5, BecomesItem DEF ClearJoinWebSocket, fate
<1>7. Over(i)' /\ Started(i)'
  BY <1>1, <1>2, <1>4, <1>6 DEF Over, Started, Item
<1>8. ItemInv(i)'
  BY <1>1, <1>6, <1>7 DEF ClearJoinWebSocket, ItemInv, Started, Dead, Ended, Item, Sides
<1> QED
  BY <1>1, <1>2, <1>3, <1>6, <1>7, <1>8 DEF ClearJoinWebSocket, ItemStep, Reported, Item,
     Reporters

LEMMA EraseKeeps ==
    ASSUME NEW i \in Items, NEW r \in Reporters, items \in [Items -> Item],
           ItemInv(i), OnErrorErase(i, r)
    PROVE  /\ ItemStep(i) /\ Over(i) /\ items'[i].mutex = items[i].mutex
           /\ items'[i].fate = IF client = i THEN "raced" ELSE items[i].fate
           /\ items'[i].websocket_thread = items[i].websocket_thread
<1> DEFINE fate == IF client = i THEN "raced" ELSE items[i].fate
           now == [items[i] EXCEPT !.erasing = @ \ {r}, !.fate = fate]
<1>1. items[i] \in Item
  OBVIOUS
<1>2. fate \in {items[i].fate, "raced"} /\ fate \in {"normal", "raced", "terminated"}
  BY <1>1 DEF Item
<1>3. Started(i) /\ Over(i)
  BY DEF OnErrorErase, ItemInv
<1>4. Becomes(i, now)
  BY DEF OnErrorErase
<1> HIDE DEF fate
<1>5. now \in Item
  <2>1. items[i].erasing \ {r} \in SUBSET Reporters
    BY <1>1 DEF Item
  <2> QED
    BY <1>1, <1>2, <2>1, ErasedTyped
<1>6. /\ items' \in [Items -> Item] /\ items'[i] = now
      /\ \A j \in Items \ {i} : items'[j] = items[j]
  BY <1>4, <1>5, BecomesItem
<1>7. items'[i].fate = fate /\ Over(i)' /\ Started(i)'
  BY <1>1, <1>2, <1>3, <1>6 DEF Over, Started, Item
<1>8. ItemInv(i)'
  BY <1>1, <1>3, <1>6, <1>7 DEF ItemInv, Started, Dead, Ended, Item, Sides
<1>9. ItemStep(i)
  BY <1>1, <1>2, <1>6, <1>7, <1>8 DEF ItemStep, Item
<1> QED
  BY <1>1, <1>3, <1>6, <1>7, <1>9 DEF fate, Item

LEMMA TerminateKeeps ==
    ASSUME NEW i \in Items, items \in [Items -> Item], ItemInv(i), Terminate(i)
    PROVE  /\ ItemStep(i) /\ Started(i) /\ Over(i)' /\ items'[i].fate = "terminated"
           /\ items'[i].websocket_thread = items[i].websocket_thread
<1>1. items[i] \in Item
  OBVIOUS
<1> QED
  BY <1>1 DEF Terminate, Becomes, ItemStep, ItemInv, Started, Over, Dead, Ended, Item, Sides

LEMMA StartThreadKeeps ==
    ASSUME NEW i \in Items, items \in [Items -> Item], ItemInv(i),
           StartThread(i)
    PROVE  /\ ItemStep(i) /\ items'[i].fate = items[i].fate /\ ~Started(i)
           /\ items'[i].mutex = items[i].mutex /\ items'[i].websocket_thread = "adopt"
<1> DEFINE now == [items[i] EXCEPT !.open = {"websocket"}, !.websocket_thread = "adopt"]
<1>1. items[i] \in Item
  OBVIOUS
<1>2. now \in Item
  BY <1>1 DEF Item, Sides, Reporters
<1>3. /\ items' \in [Items -> Item] /\ items'[i] = now
      /\ \A j \in Items \ {i} : items'[j] = items[j]
  BY <1>2, BecomesItem DEF StartThread
<1>4. ItemInv(i)'
  BY <1>1, <1>3 DEF StartThread, ItemInv, Started, Over, Dead, Ended, Item, Sides
<1> QED
  BY <1>1, <1>3, <1>4 DEF StartThread, ThreadStep, ItemStep, Started, Over, Reported,
     Item

LEMMA AssignThreadKeeps ==
    ASSUME NEW i \in Items, items \in [Items -> Item], ItemInv(i),
           Started(i), AssignThread(i)
    PROVE  ThreadStep(i)
<1> DEFINE now == [items[i] EXCEPT !.joinable = @ \cup {"websocket"}]
<1>1. items[i] \in Item
  OBVIOUS
<1>2. now \in Item
  BY <1>1 DEF Item, Sides, Reporters
<1>3. /\ items' \in [Items -> Item] /\ items'[i] = now
      /\ \A j \in Items \ {i} : items'[j] = items[j]
  BY <1>2, BecomesItem DEF AssignThread
<1>4. ItemInv(i)'
  BY <1>1, <1>3 DEF AssignThread, ItemInv, Started, Over, Dead, Ended, Item, Sides
<1> QED
  BY <1>1, <1>3, <1>4 DEF AssignThread, ThreadStep, ItemStep, Started, Over, Reported,
     Item

-----------------------------------------------------------------------------
(* The invariant is kept.                                                  *)

LEMMA StepKeepsItems ==
    ASSUME NEW i \in Items, ItemStep(i), \A j \in Items : ItemInv(j)
    PROVE  \A j \in Items :
             /\ ItemInv(j)' /\ (Over(j) => Over(j)') /\ (Started(j) => Started(j)')
             /\ j # i => items'[j] = items[j]
<1>1. ASSUME NEW j \in Items, j # i
      PROVE  ItemInv(j)' /\ (Over(j) => Over(j)') /\ (Started(j) => Started(j)')
             /\ items'[j] = items[j]
  <2>1. items'[j] = items[j]
    BY <1>1 DEF ItemStep
  <2> QED
    BY <2>1 DEF ItemInv, Over, Started, Dead, Ended
<1> QED
  BY <1>1 DEF ItemStep

(* A step on an item that the server's own variables do not see.           *)
LEMMA QuietStep ==
    ASSUME IInv, NEW i \in Items, ItemStep(i), Started(i), UNCHANGED server,
           Reported(i) => Reported(i)',
           items'[i].websocket_thread = "done" =>
               items[i].websocket_thread = "done" \/ Reported(i)',
           items'[i].fate = "terminated" =>
               items[i].fate = "terminated" \/ i \notin websocket_map,
           items[i].mutex = "stop" => items'[i].mutex = "stop" \/ Over(i)'
    PROVE  IInv'
<1>1. \A j \in Items : /\ ItemInv(j)' /\ (Over(j) => Over(j)') /\ (Started(j) => Started(j)')
                       /\ j # i => items'[j] = items[j]
  BY StepKeepsItems DEF IInv
<1>2. UNCHANGED <<owner, acceptor, accept_thread, client, websocket_map, todo, item>>
  BY DEF server
<1>3. \A j \in Items \ {i} : ListInv(j)'
  BY <1>1, <1>2 DEF IInv, ListInv, Over, Started, Reported
<1>4. ListInv(i)'
  BY <1>2 DEF IInv, ListInv, ItemStep
<1>5. ServerInv'
  BY <1>1, <1>2 DEF IInv, ServerTypes, ServerInv, MapLocked, SettingUp
<1> QED
  BY <1>1, <1>2, <1>3, <1>4, <1>5 DEF IInv, ServerTypes, ItemStep

(* A step that no item sees.                                               *)
LEMMA SameItems ==
    ASSUME UNCHANGED items
    PROVE  \A j \in Items : /\ ItemInv(j)' <=> ItemInv(j)
                            /\ Over(j)' <=> Over(j)
                            /\ Started(j)' <=> Started(j)
                            /\ Reported(j)' <=> Reported(j)
                            /\ items'[j] = items[j]
  BY DEF ItemInv, Over, Started, Reported, Dead, Ended

LEMMA ThreadsKeepIInv ==
    ASSUME IInv, NEW i \in Items, WebSocketThread(i) \/ SocketThread(i), UNCHANGED server
    PROVE  IInv'
<1>1. ThreadStep(i)
  BY WebSocketThreadKeeps, SocketThreadKeeps DEF IInv
<1> QED
  BY <1>1, QuietStep DEF ThreadStep

LEMMA DestructKeepsIInv ==
    ASSUME IInv, NEW i \in Items, Destruct(i)
    PROVE  IInv'
<1>1. /\ ItemStep(i) /\ Started(i) /\ Over(i)' /\ items'[i].fate = "terminated"
      /\ items'[i].websocket_thread = items[i].websocket_thread
  BY TerminateKeeps DEF Destruct, IInv
<1>2. i \notin websocket_map /\ ~Reported(i) /\ UNCHANGED server
  BY DEF Destruct, Referenced, Reported
<1> QED
  BY <1>1, <1>2, QuietStep

LEMMA ClearKeepsIInv ==
    ASSUME IInv, ~Crashed, NEW i \in Items, NEW c \in Reporters \cup {"stop"},
           ClearSteps(i, c)
    PROVE  IInv'
<1>1. CASE ClearJoinSocket(i, c)
  <2>1. Started(i)
    BY <1>1 DEF ClearJoinSocket, IInv, ItemInv
  <2>2. ThreadStep(i)
    BY <1>1, <2>1, ClearJoinSocketKeeps DEF IInv
  <2> QED
    BY <2>2, QuietStep DEF ThreadStep, ClearSteps
<1>2. CASE ClearJoinWebSocket(i, c)
  <2>1. items[i].fate # "terminated" /\ UNCHANGED server
    BY DEF Crashed, ClearSteps
  <2>2. /\ ItemStep(i) /\ Started(i) /\ Over(i)'
        /\ items'[i].fate \in {items[i].fate, "raced"}
        /\ items'[i].websocket_thread = items[i].websocket_thread
        /\ Reported(i) => Reported(i)'
    BY <1>2, <2>1, ClearJoinWebSocketKeeps DEF IInv
  <2> QED
    BY <2>1, <2>2, QuietStep
<1> QED
  BY <1>1, <1>2 DEF ClearSteps

LEMMA OnErrorClearKeepsIInv ==
    ASSUME IInv, NEW i \in Items, NEW r \in Reporters, OnErrorClear(i, r)
    PROVE  IInv'
<1>1. Started(i) /\ items[i].mutex = "free" /\ UNCHANGED server
  BY DEF OnErrorClear, ClearBegin, IInv, ItemInv
<1>2. /\ ItemStep(i) /\ items'[i].fate = items[i].fate
      /\ items'[i].websocket_thread = items[i].websocket_thread
      /\ Reported(i) => Reported(i)'
  BY <1>1, ClearBeginKeeps DEF OnErrorClear, IInv
<1> QED
  BY <1>1, <1>2, QuietStep

LEMMA EraseKeepsIInv ==
    ASSUME IInv, NEW i \in Items, NEW r \in Reporters, OnErrorErase(i, r)
    PROVE  IInv'
<1>1. /\ ItemStep(i) /\ Over(i) /\ items'[i].mutex = items[i].mutex
      /\ items'[i].fate = IF client = i THEN "raced" ELSE items[i].fate
      /\ items'[i].websocket_thread = items[i].websocket_thread
  BY EraseKeeps DEF IInv
<1>2. /\ ~MapLocked /\ websocket_map' = websocket_map \ {i}
      /\ UNCHANGED <<owner, acceptor, accept_thread, client, todo, item>>
  BY DEF OnErrorErase
<1>3. \A j \in Items : /\ ItemInv(j)' /\ (Over(j) => Over(j)') /\ (Started(j) => Started(j)')
                       /\ j # i => items'[j] = items[j]
  BY <1>1, StepKeepsItems DEF IInv
<1>4. \A j \in Items \ {i} : ListInv(j)'
  BY <1>2, <1>3 DEF IInv, ListInv, Over, Started, Reported
<1>5. ListInv(i)'
  BY <1>1, <1>2, <1>3 DEF ListInv, Over, Started
<1>6. ServerInv'
  BY <1>1, <1>2, <1>3 DEF IInv, ServerTypes, ServerInv, MapLocked, SettingUp
<1> QED
  BY <1>1, <1>2, <1>3, <1>4, <1>5, <1>6 DEF IInv, ServerTypes, ItemStep

LEMMA AcceptThreadKeepsIInv ==
    ASSUME IInv, ~Crashed, AcceptThread
    PROVE  IInv'
<1>1. CASE AcceptThreadEnds \/ \E i \in Items : Accept(i)
  <2>1. UNCHANGED <<items, owner, acceptor, websocket_map, todo, item>>
    BY <1>1 DEF AcceptThreadEnds, Accept, ThreadGoes
  <2>2. \/ accept_thread' = "done" /\ client' = client /\ client = NoItem
        \/ /\ accept_thread' = "start" /\ client' \in Items
           /\ items[client'].websocket_thread = "none" /\ client = NoItem
    BY <1>1 DEF AcceptThreadEnds, Accept, ThreadGoes, IInv, ServerTypes, ServerInv, SettingUp
  <2>3. owner \notin {"off", "loop", "clear"} /\ acceptor # "null"
    BY <1>1 DEF AcceptThreadEnds, Accept, ThreadGoes, IInv, ServerInv
  <2>4. \A j \in Items : ItemInv(j)' /\ ListInv(j)'
    BY <2>1, <2>2, SameItems, NoItemAssumption DEF IInv, ListInv, Started
  <2>5. ServerTypes' /\ ServerInv'
    BY <2>1, <2>2, <2>3, SameItems, NoItemAssumption
       DEF IInv, ServerTypes, ServerInv, MapLocked, SettingUp
  <2> QED
    BY <2>1, <2>4, <2>5 DEF IInv
<1>2. CASE StartWithAccept
  <2>1. /\ client \in Items /\ accept_thread \in {"start", "assign"}
        /\ accept_thread' \in {"assign", "insert"}
        /\ UNCHANGED <<owner, acceptor, client, websocket_map, todo, item>>
        /\ StartThread(client) \/ (AssignThread(client) /\ Started(client))
    BY <1>2 DEF StartWithAccept, ThreadGoes, IInv, ServerInv, SettingUp
  <2>2. PICK i \in Items : i = client
    BY <2>1
  <2>3. /\ ItemStep(i) /\ items'[i].fate = items[i].fate /\ items'[i].mutex = items[i].mutex
        /\ Started(i) => (Reported(i) => Reported(i)')
        /\ items'[i].websocket_thread = "done" =>
               items[i].websocket_thread = "done" \/ Reported(i)'
        /\ Started(i) \/ items'[i].websocket_thread = "adopt"
    BY <2>1, <2>2, StartThreadKeeps, AssignThreadKeeps DEF IInv, ThreadStep
  <2>4. \A j \in Items : /\ ItemInv(j)' /\ (Over(j) => Over(j)') /\ (Started(j) => Started(j)')
                         /\ j # i => items'[j] = items[j]
    BY <2>3, StepKeepsItems DEF IInv
  <2>5. \A j \in Items \ {i} : ListInv(j)'
    BY <2>1, <2>4 DEF IInv, ListInv, Over, Started, Reported
  <2>6. ListInv(i)'
    BY <2>1, <2>2, <2>3 DEF IInv, ListInv, ItemStep, Started
  <2>7. owner \notin {"off", "loop", "clear"} /\ acceptor # "null"
    BY <2>1 DEF IInv, ServerInv
  <2>8. ServerTypes' /\ ServerInv'
    BY <2>1, <2>2, <2>3, <2>4, <2>7
       DEF IInv, ServerTypes, ServerInv, MapLocked, SettingUp, ItemStep
  <2> QED
    BY <2>3, <2>4, <2>5, <2>6, <2>8 DEF IInv, ItemStep
<1>3. CASE InsertClient
  <2>1. /\ client \in Items /\ client' = NoItem /\ Started(client)
        /\ websocket_map' = websocket_map \cup {client}
        /\ accept_thread = "insert" /\ accept_thread' = "accept"
        /\ UNCHANGED <<items, owner, acceptor, todo, item>>
    BY <1>3 DEF InsertClient, ThreadGoes, IInv, ServerInv, SettingUp
  <2>2. owner \notin {"off", "loop", "clear"} /\ acceptor # "null"
    BY <2>1 DEF IInv, ServerInv
  <2>3. items[client].fate # "terminated"
    BY <2>1 DEF Crashed
  <2>4. \A j \in Items : ItemInv(j)' /\ ListInv(j)'
    BY <2>1, <2>3, SameItems, NoItemAssumption DEF IInv, ListInv
  <2>5. ServerTypes' /\ ServerInv'
    BY <2>1, <2>2, SameItems, NoItemAssumption
       DEF IInv, ServerTypes, ServerInv, MapLocked, SettingUp
  <2> QED
    BY <2>1, <2>4, <2>5 DEF IInv
<1> QED
  BY <1>1, <1>2, <1>3 DEF AcceptThread

LEMMA OwnerThreadKeepsIInv ==
    ASSUME IInv, OwnerThread
    PROVE  IInv'
<1>1. CASE StartServer \/ StartFails \/ StopServer \/ StopJoinThread \/ StopAdvance
  <2>1. UNCHANGED <<items, client, websocket_map>>
    BY <1>1 DEF StartServer, StartFails, StopServer, StopJoinThread, StopAdvance
  <2>2. \A j \in Items : ItemInv(j)' /\ ListInv(j)'
    BY <2>1, SameItems DEF IInv, ListInv
  <2>3. ServerTypes'
    BY <1>1 DEF StartServer, StartFails, StopServer, StopJoinThread, StopAdvance, IInv,
       ServerTypes
  <2>4. ServerInv'
    <3>1. CASE StartServer \/ StartFails \/ StopServer
      BY <2>1, <3>1, SameItems DEF StartServer, StartFails, StopServer, IInv, ServerTypes,
         ServerInv, MapLocked, SettingUp
    <3>2. CASE StopJoinThread
      BY <2>1, <3>2, SameItems DEF StopJoinThread, IInv, ServerTypes, ServerInv, MapLocked,
         SettingUp
    <3>3. CASE StopAdvance
      BY <2>1, <3>3, SameItems DEF StopAdvance, IInv, ServerTypes, ServerInv, MapLocked,
         SettingUp
    <3> QED
      BY <1>1, <3>1, <3>2, <3>3
  <2> QED
    BY <2>1, <2>2, <2>3, <2>4 DEF IInv
<1>2. ASSUME NEW i \in Items, StopClear(i)
      PROVE  IInv'
  <2>1. /\ owner = "loop" /\ owner' = "clear" /\ i \in todo /\ item' = i
        /\ ClearBegin(i, "stop")
        /\ UNCHANGED <<acceptor, accept_thread, client, websocket_map, todo>>
    BY <1>2 DEF StopClear
  <2>2. Started(i)
    BY <2>1 DEF IInv, ServerInv, MapLocked, ListInv
  <2>3. /\ ItemStep(i) /\ items'[i].fate = items[i].fate /\ items'[i].mutex = "stop"
        /\ items'[i].websocket_thread = items[i].websocket_thread
        /\ Reported(i) => Reported(i)'
    BY <2>1, <2>2, ClearBeginKeeps DEF IInv
  <2>4. \A j \in Items : /\ ItemInv(j)' /\ (Over(j) => Over(j)') /\ (Started(j) => Started(j)')
                         /\ j # i => items'[j] = items[j]
    BY <2>3, StepKeepsItems DEF IInv
  <2>5. \A j \in Items \ {i} : ListInv(j)'
    BY <2>1, <2>4 DEF IInv, ListInv, Over, Started, Reported
  <2>6. ListInv(i)'
    BY <2>1, <2>2, <2>3 DEF IInv, ListInv, ItemStep
  <2>7. ServerTypes' /\ ServerInv'
    BY <2>1, <2>3, <2>4 DEF IInv, ServerTypes, ServerInv, MapLocked, SettingUp
  <2> QED
    BY <2>3, <2>4, <2>5, <2>6, <2>7 DEF IInv, ItemStep
<1>3. CASE StopReturns
  <2>1. /\ owner = "loop" /\ owner' = "off" /\ todo = {} /\ websocket_map' = {}
        /\ UNCHANGED <<items, acceptor, accept_thread, client, todo, item>>
    BY <1>3 DEF StopReturns
  <2>2. \A j \in websocket_map : Over(j)
    BY <2>1 DEF IInv, ServerInv, MapLocked
  <2>3. \A j \in Items : ItemInv(j)' /\ ListInv(j)'
    BY <2>1, <2>2, SameItems DEF IInv, ListInv
  <2>4. ServerTypes' /\ ServerInv'
    BY <2>1, SameItems DEF IInv, ServerTypes, ServerInv, MapLocked, SettingUp
  <2> QED
    BY <2>1, <2>3, <2>4 DEF IInv
<1> QED
  BY <1>1, <1>2, <1>3 DEF OwnerThread

LEMMA NextKeepsIInv ==
    ASSUME IInv, [Next]_vars
    PROVE  IInv'
<1>1. CASE UNCHANGED vars
  <2>1. UNCHANGED <<items, owner, acceptor, accept_thread, client, websocket_map, todo, item>>
    BY <1>1 DEF vars, server
  <2> QED
    BY <2>1, SameItems DEF IInv, ListInv, ServerTypes, ServerInv, MapLocked
<1>2. CASE Next
  BY <1>2, AcceptThreadKeepsIInv, OwnerThreadKeepsIInv, ThreadsKeepIInv, DestructKeepsIInv,
     ClearKeepsIInv, OnErrorClearKeepsIInv, EraseKeepsIInv DEF Next
<1> QED
  BY <1>1, <1>2

LEMMA InitIInv ==
    ASSUME Init
    PROVE  IInv
<1>1. \A i \in Items : /\ items[i].websocket_thread = "none" /\ items[i].socket_thread = "none"
                       /\ items[i].mutex = "free" /\ items[i].clear = "idle"
                       /\ items[i].open = {} /\ items[i].reports = {}
                       /\ items[i].erasing = {} /\ items[i].fate = "normal"
  BY DEF Init, ItemInit
<1>2. items \in [Items -> Item]
  BY DEF Init, ItemInit, Item
<1>3. \A i \in Items : ItemInv(i) /\ ListInv(i)
  BY <1>1 DEF Init, ItemInv, ListInv, Started, Over, Dead, Ended, Sides
<1>4. ServerTypes /\ ServerInv
  BY NoItemAssumption DEF Init, ServerTypes, ServerInv, MapLocked, SettingUp
<1> QED
  BY <1>2, <1>3, <1>4 DEF IInv

\* The inductive invariant holds of every behaviour of the server, on either platform.
THEOREM Invariance == SafeSpec => []IInv
<1>1. Init => IInv
  BY InitIInv
<1>2. IInv /\ [Next]_vars => IInv'
  BY NextKeepsIInv
<1> QED
  BY <1>1, <1>2, PTL DEF SafeSpec

-----------------------------------------------------------------------------

\* An item whose last shared_ptr goes is dead, or was cleared before it was started
\* (server_socket_item.cpp:21-24, :104).
THEOREM DestructorIsIdle == SafeSpec => []DestructorFindsNothing
<1>1. IInv => DestructorFindsNothing
  BY DEF IInv, ItemInv, ListInv, DestructorFindsNothing, Referenced, Started, Over
<1> QED
  BY <1>1, Invariance, PTL

\* What a Clear leaves behind of an item, its websocket thread reports when it ends
\* (server_socket_item.cpp:121-138 against :240 and :252).
THEOREM LeftoversAreReported == SafeSpec => []LeftoverIsReported
<1>1. IInv => LeftoverIsReported
  BY DEF IInv, ItemInv, LeftoverIsReported
<1> QED
  BY <1>1, Invariance, PTL

\* Every error of an item that is set up takes it from the map
\* (websocket_server.cpp:67-73).
THEOREM ErrorsAreReaped == SafeSpec => []StrandedOnlyByStartupRace
<1>1. IInv => StrandedOnlyByStartupRace
  <2>1. ASSUME IInv, NEW i \in websocket_map, Forgotten(i)
        PROVE  items[i].fate = "raced"
    <3>1. i \in Items /\ items[i] \in Item
      BY <2>1 DEF IInv, ServerTypes
    <3>2. items[i].websocket_thread = "done" /\ ~Reported(i) /\ items[i].fate # "terminated"
      BY <2>1, <3>1 DEF IInv, ListInv, Forgotten, Dead, Ended, Started, Reported, Sides
    <3> QED
      BY <2>1, <3>1, <3>2 DEF IInv, ListInv, Item
  <2> QED
    BY <2>1 DEF StrandedOnlyByStartupRace
<1> QED
  BY <1>1, Invariance, PTL

\* A StopServer that returned has waited for the websocket thread of every item that
\* was started before its first Clear, of any number (websocket_server.cpp:26-43).
THEOREM StopWaitsForWebSockets == SafeSpec => []StopEndsWebSockets
<1>1. IInv => StopEndsWebSockets
  <2>1. ASSUME IInv, owner = "off", NEW i \in Items, items[i].fate = "normal"
        PROVE  Ended(i, "websocket")
    <3>1. i \notin websocket_map \cup {client}
      BY <2>1 DEF IInv, ServerInv, SettingUp
    <3> QED
      BY <2>1, <3>1 DEF IInv, ListInv, Over, Started, Ended
  <2> QED
    BY <2>1 DEF StopEndsWebSockets
<1> QED
  BY <1>1, Invariance, PTL
=============================================================================
