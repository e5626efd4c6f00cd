-------------------------- MODULE ClientServerProofs --------------------------
(***************************************************************************)
(* Proofs about the client's local server, for any number of connections,  *)
(* and about what outlives its destructor.                                 *)
(***************************************************************************)
EXTENDS ServerEnd, TLAPS

Constructed(i) == items[i].socket_thread # "none"

(* The state of Clear against the state of the threads it joins.           *)
ItemInv(i) ==
    /\ items[i].close_mutex = "free" <=> items[i].clear = "idle"
    /\ ~Constructed(i) => /\ items[i].close_mutex = "free"
                          /\ items[i].websocket_thread = "none"
                          /\ items[i].open = {}
                          /\ items[i].reports = {} /\ items[i].erasing = {}
    /\ \A side \in Sides : ~Ended(i, side) => side \in items[i].joinable
    /\ items[i].clear # "idle" => ~IsOpen(i, "socket")
    /\ items[i].clear = "join_websocket" =>
            Ended(i, "socket") /\ items[i].open = {}
    /\ Constructed(i) /\ ~IsOpen(i, "socket") /\ items[i].clear = "idle" => Dead(i)
    /\ items[i].erasing # {} => Dead(i)

(* Where an item that still lives can be found.                            *)
Listed(i) == Dead(i) \/ i \in socket_list \cup {client}

Ahead(i) ==
    ui \in {"off", "loop", "visit", "clear"} /\ undefined = "no" =>
        Dead(i) \/ (ui # "off" /\ i \in todo \cap socket_list)

ServerInv ==
    /\ client \in Items /\ Constructed(client)
        <=> accept_thread \in {"own", "callback", "assign", "insert"}
    /\ client = NoItem <=> accept_thread \notin {"own", "callback", "assign", "insert"}
    /\ ui \in {"off", "loop", "visit", "clear"} => accept_thread = "none"
    /\ ui \in {"visit", "clear"} => item \in Items /\ Constructed(item)
    /\ ui = "clear" => items[item].close_mutex = "stop" \/ Dead(item)
    /\ \A i \in socket_list : Constructed(i)

IInv ==
    /\ TypeOK
    /\ \A i \in Items : ItemInv(i) /\ Listed(i) /\ Ahead(i)
    /\ ServerInv

-----------------------------------------------------------------------------
(* What every kind of step does to the item it is about: it keeps the type *)
(* and the invariant, touches no other item, and never revives a dead one. *)
ItemStep(i) ==
    /\ items' \in [Items -> Item]
    /\ \A j \in Items \ {i} : items'[j] = items[j]
    /\ ItemInv(i)'
    /\ Constructed(i)'
    /\ Constructed(i) /\ Dead(i) => Dead(i)'

LEMMA BecomesItem ==
    ASSUME NEW i \in Items, items \in [Items -> Item], NEW now \in Item,
           Becomes(i, now)
    PROVE  /\ items' \in [Items -> Item] /\ items'[i] = now
           /\ \A j \in Items \ {i} : items'[j] = items[j]
  BY DEF Becomes

(* A step of either thread happens in a live item, and takes no mutex.     *)
ThreadStep(i) ==
    ItemStep(i) /\ Constructed(i) /\ ~Dead(i)
    /\ items'[i].close_mutex = items[i].close_mutex

LEMMA SocketGoesKeeps ==
    ASSUME NEW i \in Items, items \in [Items -> Item], ItemInv(i),
           ReadHeader(i) \/ HandshakeFails(i) \/ WebSocketWrite(i)
           \/ WebSocketWriteFails(i) \/ ReadSocket(i) \/ ReadSocketFails(i)
           \/ SocketGoes(i, "handshake", "error")
    PROVE  ThreadStep(i)
  BY DEF ReadHeader, HandshakeFails, WebSocketWrite, WebSocketWriteFails,
     ReadSocket, ReadSocketFails, SocketGoes, Becomes, ThreadStep, ItemStep,
     ItemInv, Constructed, Dead, Ended, IsOpen, Thread, Item, Sides

LEMMA WebSocketGoesKeeps ==
    ASSUME NEW i \in Items, items \in [Items -> Item], ItemInv(i),
           ReadWebSocket(i) \/ ReadWebSocketFails(i)
           \/ SocketWrite(i) \/ SocketWriteFails(i)
    PROVE  ThreadStep(i)
  BY DEF ReadWebSocket, ReadWebSocketFails, SocketWrite, SocketWriteFails,
     WebSocketGoes, Becomes, ThreadStep, ItemStep, ItemInv, Constructed, Dead,
     Ended, IsOpen, Thread, Item, Sides

LEMMA ConnectRemoteKeeps ==
    ASSUME NEW i \in Items, items \in [Items -> Item], ItemInv(i), ConnectRemote(i)
    PROVE  ThreadStep(i)
<1>1. items[i] \in Item
  OBVIOUS
<1>2. PICK pc \in {"handshake", "error"} :
        Becomes(i, [items[i] EXCEPT !.open = @ \cup {"websocket"}, !.socket_thread = pc])
  BY DEF ConnectRemote
<1> DEFINE now == [items[i] EXCEPT !.open = @ \cup {"websocket"}, !.socket_thread = pc]
<1>3. now \in Item
  BY <1>1 DEF Item, Sides
<1>4. /\ items' \in [Items -> Item] /\ items'[i] = now
      /\ \A j \in Items \ {i} : items'[j] = items[j]
  BY <1>2, <1>3, BecomesItem
<1>5. Constructed(i) /\ Constructed(i)' /\ ~Dead(i)
  BY <1>1, <1>4 DEF ConnectRemote, Constructed, Dead, Ended, Thread, Item, Sides
<1>6. ItemInv(i)'
  BY <1>1, <1>4, <1>5 DEF ConnectRemote, ItemInv, Constructed, Dead, Ended, IsOpen,
     Thread, Item, Sides
<1> QED
  BY <1>1, <1>4, <1>5, <1>6 DEF ThreadStep, ItemStep, Item

LEMMA HandshakeKeeps ==
    ASSUME NEW i \in Items, items \in [Items -> Item], ItemInv(i), Handshake(i)
    PROVE  ThreadStep(i)
<1> DEFINE now == [items[i] EXCEPT !.socket_thread = "first",
                        !.websocket_thread = "read", !.joinable = @ \cup {"websocket"}]
<1>1. CASE SocketGoes(i, "handshake", "error")
  BY <1>1, SocketGoesKeeps
<1>2. CASE items[i].socket_thread = "handshake" /\ Becomes(i, now)
  <2>1. items[i] \in Item
    OBVIOUS
  <2>2. now \in Item
    BY <2>1 DEF Item, Sides
  <2>3. /\ items' \in [Items -> Item] /\ items'[i] = now
        /\ \A j \in Items \ {i} : items'[j] = items[j]
    BY <1>2, <2>2, BecomesItem
  <2>4. Constructed(i) /\ Constructed(i)' /\ ~Dead(i)
    BY <1>2, <2>1, <2>3 DEF Constructed, Dead, Ended, Thread, Item, Sides
  <2>5. ItemInv(i)'
    BY <1>2, <2>1, <2>3, <2>4 DEF ItemInv, Constructed, Dead, Ended, IsOpen, Thread,
       Item, Sides
  <2> QED
    BY <2>1, <2>3, <2>4, <2>5 DEF ThreadStep, ItemStep, Item
<1> QED
  BY <1>1, <1>2 DEF Handshake

(* The two records agree on all that the invariant speaks of.             *)
Alike(r, now) ==
    /\ now.open = r.open /\ now.joinable = r.joinable /\ now.erasing = r.erasing
    /\ now.socket_thread = r.socket_thread /\ now.websocket_thread = r.websocket_thread
    /\ now.close_mutex = r.close_mutex /\ now.clear = r.clear

LEMMA FinishKeeps ==
    ASSUME NEW i \in Items, NEW side \in Sides, items \in [Items -> Item],
           ItemInv(i), Thread(i, side) = "error",
           NEW told \in Item, Alike(items[i], told), Finish(i, side, told)
    PROVE  ThreadStep(i)
<1> DEFINE now == IF side = "socket" THEN [told EXCEPT !.socket_thread = "done"]
                                     ELSE [told EXCEPT !.websocket_thread = "done"]
<1>1. items[i] \in Item /\ side \in {"socket", "websocket"}
  BY DEF Sides
<1>2. now \in Item
  BY DEF Item
<1>3. /\ items' \in [Items -> Item] /\ items'[i] = now
      /\ \A j \in Items \ {i} : items'[j] = items[j]
  BY <1>2, BecomesItem DEF Finish
<1>4. Constructed(i) /\ ~Dead(i)
  BY <1>1 DEF ItemInv, Constructed, Dead, Ended, Thread, Sides
<1>5. CASE side = "socket"
  <2>1. Constructed(i)' /\ ItemInv(i)'
    BY <1>1, <1>3, <1>4, <1>5 DEF Alike, ItemInv, Constructed, Dead, Ended, IsOpen,
       Thread, Item, Sides
  <2> QED
    BY <1>3, <1>4, <1>5, <2>1 DEF Alike, ThreadStep, ItemStep, Item
<1>6. CASE side = "websocket"
  <2>1. Constructed(i)' /\ ItemInv(i)'
    BY <1>1, <1>3, <1>4, <1>6 DEF Alike, ItemInv, Constructed, Dead, Ended, IsOpen,
       Thread, Item, Sides
  <2> QED
    BY <1>3, <1>4, <1>6, <2>1 DEF Alike, ThreadStep, ItemStep, Item
<1> QED
  BY <1>1, <1>5, <1>6

LEMMA SendErrorKeeps ==
    ASSUME NEW i \in Items, NEW side \in Sides, items \in [Items -> Item],
           ItemInv(i), SendError(i, side)
    PROVE  ThreadStep(i)
<1>1. items[i] \in Item
  OBVIOUS
<1>2. CASE Finish(i, side, [items[i] EXCEPT !.reports = @ \cup {side}])
  <2> DEFINE told == [items[i] EXCEPT !.reports = @ \cup {side}]
  <2>1. told \in Item /\ Alike(items[i], told)
    BY <1>1 DEF Item, Alike
  <2> QED
    BY <1>2, <2>1, FinishKeeps DEF SendError
<1>3. ASSUME NEW fate \in {"raced", "terminated"},
             Finish(i, side, [items[i] EXCEPT !.fate = fate])
      PROVE  ThreadStep(i)
  <2> DEFINE told == [items[i] EXCEPT !.fate = fate]
  <2>1. told \in Item /\ Alike(items[i], told)
    BY <1>1 DEF Item, Alike
  <2> QED
    BY <1>3, <2>1, FinishKeeps DEF SendError
<1> QED
  BY <1>2, <1>3 DEF SendError

LEMMA ItemThreadKeeps ==
    ASSUME NEW i \in Items, items \in [Items -> Item], ItemInv(i), ItemThread(i)
    PROVE  ThreadStep(i)
  BY SocketGoesKeeps, ConnectRemoteKeeps, HandshakeKeeps, WebSocketGoesKeeps,
     SendErrorKeeps DEF ItemThread

-----------------------------------------------------------------------------
(* The steps the server makes on an item.                                  *)

LEMMA ConstructKeeps ==
    ASSUME NEW i \in Items, items \in [Items -> Item], ItemInv(i), Construct(i)
    PROVE  ItemStep(i) /\ ~Constructed(i)
<1> DEFINE now == [items[i] EXCEPT !.open = {"socket"}, !.joinable = {"socket"},
                    !.socket_thread = IF AutoProxy THEN "header" ELSE "connect"]
<1>1. items[i] \in Item
  OBVIOUS
<1>2. now \in Item
  BY <1>1 DEF Item, Sides
<1>3. /\ items' \in [Items -> Item] /\ items'[i] = now
      /\ \A j \in Items \ {i} : items'[j] = items[j]
  BY <1>2, BecomesItem DEF Construct
<1>4. Constructed(i)' /\ ~Constructed(i)
  BY <1>1, <1>3 DEF Construct, Constructed, Item
<1>5. ItemInv(i)'
  BY <1>1, <1>3, <1>4 DEF Construct, ItemInv, Constructed, Dead, Ended, IsOpen,
     Thread, Item, Sides
<1> QED
  BY <1>3, <1>4, <1>5 DEF ItemStep

LEMMA SetUpKeeps ==
    ASSUME NEW i \in Items, items \in [Items -> Item], ItemInv(i), Constructed(i),
           TakeOwnership(i) \/ SetOnErrorCallBack(i, "assigning")
           \/ SetOnErrorCallBack(i, "set")
    PROVE  ItemStep(i) /\ items'[i].close_mutex = items[i].close_mutex
  BY DEF TakeOwnership, SetOnErrorCallBack, Becomes, ItemStep, ItemInv, Constructed,
     Dead, Ended, IsOpen, Thread, Item, Sides

LEMMA ClearBeginKeeps ==
    ASSUME NEW i \in Items, NEW c \in Sides \cup {"stop"}, items \in [Items -> Item],
           ItemInv(i), Constructed(i), ClearBegin(i, c)
    PROVE  ItemStep(i) /\ items'[i].close_mutex = c
<1> DEFINE now == [items[i] EXCEPT !.close_mutex = c, !.clear = "join_socket",
                    !.reports = @ \ {c}, !.open = @ \ {"socket"}]
<1>1. items[i] \in Item
  OBVIOUS
<1>2. now \in Item
  BY <1>1 DEF Item
<1>3. /\ items' \in [Items -> Item] /\ items'[i] = now
      /\ \A j \in Items \ {i} : items'[j] = items[j]
  BY <1>2, BecomesItem DEF ClearBegin
<1>4. Constructed(i)' /\ (Dead(i) => Dead(i)')
  BY <1>1, <1>3 DEF Constructed, Dead, Ended, Thread, Item, Sides
<1>5. ItemInv(i)'
  BY <1>1, <1>3, <1>4 DEF ClearBegin, ItemInv, Constructed, Dead, Ended, IsOpen,
     Thread, Item, Sides
<1> QED
  BY <1>1, <1>3, <1>4, <1>5 DEF ItemStep, Item

LEMMA ClearJoinSocketKeeps ==
    ASSUME NEW i \in Items, NEW c \in Sides \cup {"stop"}, items \in [Items -> Item],
           ItemInv(i), ClearJoinSocket(i, c)
    PROVE  ItemStep(i) /\ items'[i].close_mutex = items[i].close_mutex
<1> DEFINE now == [items[i] EXCEPT !.clear = "join_websocket",
                    !.joinable = @ \ {"socket"}, !.open = @ \ {"websocket"}]
<1>1. items[i] \in Item
  OBVIOUS
<1>2. now \in Item
  BY <1>1 DEF Item
<1>3. /\ items' \in [Items -> Item] /\ items'[i] = now
      /\ \A j \in Items \ {i} : items'[j] = items[j]
  BY <1>2, BecomesItem DEF ClearJoinSocket
<1>4. Constructed(i) /\ Ended(i, "socket") /\ ~IsOpen(i, "socket")
  BY <1>1 DEF ClearJoinSocket, ItemInv, Joins, Sides
<1>5. Constructed(i)' /\ (Dead(i) => Dead(i)')
  BY <1>1, <1>3, <1>4 DEF Constructed, Dead, Ended, Thread, Item, Sides
<1>6. ItemInv(i)'
  BY <1>1, <1>3, <1>4, <1>5 DEF ClearJoinSocket, ItemInv, Constructed, Dead, Ended,
     IsOpen, Thread, Item, Sides
<1> QED
  BY <1>1, <1>3, <1>5, <1>6 DEF ItemStep, Item

(* When the websocket thread has been joined nothing of the item is left.  *)
LEMMA ClearJoinWebSocketKeeps ==
    ASSUME NEW i \in Items, NEW c \in Sides \cup {"stop"}, items \in [Items -> Item],
           ItemInv(i), ClearJoinWebSocket(i, c)
    PROVE  ItemStep(i) /\ Dead(i)'
<1> DEFINE now == [items[i] EXCEPT !.clear = "idle", !.close_mutex = "free",
                    !.joinable = @ \ {"websocket"},
                    !.erasing = @ \cup (Sides \cap {c})]
<1>1. items[i] \in Item
  OBVIOUS
<1>2. now \in Item
  BY <1>1 DEF Item
<1>3. /\ items' \in [Items -> Item] /\ items'[i] = now
      /\ \A j \in Items \ {i} : items'[j] = items[j]
  BY <1>2, BecomesItem DEF ClearJoinWebSocket
<1>4. Dead(i) /\ Constructed(i)
  BY <1>1 DEF ClearJoinWebSocket, ItemInv, Constructed, Dead, Ended, Joins, Thread,
     Item, Sides
<1>5. Dead(i)' /\ Constructed(i)'
  BY <1>1, <1>3, <1>4 DEF Constructed, Dead, Ended, Thread, Item, Sides
<1>6. ItemInv(i)'
  BY <1>1, <1>3, <1>4, <1>5 DEF ItemInv, Constructed, Dead, Ended, IsOpen, Thread,
     Item, Sides
<1> QED
  BY <1>3, <1>5, <1>6 DEF ItemStep

LEMMA HistoryTyped ==
    ASSUME NEW r \in Item, NEW e \in SUBSET Sides,
           NEW f \in {"normal", "raced", "terminated"}
    PROVE  [r EXCEPT !.erasing = e, !.fate = f] \in Item
  BY DEF Item

(* What an OnError that erases leaves of the item was dead already.        *)
LEMMA EraseKeeps ==
    ASSUME NEW i \in Items, NEW side \in Sides, items \in [Items -> Item],
           ItemInv(i), OnErrorErase(i, side)
    PROVE  ItemStep(i) /\ Dead(i)' /\ Constructed(i)
           /\ items'[i].close_mutex = items[i].close_mutex
<1> DEFINE fate == IF client = i THEN "raced" ELSE items[i].fate
           erasing == items[i].erasing \ {side}
           now == [items[i] EXCEPT !.erasing = erasing, !.fate = fate]
<1>1. items[i] \in Item
  OBVIOUS
<1>2. now \in Item
  <2>1. fate \in {"normal", "raced", "terminated"} /\ erasing \in SUBSET Sides
    BY <1>1 DEF Item
  <2> QED
    BY <1>1, <2>1, HistoryTyped
<1>3. /\ items' \in [Items -> Item] /\ items'[i] = now
      /\ \A j \in Items \ {i} : items'[j] = items[j]
  BY <1>2, BecomesItem DEF OnErrorErase
<1>4. Dead(i) /\ Constructed(i)
  BY <1>1 DEF OnErrorErase, ItemInv
<1>5. Dead(i)' /\ Constructed(i)'
  BY <1>1, <1>3, <1>4 DEF Constructed, Dead, Ended, Thread, Item, Sides
<1>6. ItemInv(i)'
  BY <1>1, <1>3, <1>4, <1>5 DEF ItemInv, Constructed, Dead, Ended, IsOpen, Thread,
     Item, Sides
<1> QED
  BY <1>1, <1>3, <1>4, <1>5, <1>6 DEF ItemStep, Item

(* The items a step does not touch keep what is said of them.              *)
LEMMA StepKeepsItems ==
    ASSUME NEW i \in Items, ItemStep(i), \A j \in Items : ItemInv(j)
    PROVE  \A j \in Items :
             /\ ItemInv(j)'
             /\ Constructed(j) => Constructed(j)'
             /\ Constructed(j) /\ Dead(j) => Dead(j)'
             /\ j # i => /\ Dead(j)' <=> Dead(j)
                         /\ Constructed(j)' <=> Constructed(j)
                         /\ items'[j].close_mutex = items[j].close_mutex
<1>1. ASSUME NEW j \in Items, j # i
      PROVE  /\ ItemInv(j)'
             /\ Dead(j)' <=> Dead(j)
             /\ Constructed(j)' <=> Constructed(j)
             /\ items'[j].close_mutex = items[j].close_mutex
  <2>1. items'[j] = items[j]
    BY <1>1 DEF ItemStep
  <2> QED
    BY <1>1, <2>1 DEF ItemInv, Dead, Ended, IsOpen, Thread, Constructed
<1> QED
  BY <1>1 DEF ItemStep

-----------------------------------------------------------------------------
(* The inductive invariant is kept.                                        *)

SettingUp == {"own", "callback", "assign", "insert"}

ServerTypes ==
    /\ ui \in {"off", "on", "close", "join", "loop", "visit", "clear"}
    /\ acceptor \in {"null", "open", "closed"}
    /\ accept_thread \in {"none", "bind", "accept", "own", "callback", "assign",
                          "insert", "done"}
    /\ {client, item} \subseteq Items \cup {NoItem}
    /\ socket_list \subseteq Items /\ todo \subseteq Items
    /\ undefined \in {"no", "yes", "fatal"}

(* A step on one item that the server's own variables do not see.          *)
LEMMA QuietStep ==
    ASSUME IInv, NEW i \in Items, Constructed(i), ItemStep(i), UNCHANGED server,
           items[i].close_mutex = "stop" =>
               items'[i].close_mutex = "stop" \/ Dead(i)'
    PROVE  IInv'
<1>1. \A j \in Items : /\ ItemInv(j)'
                       /\ Constructed(j) => Constructed(j)'
                       /\ Constructed(j) /\ Dead(j) => Dead(j)'
                       /\ j # i => /\ Dead(j)' <=> Dead(j)
                                   /\ Constructed(j)' <=> Constructed(j)
                                   /\ items'[j].close_mutex = items[j].close_mutex
  BY StepKeepsItems DEF IInv
<1>2. TypeOK'
  BY DEF IInv, TypeOK, ItemStep, server, stop
<1>3. \A j \in Items : Listed(j)' /\ Ahead(j)'
  BY <1>1 DEF IInv, Listed, Ahead, server, stop
<1>4. ServerInv'
  BY <1>1 DEF IInv, TypeOK, ServerInv, server, stop
<1> QED
  BY <1>1, <1>2, <1>3, <1>4 DEF IInv

LEMMA AcceptThreadKeepsIInv ==
    ASSUME IInv, AcceptThread
    PROVE  IInv'
<1>1. CASE Bind \/ BindFails \/ AcceptFails
  BY <1>1 DEF Bind, BindFails, AcceptFails, ThreadGoes, IInv, TypeOK, ServerInv,
     ItemInv, Listed, Ahead, Constructed, Dead, Ended, IsOpen, Thread, stop
<1>2. ASSUME NEW i \in Items, Accept(i)
      PROVE  IInv'
  <2>1. ItemStep(i) /\ ~Constructed(i)
    BY <1>2, ConstructKeeps DEF Accept, IInv, TypeOK
  <2>2. \A j \in Items : /\ ItemInv(j)'
                         /\ Constructed(j) => Constructed(j)'
                         /\ j # i => /\ Dead(j)' <=> Dead(j)
                                     /\ Constructed(j)' <=> Constructed(j)
    BY <2>1, StepKeepsItems DEF IInv
  <2>3. TypeOK' /\ client' = i /\ ui \notin {"off", "loop", "visit", "clear"}
    BY <1>2, <2>1 DEF Accept, ThreadGoes, IInv, TypeOK, ServerInv, ItemStep, stop
  <2>4. \A j \in Items : Listed(j)' /\ Ahead(j)'
    BY <1>2, <2>2, <2>3, NoItemAssumption DEF Accept, ThreadGoes, IInv, TypeOK, ServerInv, Listed, Ahead
  <2>5. ServerInv'
    BY <1>2, <2>1, <2>2, <2>3, NoItemAssumption
       DEF Accept, ThreadGoes, IInv, TypeOK, ServerInv, ItemStep
  <2> QED
    BY <2>2, <2>3, <2>4, <2>5 DEF IInv
<1>3. CASE OwnClient \/ SetCallback
  <2>1. client \in Items /\ Constructed(client) /\ UNCHANGED <<ui, acceptor, socket_list, client, stop>>
        /\ accept_thread \in SettingUp /\ accept_thread' \in SettingUp
    BY <1>3 DEF OwnClient, SetCallback, ThreadGoes, IInv, ServerInv, SettingUp
  <2>2. ItemStep(client) /\ items'[client].close_mutex = items[client].close_mutex
    BY <1>3, <2>1, SetUpKeeps DEF OwnClient, SetCallback, IInv, TypeOK
  <2>3. \A j \in Items : /\ ItemInv(j)'
                         /\ Constructed(j) => Constructed(j)'
                         /\ Constructed(j) /\ Dead(j) => Dead(j)'
                         /\ j # client => /\ Dead(j)' <=> Dead(j)
                                          /\ Constructed(j)' <=> Constructed(j)
    BY <2>1, <2>2, StepKeepsItems DEF IInv
  <2>4. TypeOK' /\ ui \notin {"off", "loop", "visit", "clear"}
    BY <2>1, <2>2 DEF IInv, TypeOK, ServerInv, ItemStep, stop, SettingUp
  <2>5. \A j \in Items : Listed(j)' /\ Ahead(j)'
    BY <2>1, <2>3, <2>4 DEF IInv, Listed, Ahead, stop
  <2>6. ServerInv'
    BY <2>1, <2>3, <2>4, NoItemAssumption DEF IInv, TypeOK, ServerInv, stop, SettingUp
  <2> QED
    BY <2>3, <2>4, <2>5, <2>6 DEF IInv
<1>4. CASE InsertClient
  <2>1. /\ client \in Items /\ Constructed(client) /\ client' = NoItem
        /\ socket_list' = socket_list \cup {client}
        /\ accept_thread = "insert" /\ accept_thread' = "accept"
        /\ UNCHANGED <<items, ui, acceptor, todo, item, undefined>>
    BY <1>4 DEF InsertClient, ThreadGoes, IInv, ServerInv, stop
  <2>2. ui \notin {"off", "loop", "visit", "clear"}
    BY <2>1 DEF IInv, ServerInv
  <2>3. \A j \in Items : /\ ItemInv(j)' /\ (Dead(j)' <=> Dead(j))
                         /\ (Constructed(j)' <=> Constructed(j))
    BY <2>1 DEF IInv, ItemInv, Dead, Ended, IsOpen, Thread, Constructed
  <2>4. TypeOK'
    BY <2>1 DEF IInv, TypeOK
  <2>5. \A j \in Items : Listed(j)' /\ Ahead(j)'
    BY <2>1, <2>2, <2>3 DEF IInv, Listed, Ahead
  <2>6. ServerInv'
    BY <2>1, <2>2, <2>3, NoItemAssumption DEF IInv, TypeOK, ServerInv
  <2> QED
    BY <2>3, <2>4, <2>5, <2>6 DEF IInv
<1> QED
  BY <1>1, <1>2, <1>3, <1>4 DEF AcceptThread

LEMMA UIThreadKeepsIInv ==
    ASSUME IInv, UIThread
    PROVE  IInv'
<1>1. CASE UNCHANGED items /\ UNCHANGED <<client, socket_list>>
           /\ (StartServer \/ StopServer \/ StopCloseAcceptor \/ StopJoinThread
               \/ (\E i \in Items : StopVisit(i)) \/ StopStumbles \/ StopAdvance
               \/ StopReturns)
  <2>1. \A j \in Items : /\ ItemInv(j)' /\ (Dead(j)' <=> Dead(j))
                         /\ (Constructed(j)' <=> Constructed(j))
                         /\ items'[j] = items[j]
    BY <1>1 DEF IInv, ItemInv, Dead, Ended, IsOpen, Thread, Constructed
  <2>2. TypeOK'
    BY <1>1 DEF StartServer, StopServer, StopCloseAcceptor, StopJoinThread, StopVisit,
       StopStumbles, StopAdvance, StopReturns, UIGoes, IInv, TypeOK, stop
  <2>3. \A j \in Items : Listed(j)'
    BY <1>1, <2>1 DEF IInv, Listed
  <2>4. \A j \in Items : Ahead(j)'
    <3>1. CASE StartServer \/ StopServer \/ StopCloseAcceptor
      BY <2>1, <3>1 DEF StartServer, StopServer, StopCloseAcceptor, UIGoes, Ahead
    <3>2. CASE StopJoinThread
      BY <2>1, <3>2, NoItemAssumption DEF StopJoinThread, UIGoes, IInv, ServerInv, Listed, Ahead, stop
    <3>3. CASE (\E i \in Items : StopVisit(i)) \/ StopReturns
      BY <2>1, <3>3 DEF StopVisit, StopReturns, UIGoes, IInv, Ahead
    <3>4. CASE StopAdvance
      BY <2>1, <3>4 DEF StopAdvance, UIGoes, IInv, ServerInv, Ahead
    <3>5. CASE StopStumbles
      BY <3>5 DEF StopStumbles, Ahead
    <3> QED
      BY <1>1, <3>1, <3>2, <3>3, <3>4, <3>5
  <2>5. ServerInv'
    BY <1>1, <2>1, NoItemAssumption
       DEF StartServer, StopServer, StopCloseAcceptor, StopJoinThread, StopVisit,
           StopStumbles, StopAdvance, StopReturns, UIGoes, IInv, TypeOK, ServerInv, stop
  <2> QED
    BY <2>1, <2>2, <2>3, <2>4, <2>5 DEF IInv
<1>2. CASE StopClear
  <2>1. /\ item \in Items /\ Constructed(item) /\ ui = "visit" /\ ui' = "clear"
        /\ UNCHANGED <<acceptor, accept_thread, client, socket_list, todo, item, undefined>>
    BY <1>2 DEF StopClear, UIGoes, IInv, ServerInv, stop
  <2>2. ItemStep(item) /\ items'[item].close_mutex = "stop"
    BY <1>2, <2>1, ClearBeginKeeps DEF StopClear, IInv, TypeOK
  <2>3. \A j \in Items : /\ ItemInv(j)'
                         /\ Constructed(j) => Constructed(j)'
                         /\ Constructed(j) /\ Dead(j) => Dead(j)'
                         /\ j # item => /\ Dead(j)' <=> Dead(j)
                                        /\ Constructed(j)' <=> Constructed(j)
    BY <2>1, <2>2, StepKeepsItems DEF IInv
  <2>4. TypeOK'
    BY <2>1, <2>2 DEF IInv, TypeOK, ItemStep
  <2>5. \A j \in Items : Listed(j)' /\ Ahead(j)'
    BY <2>1, <2>3 DEF IInv, Listed, Ahead
  <2>6. ServerInv'
    BY <2>1, <2>2, <2>3 DEF IInv, TypeOK, ServerInv
  <2> QED
    BY <2>3, <2>4, <2>5, <2>6 DEF IInv
<1> QED
  BY <1>1, <1>2 DEF UIThread, StartServer, StopServer, StopCloseAcceptor,
     StopJoinThread, StopVisit, StopStumbles, StopAdvance, StopReturns, UIGoes

LEMMA EraseKeepsIInv ==
    ASSUME IInv, NEW i \in Items, NEW side \in Sides, OnErrorErase(i, side)
    PROVE  IInv'
<1>1. ItemStep(i) /\ Dead(i)' /\ Constructed(i)
      /\ items'[i].close_mutex = items[i].close_mutex
  BY EraseKeeps DEF IInv, TypeOK
<1>2. /\ socket_list' = socket_list \ {i}
      /\ UNCHANGED <<ui, acceptor, accept_thread, client, todo, item, undefined>>
  BY DEF OnErrorErase, stop
<1>3. \A j \in Items : /\ ItemInv(j)'
                       /\ Constructed(j) => Constructed(j)'
                       /\ Constructed(j) /\ Dead(j) => Dead(j)'
                       /\ j # i => /\ Dead(j)' <=> Dead(j)
                                   /\ Constructed(j)' <=> Constructed(j)
                                   /\ items'[j].close_mutex = items[j].close_mutex
  BY <1>1, StepKeepsItems DEF IInv
<1>4. TypeOK'
  BY <1>1, <1>2 DEF IInv, TypeOK, ItemStep
<1>5. \A j \in Items : Listed(j)' /\ Ahead(j)'
  BY <1>1, <1>2, <1>3 DEF IInv, Listed, Ahead
<1>6. ServerInv'
  BY <1>1, <1>2, <1>3 DEF IInv, TypeOK, ServerInv
<1> QED
  BY <1>3, <1>4, <1>5, <1>6 DEF IInv

LEMMA NextKeepsIInv ==
    ASSUME IInv, [Next]_vars
    PROVE  IInv'
<1>1. CASE AcceptThread
  BY <1>1, AcceptThreadKeepsIInv
<1>2. CASE UIThread
  BY <1>2, UIThreadKeepsIInv
<1>3. ASSUME NEW i \in Items, ItemThread(i), UNCHANGED server
      PROVE  IInv'
  <2>1. ThreadStep(i)
    BY <1>3, ItemThreadKeeps DEF IInv, TypeOK
  <2> QED
    BY <1>3, <2>1, QuietStep DEF ThreadStep
<1>4. ASSUME NEW i \in Items, NEW c \in Sides \cup {"stop"}, ClearSteps(i, c)
      PROVE  IInv'
  <2>1. items[i].close_mutex = c /\ items \in [Items -> Item] /\ ItemInv(i)
        /\ UNCHANGED server
    BY <1>4 DEF ClearSteps, ClearJoinSocket, ClearJoinWebSocket, IInv, TypeOK
  <2>2. Constructed(i)
    BY <2>1 DEF ItemInv, Sides
  <2>3. CASE ClearJoinSocket(i, c)
    BY <2>1, <2>2, <2>3, ClearJoinSocketKeeps, QuietStep
  <2>4. CASE ClearJoinWebSocket(i, c)
    BY <2>1, <2>2, <2>4, ClearJoinWebSocketKeeps, QuietStep
  <2> QED
    BY <1>4, <2>3, <2>4 DEF ClearSteps
<1>5. ASSUME NEW i \in Items, NEW side \in Sides, OnErrorClear(i, side)
      PROVE  IInv'
  <2>1. Constructed(i) /\ items[i].close_mutex = "free"
    BY <1>5 DEF OnErrorClear, ClearBegin, IInv, ItemInv
  <2>2. ItemStep(i)
    BY <1>5, <2>1, ClearBeginKeeps DEF OnErrorClear, IInv, TypeOK
  <2> QED
    BY <1>5, <2>1, <2>2, QuietStep DEF OnErrorClear
<1>6. ASSUME NEW i \in Items, NEW side \in Sides, OnErrorErase(i, side)
      PROVE  IInv'
  BY <1>6, EraseKeepsIInv
<1>7. CASE UNCHANGED vars
  BY <1>7 DEF vars, server, stop, IInv, TypeOK, ServerInv, ItemInv, Listed, Ahead,
     Constructed, Dead, Ended, IsOpen, Thread
<1> QED
  BY <1>1, <1>2, <1>3, <1>4, <1>5, <1>6, <1>7 DEF Next

LEMMA InitIInv ==
    ASSUME Init
    PROVE  IInv
  BY NoItemAssumption
     DEF Init, ItemInit, IInv, TypeOK, Item, ItemInv, Listed, Ahead, ServerInv,
         Constructed, Dead, Ended, IsOpen, Thread, Sides

\* The inductive invariant holds of every behaviour of the server.
THEOREM Invariance == SafeSpec => []IInv
<1>1. Init => IInv
  BY InitIInv
<1>2. IInv /\ [Next]_vars => IInv'
  BY NextKeepsIInv
<1> QED
  BY <1>1, <1>2, PTL DEF SafeSpec

-----------------------------------------------------------------------------

\* Every variable keeps its type, for any number of connections.
THEOREM TypeCorrect == SafeSpec => []TypeOK
<1>1. IInv => TypeOK
  BY DEF IInv
<1> QED
  BY <1>1, Invariance, PTL

\* After a Clear of any item nothing of it is left, nor comes back
\* (client_socket_item.cpp:37-53).
THEOREM ClearIsComplete == SafeSpec => []ClearLeavesNothing
<1>1. IInv => ClearLeavesNothing
  BY DEF IInv, ItemInv, ClearLeavesNothing, Constructed, IsOpen
<1> QED
  BY <1>1, Invariance, PTL

\* The last shared_ptr to an item never goes before the item was cleared
\* (client_socket_item.cpp:23-26).
THEOREM DestructorIsIdle == SafeSpec => []DestructorFindsNothing
<1>1. IInv => DestructorFindsNothing
  BY DEF IInv, Listed, DestructorFindsNothing, Referenced
<1> QED
  BY <1>1, Invariance, PTL

\* A StopServer that returned left nothing running, of any number of
\* connections, unless it met an erased node (client_server.cpp:20-32).
THEOREM StopIsComplete == SafeSpec => []StopLeavesNothingRunning
<1>1. IInv => StopLeavesNothingRunning
  BY DEF IInv, Ahead, StopLeavesNothingRunning
<1> QED
  BY <1>1, Invariance, PTL

-----------------------------------------------------------------------------
(* The server implements the service its owner counts on: every step of    *)
(* its threads is a step of ConnectionService or leaves what the owner     *)
(* sees alone.                                                             *)

(* A step that no owner sees, and the three kinds that one may see.        *)
LEMMA Unseen ==
    ASSUME UNCHANGED items, Serving' = Serving
    PROVE  UNCHANGED <<Serving, Conns>>
  BY DEF Conns, Conn, Dead, Ended, IsOpen, Thread

LEMMA ItemStepMaps ==
    ASSUME NEW i \in Items, ItemStep(i), Serving' = Serving,
           Constructed(i) \/ (Serving /\ ~Dead(i)')
    PROVE  [Service!Next]_<<Serving, Conns>>
<1>1. \A j \in Items \ {i} : Conn(j)' = Conn(j)
  BY DEF ItemStep, Conn, Dead, Ended, Thread
<1>2. Conns' = [Conns EXCEPT ![i] = Conn(i)']
  BY <1>1 DEF Conns
<1>3. /\ Conns[i] = Conn(i) /\ Conn(i) \in {"none", "open", "ended"}
      /\ Conn(i)' \in {"open", "ended"}
      /\ Conn(i)' = "ended" <=> Dead(i)'
      /\ Conn(i) = "none" <=> ~Constructed(i)
      /\ Conn(i) = "ended" => Conn(i)' = "ended"
  BY DEF ItemStep, Conns, Conn, Constructed
<1>4. CASE Conn(i)' = Conn(i)
  <2>1. Conns' = Conns
    BY <1>2, <1>3, <1>4 DEF Conns
  <2> QED
    BY <2>1
<1>5. CASE Conn(i) = "none" /\ Conn(i)' = "open"
  <2>1. Service!Open(i)
    BY <1>2, <1>3, <1>5 DEF Service!Open
  <2> QED
    BY <2>1 DEF Service!Next
<1>6. CASE Conn(i) = "open" /\ Conn(i)' = "ended"
  <2>1. Service!End(i)
    BY <1>2, <1>3, <1>6 DEF Service!End
  <2> QED
    BY <2>1 DEF Service!Next
<1> QED
  BY <1>3, <1>4, <1>5, <1>6

(* The owner's own calls: a start, and a return that leaves nothing open.  *)
LEMMA UIThreadMaps ==
    ASSUME IInv, IInv', UIThread
    PROVE  [Service!Next]_<<Serving, Conns>>
<1>1. CASE StartServer
  <2>1. UNCHANGED <<items, undefined>> /\ ui = "off" /\ ui' = "on"
    BY <1>1 DEF StartServer, stop
  <2>2. Conns' = Conns
    BY <2>1, Unseen DEF Conns, Conn, Dead, Ended, Thread
  <2>3. CASE undefined = "no"
    <3>1. Service!Serve
      BY <2>1, <2>2, <2>3 DEF Service!Serve, Serving
    <3> QED
      BY <3>1 DEF Service!Next
  <2>4. CASE undefined # "no"
    BY <2>1, <2>2, <2>4 DEF Serving
  <2> QED
    BY <2>3, <2>4
<1>2. CASE StopReturns
  <2>1. UNCHANGED <<items, undefined>> /\ ui = "loop" /\ ui' = "off"
    BY <1>2 DEF StopReturns, UIGoes
  <2>2. Conns' = Conns
    BY <2>1 DEF Conns, Conn, Dead, Ended, Thread
  <2>3. CASE undefined = "no"
    <3>1. \A i \in Items : Conns[i] # "open"
      BY <2>1, <2>3 DEF IInv, Ahead, Conns, Conn, Dead, Ended, Thread
    <3>2. Service!Halt
      BY <2>1, <2>2, <2>3, <3>1 DEF Service!Halt, Serving
    <3> QED
      BY <3>2 DEF Service!Next
  <2>4. CASE undefined # "no"
    BY <2>1, <2>2, <2>4 DEF Serving
  <2> QED
    BY <2>3, <2>4
<1>3. CASE \/ StopServer \/ StopCloseAcceptor \/ StopJoinThread \/ StopStumbles
           \/ StopAdvance \/ (\E i \in Items : StopVisit(i))
  <2>1. UNCHANGED items /\ Serving' = Serving
    BY <1>3 DEF StopServer, StopCloseAcceptor, StopJoinThread, StopStumbles, StopAdvance,
       StopVisit, UIGoes, Serving
  <2> QED
    BY <2>1, Unseen
<1>4. CASE StopClear
  <2>1. item \in Items /\ Constructed(item) /\ ItemInv(item) /\ Serving' = Serving
    BY <1>4 DEF StopClear, UIGoes, IInv, ServerInv, Serving
  <2>2. ItemStep(item)
    BY <1>4, <2>1, ClearBeginKeeps DEF StopClear, IInv, TypeOK
  <2> QED
    BY <2>1, <2>2, ItemStepMaps
<1> QED
  BY <1>1, <1>2, <1>3, <1>4 DEF UIThread

(* A connection opens while the accept thread runs, so while serving.      *)
LEMMA AcceptThreadMaps ==
    ASSUME IInv, AcceptThread
    PROVE  [Service!Next]_<<Serving, Conns>>
<1>1. CASE Bind \/ BindFails \/ AcceptFails \/ InsertClient
  <2>1. UNCHANGED items /\ Serving' = Serving
    BY <1>1 DEF Bind, BindFails, AcceptFails, InsertClient, ThreadGoes, stop, Serving
  <2> QED
    BY <2>1, Unseen
<1>2. ASSUME NEW i \in Items, Accept(i)
      PROVE  [Service!Next]_<<Serving, Conns>>
  <2>1. Serving' = Serving /\ Serving
    BY <1>2 DEF Accept, ThreadGoes, IInv, ServerInv, stop, Serving
  <2>2. ItemStep(i)
    BY <1>2, ConstructKeeps DEF Accept, IInv, TypeOK
  <2>3. ~Dead(i)'
    BY <1>2 DEF Accept, Construct, Becomes, IInv, TypeOK, Item, Dead, Ended, Thread, Sides
  <2> QED
    BY <2>1, <2>2, <2>3, ItemStepMaps
<1>3. CASE OwnClient \/ SetCallback
  <2>1. client \in Items /\ Constructed(client) /\ Serving' = Serving
    BY <1>3 DEF OwnClient, SetCallback, ThreadGoes, IInv, ServerInv, stop, Serving
  <2>2. ItemStep(client)
    BY <1>3, <2>1, SetUpKeeps DEF OwnClient, SetCallback, IInv, TypeOK
  <2> QED
    BY <2>1, <2>2, ItemStepMaps
<1> QED
  BY <1>1, <1>2, <1>3 DEF AcceptThread

LEMMA NextMaps ==
    ASSUME IInv, IInv', [Next]_vars
    PROVE  [Service!Next]_<<Serving, Conns>>
<1>1. CASE AcceptThread
  BY <1>1, AcceptThreadMaps
<1>2. CASE UIThread
  BY <1>2, UIThreadMaps
<1>3. ASSUME NEW i \in Items, ItemThread(i), UNCHANGED server
      PROVE  [Service!Next]_<<Serving, Conns>>
  <2>1. ItemStep(i) /\ Constructed(i) /\ Serving' = Serving
    BY <1>3, ItemThreadKeeps DEF IInv, TypeOK, ThreadStep, server, stop, Serving
  <2> QED
    BY <2>1, ItemStepMaps
<1>4. ASSUME NEW i \in Items, NEW c \in Sides \cup {"stop"}, ClearSteps(i, c)
      PROVE  [Service!Next]_<<Serving, Conns>>
  <2>1. /\ items[i].close_mutex = c /\ items \in [Items -> Item] /\ ItemInv(i)
        /\ Serving' = Serving
    BY <1>4 DEF ClearSteps, ClearJoinSocket, ClearJoinWebSocket, IInv, TypeOK, server, stop,
       Serving
  <2>2. Constructed(i)
    BY <2>1 DEF ItemInv, Sides
  <2>3. ItemStep(i)
    BY <1>4, <2>1, ClearJoinSocketKeeps, ClearJoinWebSocketKeeps DEF ClearSteps
  <2> QED
    BY <2>1, <2>2, <2>3, ItemStepMaps
<1>5. ASSUME NEW i \in Items, NEW side \in Sides, OnErrorClear(i, side)
      PROVE  [Service!Next]_<<Serving, Conns>>
  <2>1. Constructed(i) /\ Serving' = Serving
    BY <1>5 DEF OnErrorClear, IInv, ItemInv, server, stop, Serving
  <2>2. ItemStep(i)
    BY <1>5, <2>1, ClearBeginKeeps DEF OnErrorClear, IInv, TypeOK
  <2> QED
    BY <2>1, <2>2, ItemStepMaps
<1>6. ASSUME NEW i \in Items, NEW side \in Sides, OnErrorErase(i, side)
      PROVE  [Service!Next]_<<Serving, Conns>>
  <2>1. ItemStep(i) /\ Constructed(i) /\ Serving' = Serving
    BY <1>6, EraseKeeps DEF IInv, TypeOK, OnErrorErase, stop, Serving
  <2> QED
    BY <2>1, ItemStepMaps
<1>7. CASE UNCHANGED vars
  BY <1>7, Unseen DEF vars, server, stop, Serving
<1> QED
  BY <1>1, <1>2, <1>3, <1>4, <1>5, <1>6, <1>7 DEF Next

LEMMA InitMaps ==
    ASSUME Init
    PROVE  Service!Init
  BY DEF Init, ItemInit, Service!Init, Serving, Conns, Conn

\* The server implements the service its owner counts on: a connection opens
\* only while serving, ends once and for all, and has ended when serving stops
\* (client_server.cpp:15-58).
THEOREM ServerImplementsService == SafeSpec => Promise
<1>1. IInv /\ IInv' /\ [Next]_vars => [Service!Next]_<<Serving, Conns>>
  BY NextMaps
<1> QED
  BY <1>1, InitMaps, Invariance, PTL DEF SafeSpec, Promise, Service!Spec

-----------------------------------------------------------------------------
(* What an error can meet between two steps of an item's set-up: when a    *)
(* thread throws, and when a dead item stays in the list.                  *)

(* Somebody is on the way to erase the item.                               *)
Pending(i) ==
    items[i].reports \cup items[i].erasing # {} \/ items[i].close_mutex \in Sides

(* The set-up goes with the accept thread; every error that ended the      *)
(* socket thread is pending, or has reached the list, or fell in between.  *)
SetUpInv(i) ==
    /\ ~Constructed(i) => items[i].set_up = "new" /\ items[i].fate = "normal"
    /\ Constructed(i) /\ items[i].set_up = "new" => client = i /\ accept_thread = "own"
    /\ items[i].set_up = "owned" => client = i /\ accept_thread = "callback"
    /\ items[i].set_up = "assigning" => client = i /\ accept_thread = "assign"
    /\ client = i => i \notin socket_list
    /\ items[i].fate = "terminated" =>
            client = i /\ accept_thread \in {"own", "callback", "assign"}
    /\ items[i].socket_thread = "done" /\ items[i].fate = "normal" =>
            Pending(i) \/ i \notin socket_list \cup {client}

StartInv == \A i \in Items : SetUpInv(i)

-----------------------------------------------------------------------------
(* What the steps on an item do to its set-up and to its errors.           *)

SetUpStep(i) ==
    /\ items'[i].set_up = items[i].set_up /\ items'[i].fate = items[i].fate
    /\ Pending(i) => Pending(i)'
    /\ items'[i].socket_thread = "done" => items[i].socket_thread = "done"

ErrorStep(i) ==
    /\ items'[i].set_up = items[i].set_up
    /\ \/ items'[i].fate = items[i].fate /\ Pending(i)'
       \/ items'[i].fate = "raced"
       \/ items'[i].fate = "terminated" /\ items[i].set_up \in {"new", "assigning"}

LEMMA SocketMoves ==
    ASSUME NEW i \in Items, NEW from, NEW to \in {"connect", "read", "write", "error"},
           items \in [Items -> Item], SocketGoes(i, from, to)
    PROVE  SetUpStep(i)
  BY DEF SocketGoes, Becomes, SetUpStep, Pending, Item

LEMMA SocketSteps ==
    ASSUME NEW i \in Items, items \in [Items -> Item],
           ReadHeader(i) \/ HandshakeFails(i) \/ WebSocketWrite(i)
           \/ WebSocketWriteFails(i) \/ ReadSocket(i) \/ ReadSocketFails(i)
           \/ SocketGoes(i, "handshake", "error")
    PROVE  SetUpStep(i)
  BY SocketMoves DEF ReadHeader, HandshakeFails, WebSocketWrite, WebSocketWriteFails,
     ReadSocket, ReadSocketFails

LEMMA WebSocketSteps ==
    ASSUME NEW i \in Items, items \in [Items -> Item],
           ReadWebSocket(i) \/ ReadWebSocketFails(i)
           \/ SocketWrite(i) \/ SocketWriteFails(i)
    PROVE  SetUpStep(i)
  BY DEF ReadWebSocket, ReadWebSocketFails, SocketWrite, SocketWriteFails,
     WebSocketGoes, Becomes, SetUpStep, Pending, Item

LEMMA DialSteps ==
    ASSUME NEW i \in Items, items \in [Items -> Item], ConnectRemote(i) \/ Handshake(i)
    PROVE  SetUpStep(i)
<1>1. items[i] \in Item
  OBVIOUS
<1>2. CASE ConnectRemote(i)
  BY <1>1, <1>2 DEF ConnectRemote, Becomes, SetUpStep, Pending, Item
<1>3. CASE SocketGoes(i, "handshake", "error")
  BY <1>3, SocketMoves
<1>4. CASE Becomes(i, [items[i] EXCEPT !.socket_thread = "first",
                        !.websocket_thread = "read", !.joinable = @ \cup {"websocket"}])
  BY <1>1, <1>4 DEF Becomes, SetUpStep, Pending, Item
<1> QED
  BY <1>2, <1>3, <1>4 DEF Handshake

LEMMA SendErrorStep ==
    ASSUME NEW i \in Items, NEW side \in Sides, items \in [Items -> Item],
           SendError(i, side)
    PROVE  ErrorStep(i)
<1>1. items[i] \in Item /\ side \in {"socket", "websocket"}
  BY DEF Sides
<1>2. CASE Finish(i, side, [items[i] EXCEPT !.reports = @ \cup {side}])
  BY <1>1, <1>2 DEF Finish, Becomes, ErrorStep, Pending, Item
<1>3. ASSUME NEW fate \in {"raced", "terminated"},
             Finish(i, side, [items[i] EXCEPT !.fate = fate])
      PROVE  items'[i].fate = fate /\ items'[i].set_up = items[i].set_up
  BY <1>1, <1>3 DEF Finish, Becomes, Item
<1> QED
  BY <1>2, <1>3 DEF SendError, ErrorStep

LEMMA ClearSetUp ==
    ASSUME NEW i \in Items, NEW c \in Sides \cup {"stop"}, items \in [Items -> Item],
           ClearBegin(i, c) \/ ClearJoinSocket(i, c) \/ ClearJoinWebSocket(i, c),
           c = "stop" \/ c \in items[i].reports \/ c = items[i].close_mutex
    PROVE  SetUpStep(i)
<1>1. items[i] \in Item /\ c \in {"socket", "websocket", "stop"}
  BY DEF Sides
<1>2. CASE ClearBegin(i, c)
  BY <1>1, <1>2 DEF ClearBegin, Becomes, SetUpStep, Pending, Item, Sides
<1>3. CASE ClearJoinSocket(i, c)
  BY <1>1, <1>3 DEF ClearJoinSocket, Becomes, SetUpStep, Pending, Item, Sides
<1>4. CASE ClearJoinWebSocket(i, c)
  BY <1>1, <1>4 DEF ClearJoinWebSocket, Becomes, SetUpStep, Pending, Item, Sides
<1> QED
  BY <1>2, <1>3, <1>4

-----------------------------------------------------------------------------
(* The invariant is kept.                                                  *)

(* A step on an item in service, and one in which its thread ends.         *)
LEMMA InService ==
    ASSUME IInv, StartInv, NEW i \in Items, ItemStep(i), Constructed(i),
           SetUpStep(i) \/ ErrorStep(i), UNCHANGED server
    PROVE  StartInv'
<1>1. \A j \in Items \ {i} : items'[j] = items[j]
  BY DEF ItemStep
<1>2. \A j \in Items \ {i} : SetUpInv(j)'
  BY <1>1 DEF StartInv, SetUpInv, Constructed, Pending, server, stop
<1>3. SetUpInv(i)'
  <2>1. CASE SetUpStep(i)
    BY <2>1 DEF StartInv, SetUpInv, SetUpStep, ItemStep, Constructed, server, stop
  <2>2. CASE ErrorStep(i)
    BY <2>2 DEF StartInv, SetUpInv, ErrorStep, ItemStep, Constructed, server, stop
  <2> QED
    BY <2>1, <2>2
<1> QED
  BY <1>2, <1>3 DEF StartInv

LEMMA ThreadKeepsStart ==
    ASSUME IInv, StartInv, NEW i \in Items, ItemThread(i), UNCHANGED server
    PROVE  StartInv'
<1>1. ItemStep(i) /\ Constructed(i)
  BY ItemThreadKeeps DEF IInv, TypeOK, ThreadStep
<1>2. SetUpStep(i) \/ ErrorStep(i)
  BY SocketSteps, WebSocketSteps, DialSteps, SendErrorStep DEF ItemThread, IInv, TypeOK
<1> QED
  BY <1>1, <1>2, InService

LEMMA ClearKeepsStart ==
    ASSUME IInv, StartInv, NEW i \in Items, NEW c \in Sides \cup {"stop"},
           ClearSteps(i, c)
    PROVE  StartInv'
<1>1. items[i].close_mutex = c /\ items \in [Items -> Item] /\ ItemInv(i)
      /\ UNCHANGED server
  BY DEF ClearSteps, ClearJoinSocket, ClearJoinWebSocket, IInv, TypeOK
<1>2. Constructed(i)
  BY <1>1 DEF ItemInv, Sides
<1>3. ItemStep(i) /\ SetUpStep(i)
  BY <1>1, ClearJoinSocketKeeps, ClearJoinWebSocketKeeps, ClearSetUp DEF ClearSteps
<1> QED
  BY <1>1, <1>2, <1>3, InService

LEMMA OnErrorKeepsStart ==
    ASSUME IInv, StartInv, NEW i \in Items, NEW side \in Sides, OnErrorClear(i, side)
    PROVE  StartInv'
<1>1. Constructed(i) /\ UNCHANGED server
  BY DEF OnErrorClear, IInv, ItemInv
<1>2. ItemStep(i) /\ SetUpStep(i)
  BY <1>1, ClearBeginKeeps, ClearSetUp DEF OnErrorClear, IInv, TypeOK
<1> QED
  BY <1>1, <1>2, InService

(* An erase that comes before the insert is the race; any other one takes  *)
(* the item from the list.                                                 *)
LEMMA EraseKeepsStart ==
    ASSUME IInv, StartInv, NEW i \in Items, NEW side \in Sides, OnErrorErase(i, side)
    PROVE  StartInv'
<1>1. ItemStep(i) /\ Constructed(i)
  BY EraseKeeps DEF IInv, TypeOK
<1>2. /\ items'[i].set_up = items[i].set_up
      /\ items'[i].fate = IF client = i THEN "raced" ELSE items[i].fate
  BY DEF OnErrorErase, Becomes, IInv, TypeOK, Item
<1>3. socket_list' = socket_list \ {i} /\ UNCHANGED <<client, accept_thread>>
  BY DEF OnErrorErase
<1>4. \A j \in Items \ {i} : SetUpInv(j)'
  <2>1. \A j \in Items \ {i} : items'[j] = items[j]
    BY <1>1 DEF ItemStep
  <2> QED
    BY <1>3, <2>1 DEF StartInv, SetUpInv, Constructed, Pending
<1>5. SetUpInv(i)'
  BY <1>1, <1>2, <1>3 DEF StartInv, SetUpInv, ItemStep, Constructed
<1> QED
  BY <1>4, <1>5 DEF StartInv

LEMMA UIThreadKeepsStart ==
    ASSUME IInv, StartInv, ~Crashed, UIThread
    PROVE  StartInv'
<1>1. CASE StopClear
  <2>1. /\ item \in Items /\ Constructed(item)
        /\ UNCHANGED <<item, accept_thread, client, socket_list>>
    BY <1>1 DEF StopClear, UIGoes, IInv, ServerInv, stop
  <2>2. ItemStep(item) /\ SetUpStep(item)
    BY <1>1, <2>1, ClearBeginKeeps, ClearSetUp DEF StopClear, IInv, TypeOK
  <2>3. \A j \in Items \ {item} : SetUpInv(j)'
    <3>1. \A j \in Items \ {item} : items'[j] = items[j]
      BY <2>2 DEF ItemStep
    <3> QED
      BY <2>1, <3>1 DEF StartInv, SetUpInv, Constructed, Pending
  <2>4. \A j \in Items : j = item => SetUpInv(j)'
    BY <2>1, <2>2 DEF StartInv, SetUpInv, SetUpStep, ItemStep, Constructed
  <2> QED
    BY <2>3, <2>4 DEF StartInv
<1>2. CASE ~StopClear
  <2>1. UNCHANGED <<items, client, socket_list>>
    BY <1>2 DEF UIThread, StartServer, StopServer, StopCloseAcceptor, StopJoinThread,
       StopVisit, StopStumbles, StopAdvance, StopReturns, UIGoes
  <2>2. accept_thread' = accept_thread \/ client = NoItem
    BY <1>2 DEF UIThread, StartServer, StopServer, StopCloseAcceptor, StopJoinThread,
       StopVisit, StopStumbles, StopAdvance, StopReturns, UIGoes, IInv, ServerInv
  <2> QED
    BY <2>1, <2>2, NoItemAssumption DEF StartInv, SetUpInv, Constructed, Pending
<1> QED
  BY <1>1, <1>2

LEMMA AcceptThreadKeepsStart ==
    ASSUME IInv, StartInv, ~Crashed, AcceptThread
    PROVE  StartInv'
<1>1. CASE Bind \/ BindFails \/ AcceptFails
  <2>1. UNCHANGED <<items, client, socket_list>> /\ client = NoItem
    BY <1>1 DEF Bind, BindFails, AcceptFails, ThreadGoes, IInv, ServerInv
  <2> QED
    BY <2>1, NoItemAssumption DEF StartInv, SetUpInv, Constructed, Pending
<1>2. ASSUME NEW i \in Items, Accept(i)
      PROVE  StartInv'
  <2>1. /\ client = NoItem /\ client' = i /\ accept_thread' = "own"
        /\ UNCHANGED socket_list
    BY <1>2 DEF Accept, ThreadGoes, IInv, ServerInv
  <2>2. ItemStep(i) /\ ~Constructed(i)
    BY <1>2, ConstructKeeps DEF Accept, IInv, TypeOK
  <2>3. /\ items'[i].set_up = items[i].set_up /\ items'[i].fate = items[i].fate
        /\ items'[i].socket_thread \in {"header", "connect"}
    BY <1>2 DEF Accept, Construct, Becomes, IInv, TypeOK, Item
  <2>4. \A j \in Items \ {i} : SetUpInv(j)'
    <3>1. \A j \in Items \ {i} : items'[j] = items[j]
      BY <2>2 DEF ItemStep
    <3> QED
      BY <2>1, <3>1, NoItemAssumption DEF StartInv, SetUpInv, Constructed, Pending
  <2>5. SetUpInv(i)'
    BY <2>1, <2>2, <2>3 DEF StartInv, SetUpInv, Constructed, IInv, ServerInv
  <2> QED
    BY <2>4, <2>5 DEF StartInv
<1>3. CASE OwnClient \/ SetCallback
  <2>1. /\ client \in Items /\ Constructed(client) /\ UNCHANGED <<client, socket_list>>
        /\ items[client].fate # "terminated"
    BY <1>3 DEF OwnClient, SetCallback, ThreadGoes, IInv, ServerInv, Crashed
  <2>2. ItemStep(client)
    BY <1>3, <2>1, SetUpKeeps DEF OwnClient, SetCallback, IInv, TypeOK
  <2>3. /\ \/ accept_thread' = "callback" /\ items'[client].set_up = "owned"
           \/ accept_thread' = "assign" /\ items'[client].set_up = "assigning"
           \/ accept_thread' = "insert" /\ items'[client].set_up = "set"
        /\ items'[client].fate = items[client].fate
        /\ items'[client].socket_thread = items[client].socket_thread
        /\ Pending(client)' = Pending(client)
    BY <1>3, <2>1 DEF OwnClient, SetCallback, ThreadGoes, TakeOwnership, SetOnErrorCallBack,
       Becomes, IInv, TypeOK, Item, Pending
  <2>4. \A j \in Items \ {client} : SetUpInv(j)'
    <3>1. \A j \in Items \ {client} : items'[j] = items[j]
      BY <2>2 DEF ItemStep
    <3> QED
      BY <2>1, <3>1 DEF StartInv, SetUpInv, Constructed, Pending
  <2>5. \A j \in Items : j = client => SetUpInv(j)'
    BY <2>1, <2>2, <2>3 DEF StartInv, SetUpInv, ItemStep, Constructed
  <2> QED
    BY <2>4, <2>5 DEF StartInv
<1>4. CASE InsertClient
  <2>1. /\ client \in Items /\ client' = NoItem /\ socket_list' = socket_list \cup {client}
        /\ accept_thread = "insert" /\ UNCHANGED items
        /\ items[client].fate # "terminated"
    BY <1>4 DEF InsertClient, ThreadGoes, IInv, ServerInv, Crashed
  <2>2. \A j \in Items : /\ items'[j] = items[j] /\ (Constructed(j)' <=> Constructed(j))
                         /\ (Pending(j)' <=> Pending(j))
    BY <2>1 DEF Constructed, Pending
  <2>3. \A j \in Items \ {client} : SetUpInv(j)'
    BY <2>1, <2>2, NoItemAssumption DEF StartInv, SetUpInv
  <2>4. \A j \in Items : j = client => SetUpInv(j)'
    BY <2>1, <2>2, NoItemAssumption DEF StartInv, SetUpInv
  <2> QED
    BY <2>3, <2>4 DEF StartInv
<1> QED
  BY <1>1, <1>2, <1>3, <1>4 DEF AcceptThread

LEMMA NextKeepsStart ==
    ASSUME IInv, StartInv, [Next]_vars
    PROVE  StartInv'
<1>1. CASE UNCHANGED vars
  BY <1>1 DEF vars, server, stop, StartInv, SetUpInv, Constructed, Pending
<1>2. CASE Next
  BY <1>2, AcceptThreadKeepsStart, UIThreadKeepsStart, ThreadKeepsStart, ClearKeepsStart,
     OnErrorKeepsStart, EraseKeepsStart DEF Next
<1> QED
  BY <1>1, <1>2

\* The set-up of an item and the errors of its threads stay in step, for any
\* number of connections.
THEOREM SetUpInvariance == SafeSpec => []StartInv
<1>1. Init => StartInv
  <2>1. ASSUME Init
        PROVE  \A i \in Items : /\ ~Constructed(i) /\ items[i].set_up = "new"
                               /\ items[i].fate = "normal" /\ client # i
                               /\ items[i].socket_thread = "none"
    BY <2>1, NoItemAssumption DEF Init, ItemInit, Constructed
  <2> QED
    BY <2>1 DEF StartInv, SetUpInv
<1>2. IInv /\ StartInv /\ [Next]_vars => StartInv'
  BY NextKeepsStart
<1> QED
  BY <1>1, <1>2, Invariance, PTL DEF SafeSpec

-----------------------------------------------------------------------------

\* A thread throws only while the accept thread is still setting its item up
\* (client_server.cpp:38-42).
THEOREM CrashIsOfTheSetUp == SafeSpec => []CrashOnlyDuringSetup
<1>1. StartInv => CrashOnlyDuringSetup
  BY DEF StartInv, SetUpInv, CrashOnlyDuringSetup
<1> QED
  BY <1>1, SetUpInvariance, PTL

\* Every error of an item that is set up takes it from the list, also when both
\* of its threads report and StopServer clears it meanwhile (client_server.cpp:47-58).
THEOREM ErrorsAreReaped == SafeSpec => []StrandedOnlyByStartupRace
<1>1. IInv /\ StartInv => StrandedOnlyByStartupRace
  BY DEF IInv, TypeOK, ServerInv, StartInv, SetUpInv, Pending, Constructed,
     StrandedOnlyByStartupRace, Stranded, Ended, Thread, Item, Sides
<1> QED
  BY <1>1, Invariance, SetUpInvariance, PTL

-----------------------------------------------------------------------------
(* What outlives the server (module ServerEnd).                            *)

(* StopServer holds a close_mutex only during the Clear its loop is at.    *)
StopMutex == \A i \in Items : items[i].close_mutex = "stop" => ui = "clear" /\ item = i

(* What is true of the server while it lives, and of the items after it.   *)
Afterwards ==
    /\ items \in [Items -> Item] /\ \A i \in Items : ItemInv(i)
    /\ ui = "off" /\ accept_thread = "none" /\ client = NoItem
    /\ undefined = "no" => \A i \in Items : Dead(i)

EndInv ==
    /\ StopMutex
    /\ lifetime # "over" => IInv
    /\ lifetime = "over" => Afterwards

-----------------------------------------------------------------------------
(* The destructor's own steps.                                             *)

LEMMA SameItems ==
    ASSUME UNCHANGED items
    PROVE  \A i \in Items : /\ ItemInv(i)' <=> ItemInv(i)
                            /\ Dead(i)' <=> Dead(i)
                            /\ Constructed(i)' <=> Constructed(i)
  BY DEF ItemInv, Dead, Ended, IsOpen, Thread, Constructed

LEMMA DestructorKeeps ==
    ASSUME EndInv, Destructor
    PROVE  EndInv'
<1>1. /\ IInv /\ UNCHANGED <<items, acceptor, accept_thread, client, socket_list>>
      /\ UNCHANGED <<todo, item, undefined>>
      /\ ui \in {"off", "on"} /\ ui' = "close" /\ lifetime' = "destructor"
  BY DEF EndInv, Destructor, stop
<1>2. IInv'
  <2>1. TypeOK'
    BY <1>1 DEF IInv, TypeOK
  <2>2. \A i \in Items : (ItemInv(i) /\ Listed(i) /\ Ahead(i))'
    BY <1>1, SameItems DEF IInv, Listed, Ahead
  <2>3. ServerInv'
    BY <1>1, SameItems, NoItemAssumption DEF IInv, TypeOK, ServerInv
  <2> QED
    BY <2>1, <2>2, <2>3 DEF IInv
<1>3. StopMutex'
  BY <1>1 DEF EndInv, StopMutex
<1> QED
  BY <1>1, <1>2, <1>3 DEF EndInv

LEMMA NoThreadKeeps ==
    ASSUME EndInv, StopFindsNoThread
    PROVE  EndInv'
<1>1. /\ IInv /\ UNCHANGED <<items, acceptor, accept_thread, client, socket_list>>
      /\ UNCHANGED <<item, undefined, lifetime>> /\ todo' = socket_list
      /\ ui = "join" /\ ui' = "loop" /\ accept_thread = "none" /\ lifetime # "over"
  BY DEF EndInv, StopFindsNoThread, UIGoes, end
<1>2. IInv'
  <2>1. TypeOK'
    BY <1>1 DEF IInv, TypeOK
  <2>2. \A i \in Items : ItemInv(i)' /\ Listed(i)'
    BY <1>1, SameItems DEF IInv, Listed
  <2>3. \A i \in Items : Ahead(i)'
    BY <1>1, SameItems, NoItemAssumption DEF IInv, ServerInv, Listed, Ahead
  <2>4. ServerInv'
    BY <1>1, SameItems, NoItemAssumption DEF IInv, TypeOK, ServerInv
  <2> QED
    BY <2>1, <2>2, <2>3, <2>4 DEF IInv
<1>3. StopMutex'
  BY <1>1 DEF EndInv, StopMutex
<1> QED
  BY <1>1, <1>2, <1>3 DEF EndInv

LEMMA DestroyedKeeps ==
    ASSUME EndInv, ServerDestroyed
    PROVE  EndInv'
<1>1. /\ IInv /\ UNCHANGED <<items, ui, accept_thread, client, item, undefined>>
      /\ ui = "off" /\ lifetime' = "over"
  BY DEF EndInv, ServerDestroyed, stop
<1>2. Afterwards
  BY <1>1 DEF IInv, TypeOK, ServerInv, Ahead, Afterwards
<1>3. Afterwards'
  BY <1>1, <1>2, SameItems DEF Afterwards
<1>4. StopMutex'
  BY <1>1 DEF EndInv, StopMutex
<1> QED
  BY <1>1, <1>3, <1>4 DEF EndInv

-----------------------------------------------------------------------------
(* Whom close_mutex belongs to, while the server lives.                    *)

MutexFreed(i) == items'[i].close_mutex = "stop" => items[i].close_mutex = "stop"

LEMMA ClearStepsFree ==
    ASSUME NEW i \in Items, NEW c \in Sides \cup {"stop"}, items \in [Items -> Item],
           ItemInv(i), ClearSteps(i, c)
    PROVE  ItemStep(i) /\ MutexFreed(i)
<1>1. CASE ClearJoinSocket(i, c)
  BY <1>1, ClearJoinSocketKeeps DEF MutexFreed
<1>2. CASE ClearJoinWebSocket(i, c)
  <2>1. items'[i].close_mutex = "free"
    BY <1>2 DEF ClearJoinWebSocket, Becomes, Item
  <2> QED
    BY <1>2, <2>1, ClearJoinWebSocketKeeps DEF MutexFreed
<1> QED
  BY <1>1, <1>2 DEF ClearSteps

LEMMA OnErrorClearFree ==
    ASSUME NEW i \in Items, NEW side \in Sides, items \in [Items -> Item],
           ItemInv(i), OnErrorClear(i, side)
    PROVE  ItemStep(i) /\ MutexFreed(i)
<1>1. Constructed(i)
  BY DEF OnErrorClear, ItemInv
<1> QED
  BY <1>1, ClearBeginKeeps DEF OnErrorClear, MutexFreed, Sides

(* A step on an item that does not lock, with StopServer where it was.     *)
LEMMA FreedKeepsMutex ==
    ASSUME StopMutex, NEW i \in Items, ItemStep(i), MutexFreed(i),
           UNCHANGED <<ui, item>>
    PROVE  StopMutex'
  BY DEF StopMutex, ItemStep, MutexFreed

LEMMA AcceptThreadKeepsMutex ==
    ASSUME IInv, StopMutex, AcceptThread
    PROVE  StopMutex'
<1>1. CASE Bind \/ BindFails \/ AcceptFails \/ InsertClient
  BY <1>1 DEF Bind, BindFails, AcceptFails, InsertClient, ThreadGoes, stop, StopMutex
<1>2. ASSUME NEW i \in Items, Accept(i)
      PROVE  StopMutex'
  <2>1. ItemStep(i) /\ UNCHANGED <<ui, item>>
    BY <1>2, ConstructKeeps DEF Accept, ThreadGoes, stop, IInv, TypeOK
  <2>2. MutexFreed(i)
    BY <1>2 DEF Accept, Construct, Becomes, MutexFreed, IInv, TypeOK, Item
  <2> QED
    BY <2>1, <2>2, FreedKeepsMutex
<1>3. CASE OwnClient \/ SetCallback
  <2>1. client \in Items /\ Constructed(client) /\ UNCHANGED <<ui, item>>
    BY <1>3 DEF OwnClient, SetCallback, ThreadGoes, IInv, ServerInv, stop
  <2>2. ItemStep(client) /\ MutexFreed(client)
    BY <1>3, <2>1, SetUpKeeps DEF OwnClient, SetCallback, IInv, TypeOK, MutexFreed
  <2> QED
    BY <2>1, <2>2, FreedKeepsMutex
<1> QED
  BY <1>1, <1>2, <1>3 DEF AcceptThread

LEMMA UIThreadKeepsMutex ==
    ASSUME IInv, StopMutex, UIThread
    PROVE  StopMutex'
<1>1. CASE StopClear
  <2>1. item \in Items /\ Constructed(item) /\ ui = "visit" /\ ui' = "clear" /\ item' = item
    BY <1>1 DEF StopClear, UIGoes, IInv, ServerInv, stop
  <2>2. ItemStep(item)
    BY <1>1, <2>1, ClearBeginKeeps DEF StopClear, IInv, TypeOK
  <2> QED
    BY <2>1, <2>2 DEF StopMutex, ItemStep
<1>2. CASE StopAdvance
  BY <1>2 DEF StopAdvance, UIGoes, StopMutex
<1>3. CASE ~StopClear /\ ~StopAdvance
  BY <1>3 DEF UIThread, StartServer, StopServer, StopCloseAcceptor, StopJoinThread,
     StopVisit, StopStumbles, StopReturns, UIGoes, stop, StopMutex
<1> QED
  BY <1>1, <1>2, <1>3

(* A step of the living server is one of ClientServer.                     *)
LEMMA LivingKeeps ==
    ASSUME EndInv, lifetime # "over", Next, UNCHANGED end
    PROVE  EndInv'
<1>1. IInv /\ StopMutex /\ IInv'
  BY NextKeepsIInv DEF EndInv
<1>2. StopMutex'
  <2>1. CASE AcceptThread
    BY <1>1, <2>1, AcceptThreadKeepsMutex
  <2>2. CASE UIThread
    BY <1>1, <2>2, UIThreadKeepsMutex
  <2>3. ASSUME NEW i \in Items, ItemThread(i), UNCHANGED server
        PROVE  StopMutex'
    BY <1>1, <2>3, ItemThreadKeeps, FreedKeepsMutex
       DEF IInv, TypeOK, ThreadStep, MutexFreed, server, stop
  <2>4. ASSUME NEW i \in Items, NEW c \in Sides \cup {"stop"}, ClearSteps(i, c)
        PROVE  StopMutex'
    BY <1>1, <2>4, ClearStepsFree, FreedKeepsMutex DEF ClearSteps, IInv, TypeOK, server, stop
  <2>5. ASSUME NEW i \in Items, NEW side \in Sides, OnErrorClear(i, side)
        PROVE  StopMutex'
    BY <1>1, <2>5, OnErrorClearFree, FreedKeepsMutex
       DEF OnErrorClear, IInv, TypeOK, server, stop
  <2>6. ASSUME NEW i \in Items, NEW side \in Sides, OnErrorErase(i, side)
        PROVE  StopMutex'
    BY <1>1, <2>6, EraseKeeps, FreedKeepsMutex
       DEF OnErrorErase, IInv, TypeOK, MutexFreed, stop
  <2> QED
    BY <2>1, <2>2, <2>3, <2>4, <2>5, <2>6 DEF Next
<1> QED
  BY <1>1, <1>2 DEF EndInv, end

-----------------------------------------------------------------------------
(* The steps that are left when the server is no more.                     *)

LEMMA LateStep ==
    ASSUME EndInv, lifetime = "over", UNCHANGED <<server, lifetime>>,
           NEW i \in Items, ItemStep(i), Constructed(i), MutexFreed(i)
    PROVE  EndInv'
<1>1. UNCHANGED <<ui, accept_thread, client, item, undefined>>
  BY DEF server, stop
<1>2. StopMutex'
  BY <1>1, FreedKeepsMutex DEF EndInv
<1>3. Afterwards'
  <2>1. \A j \in Items : ItemInv(j)' /\ (Dead(j) => Dead(j)')
    BY StepKeepsItems DEF EndInv, Afterwards
  <2> QED
    BY <1>1, <2>1 DEF EndInv, Afterwards, ItemStep
<1> QED
  BY <1>2, <1>3 DEF EndInv

LEMMA TooLateKeeps ==
    ASSUME EndInv, NEW i \in Items, NEW side \in Sides, OnErrorTooLate(i, side)
    PROVE  EndInv'
<1> DEFINE now == [items[i] EXCEPT !.erasing = @ \ {side}]
<1>1. items[i] \in Item /\ ItemInv(i) /\ items \in [Items -> Item]
  BY DEF OnErrorTooLate, EndInv, Afterwards
<1>2. now \in Item
  BY <1>1 DEF Item
<1>3. /\ items' \in [Items -> Item] /\ items'[i] = now
      /\ \A j \in Items \ {i} : items'[j] = items[j]
  BY <1>1, <1>2, BecomesItem DEF OnErrorTooLate
<1>4. Dead(i) /\ Constructed(i)
  BY <1>1 DEF OnErrorTooLate, ItemInv
<1>5. Dead(i)' /\ Constructed(i)'
  BY <1>1, <1>3, <1>4 DEF Constructed, Dead, Ended, Thread, Item, Sides
<1>6. ItemInv(i)'
  BY <1>1, <1>3, <1>4, <1>5 DEF ItemInv, Constructed, Dead, Ended, IsOpen, Thread,
     Item, Sides
<1>7. ItemStep(i) /\ MutexFreed(i)
  BY <1>1, <1>3, <1>5, <1>6 DEF ItemStep, MutexFreed, Item
<1> QED
  BY <1>4, <1>7, LateStep DEF OnErrorTooLate

LEMMA OutlivingKeeps ==
    ASSUME EndInv, lifetime = "over", UNCHANGED end, NEW i \in Items,
           \/ ItemThread(i) /\ UNCHANGED server
           \/ \E c \in Sides \cup {"stop"} : ClearSteps(i, c)
           \/ \E side \in Sides : OnErrorClear(i, side)
    PROVE  EndInv'
<1>1. items \in [Items -> Item] /\ ItemInv(i) /\ UNCHANGED <<server, lifetime>>
  BY DEF EndInv, Afterwards, ClearSteps, OnErrorClear, end
<1>2. CASE ItemThread(i)
  BY <1>1, <1>2, ItemThreadKeeps, LateStep DEF ThreadStep, MutexFreed
<1>3. ASSUME NEW c \in Sides \cup {"stop"}, ClearSteps(i, c)
      PROVE  EndInv'
  <2>1. Constructed(i)
    BY <1>1, <1>3 DEF ClearSteps, ClearJoinSocket, ClearJoinWebSocket, ItemInv, Sides
  <2> QED
    BY <1>1, <1>3, <2>1, ClearStepsFree, LateStep
<1>4. ASSUME NEW side \in Sides, OnErrorClear(i, side)
      PROVE  EndInv'
  <2>1. Constructed(i)
    BY <1>1, <1>4 DEF OnErrorClear, ItemInv
  <2> QED
    BY <1>1, <1>4, <2>1, OnErrorClearFree, LateStep
<1> QED
  BY <1>2, <1>3, <1>4

LEMMA EndNextKeeps ==
    ASSUME EndInv, [EndNext]_endVars
    PROVE  EndInv'
<1>1. CASE UNCHANGED endVars
  <2>1. CASE lifetime # "over"
    <3>1. IInv /\ UNCHANGED vars /\ UNCHANGED <<lifetime, items, ui, item>>
      BY <1>1, <2>1 DEF EndInv, endVars, vars, server, stop
    <3>2. IInv'
      BY <3>1, NextKeepsIInv
    <3> QED
      BY <2>1, <3>1, <3>2 DEF EndInv, StopMutex
  <2>2. CASE lifetime = "over"
    <3>1. UNCHANGED <<lifetime, items, ui, item, accept_thread, client, undefined>>
      BY <1>1 DEF endVars, vars, server, stop
    <3> QED
      BY <2>2, <3>1, SameItems DEF EndInv, StopMutex, Afterwards
  <2> QED
    BY <2>1, <2>2
<1>2. CASE Destructor \/ StopFindsNoThread \/ ServerDestroyed
  BY <1>2, DestructorKeeps, NoThreadKeeps, DestroyedKeeps
<1>3. ASSUME NEW i \in Items, NEW side \in Sides, OnErrorTooLate(i, side)
      PROVE  EndInv'
  BY <1>3, TooLateKeeps
<1>4. CASE lifetime # "over" /\ Next /\ UNCHANGED end
  BY <1>4, LivingKeeps
<1>5. ASSUME lifetime = "over", UNCHANGED end, NEW i \in Items,
             \/ ItemThread(i) /\ UNCHANGED server
             \/ \E c \in Sides \cup {"stop"} : ClearSteps(i, c)
             \/ \E side \in Sides : OnErrorClear(i, side)
      PROVE  EndInv'
  BY <1>5, OutlivingKeeps
<1> QED
  BY <1>1, <1>2, <1>3, <1>4, <1>5 DEF EndNext, Next

-----------------------------------------------------------------------------

\* Of a server destroyed after a complete stop nothing runs but the OnErrors that
\* its items' threads had started, for any number of connections
\* (client_server.cpp:11, :52-53).
THEOREM OnlyErrorsAreLeft == EndSafeSpec => []OnlyErrorsOutliveTheServer
<1>1. EndInit => EndInv
  BY InitIInv DEF EndInit, EndInv, Init, ItemInit, StopMutex
<1>2. EndInv /\ [EndNext]_endVars => EndInv'
  BY EndNextKeeps
<1>3. EndInv => OnlyErrorsOutliveTheServer
  BY DEF EndInv, StopMutex, Afterwards, OnlyErrorsOutliveTheServer
<1> QED
  BY <1>1, <1>2, <1>3, PTL DEF EndSafeSpec
=============================================================================
