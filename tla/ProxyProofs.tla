------------------------------ MODULE ProxyProofs ------------------------------
(***************************************************************************)
(* Two parts of the proxy that share no state: the bytes of a connection,  *)
(* and the window that starts and stops the client's threads.              *)
(*                                                                         *)
(* The tunnel loses, repeats and reorders no byte, for any header, buffer  *)
(* and capacity (module Tunnel): every step is a step of ByteChannel, in   *)
(* either direction, or none.  What is under way is followed by its place  *)
(* in what was sent: each connection and each chunk holds the bytes        *)
(* between two places, and the next one goes on where it ends.             *)
(*                                                                         *)
(* The window's handlers never end the process, whatever is clicked        *)
(* (module WidgetMain), for any number of io_service threads.  A handler   *)
(* is followed by what it has still to do: the calls ahead are the end of  *)
(* Connect or of Disconnect, and how many they are says what has been      *)
(* started or joined so far.  Between two clicks none are.                 *)
(***************************************************************************)
EXTENDS Tunnel, WidgetMain, SequenceTheorems, TLAPS


\* s holds what f has after place a and up to place b.
Part(f, s, a, b) ==
    /\ s \in Seq(Int) /\ a \in Nat /\ b \in Nat /\ a + Len(s) = b
    /\ \A k \in 1..Len(s) : s[k] = f[a + k]

Message == [zeros : BOOLEAN, cipher : Seq(Int)]

\* The messages of m, decrypted, are such parts, one behind the other.
Cuts(f, m, cut, a, b) ==
    /\ m \in Seq(Message) /\ cut \in [0..Len(m) -> Nat]
    /\ cut[0] = a /\ cut[Len(m)] = b
    /\ \A j, k \in 0..Len(m) : j <= k => cut[j] <= cut[k]
    /\ \A k \in 1..Len(m) : Part(f, AesDecode(m[k]), cut[k - 1], cut[k])

Parts(f, m, a, b) == a \in Nat /\ b \in Nat /\ \E cut : Cuts(f, m, cut, a, b)

-----------------------------------------------------------------------------
(* Parts are joined and divided *)

LEMMA NoPart ==
    ASSUME NEW f, NEW a \in Nat
    PROVE  Part(f, <<>>, a, a)
  BY DEF Part

LEMMA EmptyPart ==
    ASSUME NEW f, NEW a, NEW b, Part(f, <<>>, a, b)
    PROVE  a = b
  BY DEF Part

LEMMA JoinParts ==
    ASSUME NEW f, NEW s, NEW t, NEW a, NEW b, NEW c, Part(f, s, a, b), Part(f, t, b, c)
    PROVE  Part(f, s \o t, a, c)
<1>1. /\ s \in Seq(Int) /\ t \in Seq(Int)
      /\ a \in Nat /\ b \in Nat /\ c \in Nat /\ a + Len(s) = b /\ b + Len(t) = c
  BY DEF Part
<1>2. s \o t \in Seq(Int) /\ Len(s \o t) = Len(s) + Len(t)
  BY <1>1, ConcatProperties
<1>3. ASSUME NEW k \in 1..Len(s \o t)
      PROVE  (s \o t)[k] = f[a + k]
  <2>1. (s \o t)[k] = IF k <= Len(s) THEN s[k] ELSE t[k - Len(s)]
    BY <1>1, <1>2, ConcatProperties
  <2>2. CASE k <= Len(s)
    BY <1>1, <2>1, <2>2 DEF Part
  <2>3. CASE k > Len(s)
    <3>1. k - Len(s) \in 1..Len(t)
      BY <1>1, <1>2, <2>3
    <3>2. t[k - Len(s)] = f[b + (k - Len(s))]
      BY <3>1 DEF Part
    <3>3. b + (k - Len(s)) = a + k /\ ~(k <= Len(s))
      <4>1. Len(s) \in Nat /\ k \in Int /\ a \in Nat /\ b = a + Len(s)
        BY <1>1
      <4> QED
        BY <2>3, <4>1
    <3> QED
      BY <2>1, <3>2, <3>3
  <2> QED
    BY <1>1, <2>2, <2>3
<1> QED
  BY <1>1, <1>2, <1>3 DEF Part

LEMMA DividePart ==
    ASSUME NEW f, NEW s, NEW a, NEW b, Part(f, s, a, b), NEW n \in 0..Len(s)
    PROVE  /\ Part(f, SubSeq(s, 1, n), a, a + n)
           /\ Part(f, SubSeq(s, n + 1, Len(s)), a + n, b)
<1>1. s \in Seq(Int) /\ a \in Nat /\ b \in Nat /\ a + Len(s) = b /\ Len(s) \in Nat
  BY DEF Part
<1>2. /\ SubSeq(s, 1, n) \in Seq(Int) /\ Len(SubSeq(s, 1, n)) = n
      /\ \A k \in 1..n : SubSeq(s, 1, n)[k] = s[k]
  BY <1>1
<1>3. /\ SubSeq(s, n + 1, Len(s)) \in Seq(Int)
      /\ Len(SubSeq(s, n + 1, Len(s))) = Len(s) - n
      /\ \A k \in 1 .. Len(s) - n : SubSeq(s, n + 1, Len(s))[k] = s[n + k]
  BY <1>1
<1>4. Part(f, SubSeq(s, 1, n), a, a + n)
  BY <1>1, <1>2 DEF Part
<1>5. ASSUME NEW k \in 1 .. Len(s) - n
      PROVE  SubSeq(s, n + 1, Len(s))[k] = f[(a + n) + k]
  <2>1. n + k \in 1..Len(s) /\ a + (n + k) = (a + n) + k
    BY <1>1
  <2>2. s[n + k] = f[a + (n + k)]
    BY <2>1 DEF Part
  <2> QED
    BY <1>3, <2>1, <2>2
<1> DEFINE rest == SubSeq(s, n + 1, Len(s))
<1>6. /\ rest \in Seq(Int) /\ Len(rest) = Len(s) - n
      /\ \A k \in 1..Len(rest) : rest[k] = f[(a + n) + k]
  BY <1>3, <1>5
<1> HIDE DEF rest
<1>7. a + n \in Nat /\ (a + n) + Len(rest) = b
  <2>1. n \in Nat /\ Len(rest) = Len(s) - n
    BY <1>1, <1>6
  <2>2. a + n \in Nat
    BY <1>1, <2>1
  <2>3. (a + n) + (Len(s) - n) = b
    BY <1>1, <2>1
  <2> QED
    BY <2>1, <2>2, <2>3
<1>8. Part(f, rest, a + n, b)
  BY <1>1, <1>6, <1>7 DEF Part
<1> QED
  BY <1>4, <1>8 DEF rest

\* One byte more is sent.
LEMMA AppendByte ==
    ASSUME NEW f, NEW s, NEW a, NEW b, Part(f, s, a, b), NEW x \in Int, x = f[b + 1]
    PROVE  Part(f, Append(s, x), a, b + 1)
<1>1. s \in Seq(Int) /\ a \in Nat /\ b \in Nat /\ a + Len(s) = b /\ Len(s) \in Nat
  BY DEF Part
<1>2. /\ Append(s, x) \in Seq(Int) /\ Len(Append(s, x)) = Len(s) + 1
      /\ Append(s, x)[Len(s) + 1] = x /\ \A k \in 1..Len(s) : Append(s, x)[k] = s[k]
  BY <1>1
<1>3. ASSUME NEW k \in 1 .. Len(s) + 1
      PROVE  Append(s, x)[k] = f[a + k]
  <2>1. CASE k = Len(s) + 1
    <3>1. a + k = b + 1
      BY <1>1, <2>1
    <3> QED
      BY <1>2, <2>1, <3>1
  <2>2. CASE k \in 1..Len(s)
    BY <1>2, <2>2 DEF Part
  <2> QED
    BY <1>1, <2>1, <2>2
<1>4. b + 1 \in Nat /\ a + (Len(s) + 1) = b + 1
  BY <1>1
<1> QED
  BY <1>1, <1>2, <1>3, <1>4 DEF Part

\* The two moves of a stream: read_some, and a part of a write.
LEMMA MoveSome ==
    ASSUME NEW f, NEW s, NEW t, NEW a, NEW b, NEW c, Part(f, s, a, b), Part(f, t, b, c),
           NEW n \in 1..Len(t)
    PROVE  \E d : /\ Part(f, s \o SubSeq(t, 1, n), a, d)
                  /\ Part(f, SubSeq(t, n + 1, Len(t)), d, c)
<1>1. n \in 0..Len(t)
  BY DEF Part
<1>2. /\ Part(f, SubSeq(t, 1, n), b, b + n)
      /\ Part(f, SubSeq(t, n + 1, Len(t)), b + n, c)
  BY <1>1, DividePart
<1> QED
  BY <1>2, JoinParts

LEMMA NoParts ==
    ASSUME NEW f, NEW a \in Nat
    PROVE  Parts(f, <<>>, a, a)
<1>1. Cuts(f, <<>>, [k \in {0} |-> a], a, a)
  BY DEF Cuts
<1> QED
  BY <1>1 DEF Parts

LEMMA Decrypted ==
    ASSUME NEW x \in Seq(Int)
    PROVE  AesEncode(x) \in Message /\ AesDecode(AesEncode(x)) = x
  BY DEF Message, AesEncode, AesDecode

LEMMA AppendPart ==
    ASSUME NEW f, NEW m, NEW x, NEW a, NEW b, NEW c, Parts(f, m, a, b), Part(f, x, b, c)
    PROVE  Parts(f, Append(m, AesEncode(x)), a, c)
<1> DEFINE new == Append(m, AesEncode(x))
<1>1. PICK cut : Cuts(f, m, cut, a, b)
  BY DEF Parts
<1>2. /\ m \in Seq(Message) /\ cut \in [0..Len(m) -> Nat] /\ cut[0] = a /\ cut[Len(m)] = b
      /\ a \in Nat /\ c \in Nat /\ x \in Seq(Int) /\ Len(m) \in Nat
  BY <1>1 DEF Cuts, Parts, Part
<1>3. /\ new \in Seq(Message) /\ Len(new) = Len(m) + 1
      /\ new[Len(m) + 1] = AesEncode(x) /\ \A k \in 1..Len(m) : new[k] = m[k]
  BY <1>2, Decrypted
<1> HIDE DEF new
<1> DEFINE longer == [k \in 0..Len(new) |-> IF k <= Len(m) THEN cut[k] ELSE c]
<1>4. /\ longer \in [0..Len(new) -> Nat] /\ longer[0] = a /\ longer[Len(new)] = c
      /\ \A k \in 0..Len(m) : longer[k] = cut[k]
  BY <1>2, <1>3
<1> HIDE DEF longer
<1>5. ASSUME NEW k \in 1..Len(new)
      PROVE  Part(f, AesDecode(new[k]), longer[k - 1], longer[k])
  <2>1. CASE k <= Len(m)
    <3>1. k \in 1..Len(m) /\ k \in 0..Len(m) /\ k - 1 \in 0..Len(m)
      BY <1>2, <1>3, <2>1
    <3> QED
      BY <1>1, <1>3, <1>4, <3>1 DEF Cuts
  <2>2. CASE k = Len(m) + 1
    <3>1. k - 1 = Len(m) /\ Len(m) \in 0..Len(m) /\ k = Len(new)
      BY <1>2, <1>3, <2>2
    <3>2. longer[k - 1] = b /\ longer[k] = c /\ AesDecode(new[k]) = x
      BY <1>2, <1>3, <1>4, <2>2, <3>1, Decrypted
    <3> QED
      BY <3>2
  <2> QED
    BY <1>2, <1>3, <2>1, <2>2
<1>6. ASSUME NEW j \in 0..Len(new), NEW k \in 0..Len(new), j <= k
      PROVE  longer[j] <= longer[k]
  <2>1. b <= c /\ Len(m) \in 0..Len(m)
    BY <1>2 DEF Part
  <2>2. \A h, i \in 0..Len(m) : h <= i => cut[h] <= cut[i]
    BY <1>1 DEF Cuts
  <2>3. ASSUME NEW i \in 0..Len(m)
        PROVE  longer[i] <= b /\ longer[i] \in Nat
    <3>1. cut[i] <= cut[Len(m)]
      BY <1>2, <2>1, <2>2
    <3> QED
      BY <1>2, <1>4, <3>1
  <2>4. CASE k \in 0..Len(m)
    <3>1. j \in 0..Len(m)
      BY <1>2, <1>3, <1>6, <2>4
    <3> QED
      BY <1>4, <1>6, <2>2, <2>4, <3>1
  <2>5. CASE k = Len(new) /\ j \in 0..Len(m)
    BY <1>2, <1>4, <2>1, <2>3, <2>5 DEF Parts
  <2>6. CASE k = Len(new) /\ j = Len(new)
    BY <1>2, <1>4, <2>6
  <2> QED
    BY <1>2, <1>3, <2>4, <2>5, <2>6
<1>7. Cuts(f, new, longer, a, c)
  BY <1>3, <1>4, <1>5, <1>6 DEF Cuts
<1> QED
  BY <1>2, <1>7 DEF Parts, new

LEMMA FirstPart ==
    ASSUME NEW f, NEW m, NEW a, NEW b, Parts(f, m, a, b), m # <<>>
    PROVE  \E c : Part(f, AesDecode(Head(m)), a, c) /\ Parts(f, Tail(m), c, b)
<1>1. PICK cut : Cuts(f, m, cut, a, b)
  BY DEF Parts
<1>2. /\ m \in Seq(Message) /\ cut \in [0..Len(m) -> Nat] /\ cut[0] = a /\ cut[Len(m)] = b
      /\ b \in Nat /\ Len(m) \in Nat /\ Len(m) > 0
  BY <1>1 DEF Cuts, Parts
<1>3. /\ Head(m) = m[1] /\ Tail(m) \in Seq(Message) /\ Len(Tail(m)) = Len(m) - 1
      /\ \A k \in 1 .. Len(m) - 1 : Tail(m)[k] = m[k + 1]
  BY <1>2, HeadTailProperties
<1> DEFINE shorter == [k \in 0..Len(Tail(m)) |-> cut[k + 1]]
<1>4. Part(f, AesDecode(Head(m)), a, cut[1])
  <2>1. Part(f, AesDecode(m[1]), cut[1 - 1], cut[1])
    BY <1>1, <1>2 DEF Cuts
  <2> QED
    BY <1>2, <1>3, <2>1
<1>5. /\ shorter \in [0..Len(Tail(m)) -> Nat] /\ shorter[0] = cut[1]
      /\ shorter[Len(Tail(m))] = b /\ cut[1] \in Nat
      /\ \A k \in 0 .. Len(m) - 1 : shorter[k] = cut[k + 1]
  BY <1>2, <1>3
<1> HIDE DEF shorter
<1>6. ASSUME NEW k \in 1..Len(Tail(m))
      PROVE  Part(f, AesDecode(Tail(m)[k]), shorter[k - 1], shorter[k])
  <2>1. /\ k + 1 \in 1..Len(m) /\ (k + 1) - 1 = k /\ (k - 1) + 1 = k
        /\ k - 1 \in 0 .. Len(m) - 1 /\ k \in 0 .. Len(m) - 1 /\ k \in 1 .. Len(m) - 1
    BY <1>2, <1>3
  <2>2. Part(f, AesDecode(m[k + 1]), cut[k], cut[k + 1])
    BY <1>1, <2>1 DEF Cuts
  <2>3. shorter[k - 1] = cut[k] /\ shorter[k] = cut[k + 1]
    BY <1>5, <2>1
  <2> QED
    BY <1>3, <2>1, <2>2, <2>3
<1>7. \A j, k \in 0..Len(Tail(m)) : j <= k => shorter[j] <= shorter[k]
  BY <1>1, <1>2, <1>3, <1>5 DEF Cuts
<1>8. Cuts(f, Tail(m), shorter, cut[1], b)
  BY <1>3, <1>5, <1>6, <1>7 DEF Cuts
<1> QED
  BY <1>2, <1>4, <1>5, <1>8 DEF Parts

LEMMA PartsGrow ==
    ASSUME NEW f, NEW m, NEW a, NEW b, Parts(f, m, a, b)
    PROVE  a <= b
<1>1. PICK cut : Cuts(f, m, cut, a, b)
  BY DEF Parts
<1>2. 0 \in 0..Len(m) /\ Len(m) \in 0..Len(m) /\ 0 <= Len(m)
  BY <1>1 DEF Cuts
<1> QED
  BY <1>1, <1>2 DEF Cuts

-----------------------------------------------------------------------------
(* The invariant.  Upwards byte n is at place n; downwards the reply, if    *)
(* there is one, is at place 1 and the target's bytes follow.              *)

Offset == IF cmd = "CONNECT" THEN 1 ELSE 0

UpBytes == [n \in Nat |-> n]
DownBytes == [n \in Nat |-> Offset - n]

Ungreeted == server_up \in {"first", "connect", "greet"}

Types ==
    /\ cmd \in {"CONNECT", "GET"} /\ sent \in 0..Sends /\ answered \in 0..Answers
    /\ client_up \in {"header", "first", "relay"}
    /\ server_up \in {"first", "connect", "greet", "spawn", "relay"}

\* The server has the bytes up to place c.
ServerSide(c) ==
    IF Ungreeted
    THEN /\ target_got = <<>> /\ to_target = <<>> /\ server_chunk = <<>>
         /\ Part(UpBytes, server_readed, 0, c)
         /\ server_up # "first" => c >= Header
    ELSE /\ server_readed = <<>>
         /\ \E a, b : /\ Part(UpBytes, target_got, Skip, a)
                      /\ Part(UpBytes, to_target, a, b)
                      /\ Part(UpBytes, server_chunk, b, c)

\* The client has those behind place d up to place e.
ClientSide(d, e) ==
    IF client_up = "relay"
    THEN client_readed = <<>> /\ Part(UpBytes, client_chunk, d, e)
    ELSE client_chunk = <<>> /\ Part(UpBytes, client_readed, d, e)

\* The browser sends no more than its header until it has the reply, so the server
\* has nothing more when it drops what came with the header.
UpInv ==
    /\ \E c, d, e : /\ ServerSide(c) /\ Parts(UpBytes, to_server, c, d)
                    /\ ClientSide(d, e) /\ Part(UpBytes, to_client, e, sent)
    /\ cmd = "CONNECT" /\ Ungreeted => sent <= Header

DownInv ==
    IF Ungreeted
    THEN /\ browser_got = <<>> /\ to_browser = <<>> /\ client_down_chunk = <<>>
         /\ from_server = <<>> /\ server_down_chunk = <<>>
         /\ Part(DownBytes, from_target, Offset, Offset + answered)
         /\ server_up # "greet" => answered = 0
    ELSE \E a, b, c, d, e :
            /\ Part(DownBytes, browser_got, 0, a) /\ Part(DownBytes, to_browser, a, b)
            /\ Part(DownBytes, client_down_chunk, b, c)
            /\ Parts(DownBytes, from_server, c, d)
            /\ Part(DownBytes, server_down_chunk, d, e)
            /\ Part(DownBytes, from_target, e, Offset + answered)

TunnelInv == Types /\ UpInv /\ DownInv

LEMMA Sizes == Header \in Nat /\ Header > 0 /\ Sends \in Nat /\ Answers \in Nat
  BY BoundsAssumption

LEMMA InitTunnelInv == Init => TunnelInv
<1> SUFFICES ASSUME Init
             PROVE  TunnelInv
  OBVIOUS
<1>1. Types
  BY Sizes DEF Init, Types
<1>2. ServerSide(0) /\ ClientSide(0, 0)
  BY NoPart DEF Init, ServerSide, ClientSide, Ungreeted
<1>3. Parts(UpBytes, to_server, 0, 0) /\ Part(UpBytes, to_client, 0, sent)
  BY NoPart, NoParts DEF Init
<1>4. UpInv
  BY <1>2, <1>3, Sizes DEF UpInv, Init
<1>5. Offset \in Nat /\ Offset + answered = Offset
  BY DEF Offset, Init
<1>6. DownInv
  BY <1>5, NoPart DEF DownInv, Init, Ungreeted
<1> QED
  BY <1>1, <1>4, <1>6 DEF TunnelInv

-----------------------------------------------------------------------------
(* Upwards *)

LEMMA SameServer ==
    ASSUME UNCHANGED <<cmd, target_got, to_target, server>>, NEW c
    PROVE  ServerSide(c)' <=> ServerSide(c)
  BY DEF ServerSide, Ungreeted, Skip, server

LEMMA SameClient ==
    ASSUME UNCHANGED client, NEW d, NEW e
    PROVE  ClientSide(d, e)' <=> ClientSide(d, e)
  BY DEF ClientSide, client

LEMMA BrowserSendUp ==
    ASSUME TunnelInv, BrowserSend
    PROVE  UpInv'
<1>1. PICK c, d, e : /\ ServerSide(c) /\ Parts(UpBytes, to_server, c, d)
                     /\ ClientSide(d, e) /\ Part(UpBytes, to_client, e, sent)
  BY DEF TunnelInv, UpInv
<1>2. /\ sent' = sent + 1 /\ to_client' = Append(to_client, sent + 1) /\ sent \in Nat
      /\ UNCHANGED <<cmd, target_got, to_target, server, client, to_server>>
  BY DEF BrowserSend, TunnelInv, Types
<1>3. Part(UpBytes, to_client', e, sent')
  BY <1>1, <1>2, AppendByte DEF UpBytes
<1>4. ServerSide(c)' /\ ClientSide(d, e)'
  BY <1>1, <1>2, SameServer, SameClient
<1>5. cmd = "CONNECT" /\ Ungreeted => sent' <= Header
  BY <1>2, Sizes DEF TunnelInv, DownInv, BrowserSend
<1> QED
  BY <1>1, <1>2, <1>3, <1>4, <1>5 DEF UpInv, Ungreeted, server

\* The steps of the client: what it has and what comes stay in order.
LEMMA ClientKeepsUp ==
    ASSUME TunnelInv, NEW c, NEW d, NEW e, ServerSide(c),
           Parts(UpBytes, to_server', c, d), ClientSide(d, e)',
           Part(UpBytes, to_client', e, sent),
           UNCHANGED <<sent, cmd, target_got, to_target, server>>
    PROVE  UpInv'
<1>1. ServerSide(c)'
  BY SameServer
<1> QED
  BY <1>1 DEF UpInv, TunnelInv, Ungreeted, server

LEMMA ClientUp ==
    ASSUME TunnelInv, ClientSocketThread
    PROVE  UpInv'
<1>1. PICK c, d, e : /\ ServerSide(c) /\ Parts(UpBytes, to_server, c, d)
                     /\ ClientSide(d, e) /\ Part(UpBytes, to_client, e, sent)
  BY DEF TunnelInv, UpInv
<1>2. UNCHANGED <<sent, cmd, target_got, to_target, server>>
  BY DEF ClientSocketThread, ClientReadHeader, ClientWriteFirst, ClientReadSocket,
     ClientWebSocketWrite, ends
<1>3. CASE ClientReadHeader
  <2>1. PICK n \in 1..Len(to_client) :
          /\ client_readed' = client_readed \o SubSeq(to_client, 1, n)
          /\ to_client' = SubSeq(to_client, n + 1, Len(to_client))
    BY <1>3 DEF ClientReadHeader, ReadSome
  <2>2. client_chunk = <<>> /\ Part(UpBytes, client_readed, d, e)
    BY <1>1, <1>3 DEF ClientReadHeader, ClientSide
  <2>3. PICK g : Part(UpBytes, client_readed', d, g) /\ Part(UpBytes, to_client', g, sent)
    BY <1>1, <2>1, <2>2, MoveSome
  <2>4. ClientSide(d, g)' /\ UNCHANGED to_server
    BY <1>3, <2>2, <2>3 DEF ClientReadHeader, ClientSide
  <2> QED
    BY <1>1, <1>2, <2>3, <2>4, ClientKeepsUp
<1>4. CASE ClientWriteFirst
  <2>1. /\ to_server' = Append(to_server, AesEncode(client_readed)) /\ client_readed' = <<>>
        /\ client_up' = "relay" /\ UNCHANGED <<to_client, client_chunk>>
    BY <1>4 DEF ClientWriteFirst, WriteMessage
  <2>2. client_chunk = <<>> /\ Part(UpBytes, client_readed, d, e)
    BY <1>1, <1>4 DEF ClientWriteFirst, ClientSide
  <2>3. Parts(UpBytes, to_server', c, e)
    BY <1>1, <2>1, <2>2, AppendPart
  <2>4. ClientSide(e, e)'
    BY <2>1, <2>2, NoPart DEF ClientSide, Part
  <2> QED
    BY <1>1, <1>2, <2>1, <2>3, <2>4, ClientKeepsUp
<1>5. CASE ClientReadSocket
  <2>1. PICK n \in 1..Len(to_client) :
          /\ client_chunk' = client_chunk \o SubSeq(to_client, 1, n)
          /\ to_client' = SubSeq(to_client, n + 1, Len(to_client))
    BY <1>5 DEF ClientReadSocket, ReadSome
  <2>2. client_readed = <<>> /\ Part(UpBytes, client_chunk, d, e)
    BY <1>1, <1>5 DEF ClientReadSocket, ClientSide
  <2>3. PICK g : Part(UpBytes, client_chunk', d, g) /\ Part(UpBytes, to_client', g, sent)
    BY <1>1, <2>1, <2>2, MoveSome
  <2>4. ClientSide(d, g)' /\ UNCHANGED to_server
    BY <1>5, <2>2, <2>3 DEF ClientReadSocket, ClientSide
  <2> QED
    BY <1>1, <1>2, <2>3, <2>4, ClientKeepsUp
<1>6. CASE ClientWebSocketWrite
  <2>1. /\ to_server' = Append(to_server, AesEncode(client_chunk)) /\ client_chunk' = <<>>
        /\ client_chunk # <<>> /\ UNCHANGED <<to_client, client_up, client_readed>>
    BY <1>6 DEF ClientWebSocketWrite, WriteMessage
  <2>2. /\ client_up = "relay" /\ client_readed = <<>>
        /\ Part(UpBytes, client_chunk, d, e)
    BY <1>1, <2>1 DEF ClientSide
  <2>3. Parts(UpBytes, to_server', c, e)
    BY <1>1, <2>1, <2>2, AppendPart
  <2>4. ClientSide(e, e)'
    BY <2>1, <2>2, NoPart DEF ClientSide, Part
  <2> QED
    BY <1>1, <1>2, <2>1, <2>3, <2>4, ClientKeepsUp
<1> QED
  BY <1>3, <1>4, <1>5, <1>6 DEF ClientSocketThread

\* The steps of the server's websocket thread and of the target.
LEMMA ServerKeepsUp ==
    ASSUME TunnelInv, NEW c, NEW d, NEW e, ServerSide(c)',
           Parts(UpBytes, to_server', c, d), ClientSide(d, e),
           Part(UpBytes, to_client, e, sent),
           UNCHANGED <<sent, cmd, to_client, client>>, ~Ungreeted => ~Ungreeted'
    PROVE  UpInv'
<1>1. ClientSide(d, e)'
  BY SameClient
<1> QED
  BY <1>1 DEF UpInv, TunnelInv

LEMMA TargetReadUp ==
    ASSUME TunnelInv, TargetRead
    PROVE  UpInv'
<1>1. PICK c, d, e : /\ ServerSide(c) /\ Parts(UpBytes, to_server, c, d)
                     /\ ClientSide(d, e) /\ Part(UpBytes, to_client, e, sent)
  BY DEF TunnelInv, UpInv
<1>2. /\ UNCHANGED <<sent, cmd, to_client, client, server, to_server>>
      /\ Ungreeted' <=> Ungreeted
  BY DEF TargetRead, server, Ungreeted
<1>3. PICK n \in 1..Len(to_target) :
        /\ target_got' = target_got \o SubSeq(to_target, 1, n)
        /\ to_target' = SubSeq(to_target, n + 1, Len(to_target))
  BY DEF TargetRead, ReadSome
<1>4. to_target # <<>>
  BY <1>3
<1>5. PICK a, b : /\ Part(UpBytes, target_got, Skip, a) /\ Part(UpBytes, to_target, a, b)
                  /\ Part(UpBytes, server_chunk, b, c)
  BY <1>1, <1>4 DEF ServerSide
<1>6. PICK g : Part(UpBytes, target_got', Skip, g) /\ Part(UpBytes, to_target', g, b)
  BY <1>3, <1>5, MoveSome
<1>7. ServerSide(c)'
  BY <1>1, <1>2, <1>4, <1>5, <1>6 DEF ServerSide, Skip, server
<1> QED
  BY <1>1, <1>2, <1>7, ServerKeepsUp

LEMMA ServerUp ==
    ASSUME TunnelInv, ServerWebSocketThread
    PROVE  UpInv'
<1>1. PICK c, d, e : /\ ServerSide(c) /\ Parts(UpBytes, to_server, c, d)
                     /\ ClientSide(d, e) /\ Part(UpBytes, to_client, e, sent)
  BY DEF TunnelInv, UpInv
<1>2. /\ UNCHANGED <<sent, cmd, to_client, client, target_got>>
      /\ Skip' = Skip
  BY DEF ServerWebSocketThread, ServerReadFirst, ServerConnect, ServerGreet, ServerSpawn,
     ServerReadWebSocket, ServerForward, ends, Skip
<1>3. CASE ServerReadFirst
  <2>1. /\ server_up = "first" /\ to_server # <<>>
        /\ server_readed' = server_readed \o AesDecode(Head(to_server))
        /\ to_server' = Tail(to_server)
        /\ server_up' = IF Len(server_readed') >= Header THEN "connect" ELSE "first"
        /\ UNCHANGED <<to_target, server_chunk>>
    BY <1>3 DEF ServerReadFirst, ReadMessage
  <2>2. PICK g : Part(UpBytes, AesDecode(Head(to_server)), c, g) /\ Parts(UpBytes, to_server', g, d)
    BY <1>1, <2>1, FirstPart
  <2>3. /\ target_got = <<>> /\ to_target = <<>> /\ server_chunk = <<>>
        /\ Part(UpBytes, server_readed, 0, c)
    BY <1>1, <2>1 DEF ServerSide, Ungreeted
  <2>4. Part(UpBytes, server_readed', 0, g)
    BY <2>1, <2>2, <2>3, JoinParts
  <2>5. g = Len(server_readed')
    BY <2>4 DEF Part
  <2>6. ServerSide(g)'
    BY <1>2, <2>1, <2>3, <2>4, <2>5 DEF ServerSide, Ungreeted
  <2>7. Ungreeted
    BY <2>1 DEF Ungreeted
  <2> QED
    BY <1>1, <1>2, <2>2, <2>6, <2>7, ServerKeepsUp
<1>4. CASE ServerConnect
  <2>1. /\ server_up = "connect" /\ server_up' = "greet"
        /\ UNCHANGED <<to_target, to_server, server_readed, server_chunk>>
    BY <1>4 DEF ServerConnect
  <2>2. ServerSide(c)' /\ Ungreeted
    BY <1>1, <1>2, <2>1 DEF ServerSide, Ungreeted
  <2> QED
    BY <1>1, <1>2, <2>1, <2>2, ServerKeepsUp
<1>5. CASE ServerGreet
  <2>1. /\ server_up = "greet" /\ server_up' = "spawn" /\ server_readed' = <<>>
        /\ IF cmd = "CONNECT" THEN UNCHANGED server_chunk ELSE server_chunk' = server_readed
        /\ UNCHANGED <<to_target, to_server>>
    BY <1>5 DEF ServerGreet
  <2>2. /\ target_got = <<>> /\ to_target = <<>> /\ server_chunk = <<>>
        /\ Part(UpBytes, server_readed, 0, c) /\ c >= Header /\ Ungreeted
    BY <1>1, <2>1 DEF ServerSide, Ungreeted
  <2>3. cmd = "CONNECT" => c = Header
    <3>1. c <= d /\ c \in Nat /\ d \in Nat
      BY <1>1, PartsGrow DEF Parts
    <3>2. d <= e /\ e <= sent /\ e \in Nat /\ sent \in Nat
      BY <1>1 DEF ClientSide, Part
    <3>3. cmd = "CONNECT" => sent <= Header
      BY <2>2 DEF TunnelInv, UpInv
    <3> QED
      BY <2>2, <3>1, <3>2, <3>3, Sizes
  <2>4. Skip \in Nat /\ Part(UpBytes, server_chunk', Skip, c)
    <3>1. CASE cmd = "CONNECT"
      BY <2>1, <2>2, <2>3, <3>1, NoPart, Sizes DEF Skip
    <3>2. CASE cmd # "CONNECT"
      BY <2>1, <2>2, <3>2 DEF Skip
    <3> QED
      BY <3>1, <3>2
  <2>5. Part(UpBytes, target_got', Skip, Skip) /\ Part(UpBytes, to_target', Skip, Skip)
    BY <1>2, <2>1, <2>2, <2>4, NoPart
  <2>6. ServerSide(c)'
    BY <1>2, <2>1, <2>4, <2>5 DEF ServerSide, Ungreeted
  <2> QED
    BY <1>1, <1>2, <2>1, <2>2, <2>6, ServerKeepsUp
<1>6. CASE ServerSpawn
  <2>1. /\ server_up = "spawn" /\ server_up' = "relay"
        /\ UNCHANGED <<to_target, to_server, server_readed, server_chunk>>
    BY <1>6 DEF ServerSpawn
  <2>2. ServerSide(c)' /\ ~Ungreeted'
    BY <1>1, <1>2, <2>1 DEF ServerSide, Ungreeted
  <2> QED
    BY <1>1, <1>2, <2>1, <2>2, ServerKeepsUp
<1>7. CASE ServerReadWebSocket
  <2>1. /\ server_up = "relay" /\ server_chunk = <<>> /\ to_server # <<>>
        /\ server_chunk' = server_chunk \o AesDecode(Head(to_server))
        /\ to_server' = Tail(to_server)
        /\ UNCHANGED <<to_target, server_up, server_readed>>
    BY <1>7 DEF ServerReadWebSocket, ReadMessage
  <2>2. PICK g : Part(UpBytes, AesDecode(Head(to_server)), c, g) /\ Parts(UpBytes, to_server', g, d)
    BY <1>1, <2>1, FirstPart
  <2>3. ~Ungreeted /\ ~Ungreeted'
    BY <2>1 DEF Ungreeted
  <2>4. PICK a, b : /\ Part(UpBytes, target_got, Skip, a) /\ Part(UpBytes, to_target, a, b)
                    /\ Part(UpBytes, server_chunk, b, c) /\ server_readed = <<>>
    BY <1>1, <2>3 DEF ServerSide
  <2>5. Part(UpBytes, server_chunk', b, g)
    BY <2>1, <2>2, <2>4, JoinParts
  <2>6. ServerSide(g)'
    BY <1>2, <2>1, <2>3, <2>4, <2>5 DEF ServerSide
  <2> QED
    BY <1>1, <1>2, <2>2, <2>3, <2>6, ServerKeepsUp
<1>8. CASE ServerForward
  <2>1. PICK n \in 1..Len(server_chunk) :
          /\ to_target' = to_target \o SubSeq(server_chunk, 1, n)
          /\ server_chunk' = SubSeq(server_chunk, n + 1, Len(server_chunk))
    BY <1>8 DEF ServerForward, WriteSome
  <2>2. server_chunk # <<>> /\ UNCHANGED <<to_server, server_up, server_readed>>
    BY <1>8, <2>1 DEF ServerForward
  <2>3. ~Ungreeted /\ ~Ungreeted'
    BY <1>1, <2>2 DEF ServerSide, Ungreeted
  <2>4. PICK a, b : /\ Part(UpBytes, target_got, Skip, a) /\ Part(UpBytes, to_target, a, b)
                    /\ Part(UpBytes, server_chunk, b, c) /\ server_readed = <<>>
    BY <1>1, <2>3 DEF ServerSide
  <2>5. PICK g : Part(UpBytes, to_target', a, g) /\ Part(UpBytes, server_chunk', g, c)
    BY <2>1, <2>4, MoveSome
  <2>6. ServerSide(c)'
    BY <1>2, <2>2, <2>3, <2>4, <2>5 DEF ServerSide
  <2> QED
    BY <1>1, <1>2, <2>2, <2>3, <2>6, ServerKeepsUp
<1> QED
  BY <1>3, <1>4, <1>5, <1>6, <1>7, <1>8 DEF ServerWebSocketThread

-----------------------------------------------------------------------------
(* Downwards *)

LEMMA SameDown ==
    ASSUME TunnelInv, UNCHANGED <<cmd, answered, browser_got, down>>,
           UNCHANGED server_up \/ (server_up = "spawn" /\ server_up' = "relay")
                               \/ (server_up = "first" /\ server_up' = "connect")
                               \/ (server_up = "connect" /\ server_up' = "greet")
    PROVE  DownInv'
  BY DEF TunnelInv, DownInv, Ungreeted, Offset, DownBytes, down

\* Everything that is under way downwards, once the request is answered.
Flow(a, b, c, d, e) ==
    /\ Part(DownBytes, browser_got, 0, a) /\ Part(DownBytes, to_browser, a, b)
    /\ Part(DownBytes, client_down_chunk, b, c)
    /\ Parts(DownBytes, from_server, c, d)
    /\ Part(DownBytes, server_down_chunk, d, e)
    /\ Part(DownBytes, from_target, e, Offset + answered)

LEMMA InFlow ==
    ASSUME TunnelInv,
           ~Ungreeted \/ to_browser # <<>> \/ client_down_chunk # <<>>
                      \/ from_server # <<>> \/ server_down_chunk # <<>>
    PROVE  ~Ungreeted /\ \E a, b, c, d, e : Flow(a, b, c, d, e)
  BY DEF TunnelInv, DownInv, Flow

LEMMA FlowOn ==
    ASSUME ~Ungreeted, UNCHANGED server_up,
           \E a, b, c, d, e : Flow(a, b, c, d, e)'
    PROVE  DownInv'
  BY DEF DownInv, Flow, Ungreeted

LEMMA TargetSendDown ==
    ASSUME TunnelInv, TargetSend
    PROVE  DownInv'
<1>1. /\ answered' = answered + 1 /\ from_target' = Append(from_target, -(answered + 1))
      /\ server_up \notin {"first", "connect"} /\ answered \in Nat
      /\ UNCHANGED <<cmd, browser_got, from_server, to_browser, server_down_chunk,
                     client_down_chunk, server_up>>
  BY DEF TargetSend, TunnelInv, Types, up, server
<1>2. Offset' = Offset /\ DownBytes' = DownBytes /\ Offset \in Nat
  BY <1>1 DEF Offset, DownBytes
<1>3. /\ DownBytes[(Offset + answered) + 1] = -(answered + 1)
      /\ Offset' + answered' = (Offset + answered) + 1
  BY <1>1, <1>2 DEF DownBytes
<1>4. ASSUME NEW e, Part(DownBytes, from_target, e, Offset + answered)
      PROVE  Part(DownBytes', from_target', e, Offset' + answered')
  BY <1>1, <1>2, <1>3, <1>4, AppendByte
<1>5. CASE Ungreeted
  <2>1. /\ browser_got = <<>> /\ to_browser = <<>> /\ client_down_chunk = <<>>
        /\ from_server = <<>> /\ server_down_chunk = <<>> /\ server_up = "greet"
        /\ Part(DownBytes, from_target, Offset, Offset + answered)
    BY <1>1, <1>5 DEF TunnelInv, DownInv, Ungreeted
  <2>2. Part(DownBytes', from_target', Offset', Offset' + answered')
    BY <1>2, <1>4, <2>1
  <2> QED
    BY <1>1, <2>1, <2>2 DEF DownInv, Ungreeted
<1>6. CASE ~Ungreeted
  <2>1. PICK a, b, c, d, e : Flow(a, b, c, d, e)
    BY <1>6, InFlow
  <2>2. Flow(a, b, c, d, e)'
    BY <1>1, <1>2, <1>4, <2>1 DEF Flow
  <2> QED
    BY <1>1, <1>6, <2>2, FlowOn
<1> QED
  BY <1>5, <1>6

LEMMA BrowserReadDown ==
    ASSUME TunnelInv, BrowserRead
    PROVE  DownInv'
<1>1. PICK n \in 1..Len(to_browser) :
        /\ browser_got' = browser_got \o SubSeq(to_browser, 1, n)
        /\ to_browser' = SubSeq(to_browser, n + 1, Len(to_browser))
  BY DEF BrowserRead, ReadSome
<1>2. /\ to_browser # <<>>
      /\ UNCHANGED <<cmd, answered, server_up, from_target, from_server,
                     server_down_chunk, client_down_chunk>>
  BY <1>1 DEF BrowserRead, up, server
<1>3. Offset' = Offset /\ DownBytes' = DownBytes
  BY <1>2 DEF Offset, DownBytes
<1>4. PICK a, b, c, d, e : Flow(a, b, c, d, e) /\ ~Ungreeted
  BY <1>2, InFlow
<1>5. PICK g : Part(DownBytes, browser_got', 0, g) /\ Part(DownBytes, to_browser', g, b)
  BY <1>1, <1>4, MoveSome DEF Flow
<1>6. Flow(g, b, c, d, e)'
  BY <1>2, <1>3, <1>4, <1>5 DEF Flow
<1> QED
  BY <1>2, <1>4, <1>6, FlowOn

LEMMA ClientDown ==
    ASSUME TunnelInv, ClientWebSocketThread
    PROVE  DownInv'
<1>1. UNCHANGED <<cmd, answered, browser_got, server_up, from_target, server_down_chunk>>
  BY DEF ClientWebSocketThread, ClientReadWebSocket, ClientSocketWrite, ends, up, server
<1>2. Offset' = Offset /\ DownBytes' = DownBytes
  BY <1>1 DEF Offset, DownBytes
<1>3. CASE ClientReadWebSocket
  <2>1. /\ client_down_chunk = <<>> /\ from_server # <<>> /\ UNCHANGED to_browser
        /\ client_down_chunk' = client_down_chunk \o AesDecode(Head(from_server))
        /\ from_server' = Tail(from_server)
    BY <1>3 DEF ClientReadWebSocket, ReadMessage
  <2>2. PICK a, b, c, d, e : Flow(a, b, c, d, e) /\ ~Ungreeted
    BY <2>1, InFlow
  <2>3. PICK g : /\ Part(DownBytes, AesDecode(Head(from_server)), c, g)
                 /\ Parts(DownBytes, from_server', g, d)
    BY <2>1, <2>2, FirstPart DEF Flow
  <2>4. Part(DownBytes, client_down_chunk', b, g)
    BY <2>1, <2>2, <2>3, JoinParts DEF Flow
  <2>5. Flow(a, b, g, d, e)'
    BY <1>1, <1>2, <2>1, <2>2, <2>3, <2>4 DEF Flow
  <2> QED
    BY <1>1, <2>2, <2>5, FlowOn
<1>4. CASE ClientSocketWrite
  <2>1. PICK n \in 1..Len(client_down_chunk) :
          /\ to_browser' = to_browser \o SubSeq(client_down_chunk, 1, n)
          /\ client_down_chunk' = SubSeq(client_down_chunk, n + 1, Len(client_down_chunk))
    BY <1>4 DEF ClientSocketWrite, WriteSome
  <2>2. client_down_chunk # <<>> /\ UNCHANGED from_server
    BY <1>4, <2>1 DEF ClientSocketWrite
  <2>3. PICK a, b, c, d, e : Flow(a, b, c, d, e) /\ ~Ungreeted
    BY <2>2, InFlow
  <2>4. PICK g : Part(DownBytes, to_browser', a, g) /\ Part(DownBytes, client_down_chunk', g, c)
    BY <2>1, <2>3, MoveSome DEF Flow
  <2>5. Flow(a, g, c, d, e)'
    BY <1>1, <1>2, <2>2, <2>3, <2>4 DEF Flow
  <2> QED
    BY <1>1, <2>3, <2>5, FlowOn
<1> QED
  BY <1>3, <1>4 DEF ClientWebSocketThread

LEMMA ServerSocketDown ==
    ASSUME TunnelInv, ServerSocketThread
    PROVE  DownInv'
<1>1. UNCHANGED <<cmd, answered, browser_got, server_up, to_browser, client_down_chunk>>
  BY DEF ServerSocketThread, ServerReadSocket, ServerWebSocketWrite, ends, up, server
<1>2. Offset' = Offset /\ DownBytes' = DownBytes
  BY <1>1 DEF Offset, DownBytes
<1>3. CASE ServerReadSocket
  <2>1. PICK n \in 1..Len(from_target) :
          /\ server_down_chunk' = server_down_chunk \o SubSeq(from_target, 1, n)
          /\ from_target' = SubSeq(from_target, n + 1, Len(from_target))
    BY <1>3 DEF ServerReadSocket, ReadSome
  <2>2. server_up = "relay" /\ UNCHANGED from_server
    BY <1>3 DEF ServerReadSocket
  <2>3. PICK a, b, c, d, e : Flow(a, b, c, d, e) /\ ~Ungreeted
    BY <2>2, InFlow DEF Ungreeted
  <2>4. PICK g : /\ Part(DownBytes, server_down_chunk', d, g)
                 /\ Part(DownBytes, from_target', g, Offset + answered)
    BY <2>1, <2>3, MoveSome DEF Flow
  <2>5. Flow(a, b, c, d, g)'
    BY <1>1, <1>2, <2>2, <2>3, <2>4 DEF Flow
  <2> QED
    BY <1>1, <2>3, <2>5, FlowOn
<1>4. CASE ServerWebSocketWrite
  <2>1. /\ from_server' = Append(from_server, AesEncode(server_down_chunk))
        /\ server_down_chunk # <<>> /\ server_down_chunk' = <<>> /\ UNCHANGED from_target
    BY <1>4 DEF ServerWebSocketWrite, WriteMessage
  <2>2. PICK a, b, c, d, e : Flow(a, b, c, d, e) /\ ~Ungreeted
    BY <2>1, InFlow
  <2>3. Parts(DownBytes, from_server', c, e)
    BY <2>1, <2>2, AppendPart DEF Flow
  <2>4. Part(DownBytes, server_down_chunk', e, e)
    BY <2>1, <2>2, NoPart DEF Flow, Part
  <2>5. Flow(a, b, c, e, e)'
    BY <1>1, <1>2, <2>1, <2>2, <2>3, <2>4 DEF Flow
  <2> QED
    BY <1>1, <2>2, <2>5, FlowOn
<1> QED
  BY <1>3, <1>4 DEF ServerSocketThread

\* The reply comes before anything of the target, which nobody has read yet.
LEMMA ServerGreetDown ==
    ASSUME TunnelInv, ServerGreet
    PROVE  DownInv'
<1>1. /\ server_up = "greet" /\ server_up' = "spawn"
      /\ IF cmd = "CONNECT" THEN from_server' = Append(from_server, AesEncode(Reply))
         ELSE UNCHANGED from_server
      /\ UNCHANGED <<cmd, answered, browser_got, from_target, to_browser,
                     server_down_chunk, client_down_chunk>>
  BY DEF ServerGreet, ends
<1>2. /\ browser_got = <<>> /\ to_browser = <<>> /\ client_down_chunk = <<>>
      /\ from_server = <<>> /\ server_down_chunk = <<>>
      /\ Part(DownBytes, from_target, Offset, Offset + answered)
  BY <1>1 DEF TunnelInv, DownInv, Ungreeted
<1>3. Offset' = Offset /\ DownBytes' = DownBytes /\ Offset \in Nat
  BY <1>1 DEF Offset, DownBytes
<1>4. Parts(DownBytes, from_server', 0, Offset)
  <2>1. CASE cmd = "CONNECT"
    <3>1. Part(DownBytes, Reply, 0, 1)
      BY <2>1 DEF Part, Reply, DownBytes, Offset
    <3>2. Parts(DownBytes, <<>>, 0, 0)
      BY NoParts
    <3>3. Parts(DownBytes, Append(<<>>, AesEncode(Reply)), 0, 1)
      BY <3>1, <3>2, AppendPart
    <3> QED
      BY <1>1, <1>2, <2>1, <3>3 DEF Offset
  <2>2. CASE cmd # "CONNECT"
    BY <1>1, <1>2, <2>2, NoParts DEF Offset
  <2> QED
    BY <2>1, <2>2
<1>5. Flow(0, 0, 0, Offset, Offset)'
  BY <1>1, <1>2, <1>3, <1>4, NoPart DEF Flow
<1> QED
  BY <1>1, <1>5 DEF DownInv, Flow, Ungreeted

-----------------------------------------------------------------------------

LEMMA NextKeepsTypes ==
    ASSUME Types, [Next]_vars
    PROVE  Types'
<1>1. CASE BrowserSend \/ TargetSend
  BY <1>1, Sizes DEF Types, BrowserSend, TargetSend, client, server, up
<1>2. CASE BrowserRead \/ TargetRead
  BY <1>2 DEF Types, BrowserRead, TargetRead, client, server, up
<1>3. CASE ClientSocketThread \/ ClientWebSocketThread
  BY <1>3 DEF Types, ClientSocketThread, ClientReadHeader, ClientWriteFirst,
     ClientReadSocket, ClientWebSocketWrite, ClientWebSocketThread, ClientReadWebSocket,
     ClientSocketWrite, ends, server, client, up
<1>4. CASE ServerWebSocketThread \/ ServerSocketThread
  BY <1>4 DEF Types, ServerWebSocketThread, ServerReadFirst, ServerConnect, ServerGreet,
     ServerSpawn, ServerReadWebSocket, ServerForward, ServerSocketThread,
     ServerReadSocket, ServerWebSocketWrite, ends, client, server, up
<1>5. CASE UNCHANGED vars
  BY <1>5 DEF Types, vars, ends, up, client, server
<1> QED
  BY <1>1, <1>2, <1>3, <1>4, <1>5 DEF Next

\* A step that nothing upwards takes part in.
LEMMA SameUp ==
    ASSUME TunnelInv, UNCHANGED <<cmd, sent, target_got, up>>
    PROVE  UpInv'
<1>1. UNCHANGED <<to_client, to_server, to_target, client, server>>
  BY DEF up
<1>2. Ungreeted' <=> Ungreeted
  BY <1>1 DEF Ungreeted, server
<1> QED
  BY <1>1, <1>2, SameServer, SameClient DEF TunnelInv, UpInv

LEMMA NextKeepsTunnelInv ==
    ASSUME TunnelInv, [Next]_vars
    PROVE  TunnelInv'
<1>1. Types'
  BY NextKeepsTypes DEF TunnelInv
<1>2. UpInv'
  <2>1. CASE UNCHANGED <<cmd, sent, target_got, up>>
    BY <2>1, SameUp
  <2>2. CASE TargetSend \/ BrowserRead \/ ClientWebSocketThread \/ ServerSocketThread
    BY <2>1, <2>2 DEF TargetSend, BrowserRead, ClientWebSocketThread, ClientReadWebSocket,
       ClientSocketWrite, ServerSocketThread, ServerReadSocket, ServerWebSocketWrite, ends
  <2>3. CASE UNCHANGED vars
    BY <2>1, <2>3 DEF vars, ends
  <2> QED
    BY <2>2, <2>3, BrowserSendUp, TargetReadUp, ClientUp, ServerUp DEF Next
<1>3. DownInv'
  <2>1. CASE BrowserSend \/ TargetRead \/ ClientSocketThread
    <3>1. UNCHANGED <<cmd, answered, browser_got, down, server_up>>
      BY <2>1 DEF BrowserSend, TargetRead, ClientSocketThread, ClientReadHeader,
         ClientWriteFirst, ClientReadSocket, ClientWebSocketWrite, ends, server
    <3> QED
      BY <3>1, SameDown
  <2>2. CASE UNCHANGED vars
    <3>1. UNCHANGED <<cmd, answered, browser_got, down, server_up>>
      BY <2>2 DEF vars, ends, up, server
    <3> QED
      BY <3>1, SameDown
  <2>3. CASE ServerWebSocketThread
    <3>1. CASE ServerGreet
      BY <3>1, ServerGreetDown
    <3>2. CASE ~ServerGreet
      <4>1. /\ UNCHANGED <<cmd, answered, browser_got, down>>
            /\ \/ UNCHANGED server_up
               \/ server_up = "spawn" /\ server_up' = "relay"
               \/ server_up = "first" /\ server_up' = "connect"
               \/ server_up = "connect" /\ server_up' = "greet"
        BY <2>3, <3>2 DEF ServerWebSocketThread, ServerReadFirst, ServerConnect,
           ServerSpawn, ServerReadWebSocket, ServerForward, ends
      <4> QED
        BY <4>1, SameDown
    <3> QED
      BY <3>1, <3>2
  <2> QED
    BY <2>1, <2>2, <2>3, TargetSendDown, BrowserReadDown, ClientDown, ServerSocketDown DEF Next
<1> QED
  BY <1>1, <1>2, <1>3 DEF TunnelInv

-----------------------------------------------------------------------------
(* What the ends see *)

BytesUp ==
    /\ Skip \in Nat /\ sent \in Nat /\ ForTarget \in Seq(Int)
    /\ Len(ForTarget) = IF sent > Skip THEN sent - Skip ELSE 0
    /\ \A k \in 1..Len(ForTarget) : ForTarget[k] = Skip + k

LEMMA ForTargetIs == Types => BytesUp
<1> SUFFICES ASSUME Types
             PROVE  BytesUp
  OBVIOUS
<1>1. Skip \in Nat /\ sent \in Nat
  BY Sizes DEF Types, Skip
<1> DEFINE n == IF sent > Skip THEN sent - Skip ELSE 0
<1>2. n \in Nat
  BY <1>1
<1>3. ForTarget = [k \in 1..n |-> Skip + k]
  BY DEF ForTarget
<1> HIDE DEF n
<1>4. ForTarget \in Seq(Int) /\ Len(ForTarget) = n /\ \A k \in 1..n : ForTarget[k] = Skip + k
  BY <1>1, <1>2, <1>3
<1> QED
  BY <1>1, <1>4 DEF n, BytesUp

Replies == IF cmd = "CONNECT" /\ server_up \notin {"first", "connect"} THEN 1 ELSE 0

BytesDown ==
    /\ ForBrowser \in Seq(Int) /\ Len(ForBrowser) = Replies + answered
    /\ \A k \in 1 .. Replies + answered : ForBrowser[k] = Replies - k

LEMMA ForBrowserIs == Types => BytesDown
<1> SUFFICES ASSUME Types
             PROVE  BytesDown
  OBVIOUS
<1> DEFINE greeted == cmd = "CONNECT" /\ server_up \notin {"first", "connect"}
           n == IF greeted THEN 1 ELSE 0
           first == IF greeted THEN Reply ELSE <<>>
           then == [k \in 1..answered |-> -k]
<1>1. answered \in Nat
  BY Sizes DEF Types
<1>2. then \in Seq(Int) /\ Len(then) = answered /\ \A k \in 1..answered : then[k] = -k
  BY <1>1
<1>3. first \in Seq(Int) /\ Len(first) = n /\ (n = 1 => first[1] = 0) /\ (n = 0 \/ n = 1)
  BY DEF Reply
<1>4. ForBrowser = first \o then
  BY DEF ForBrowser
<1> HIDE DEF then, first, n
<1>5. /\ first \o then \in Seq(Int) /\ Len(first \o then) = n + answered
      /\ \A k \in 1..n + answered :
            (first \o then)[k] = IF k <= n THEN first[k] ELSE then[k - n]
  BY <1>2, <1>3, ConcatProperties
<1>6. ASSUME NEW k \in 1..n + answered
      PROVE  (first \o then)[k] = n - k
  <2>1. CASE k <= n
    <3>1. n = 1 /\ k = 1
      BY <1>1, <1>3, <2>1
    <3> QED
      BY <1>3, <1>5, <2>1, <3>1
  <2>2. CASE k > n
    <3>1. k - n \in 1..answered /\ ~(k <= n)
      BY <1>1, <1>3, <2>2
    <3>2. then[k - n] = -(k - n) /\ -(k - n) = n - k
      BY <1>2, <1>3, <3>1
    <3> QED
      BY <1>5, <3>1, <3>2
  <2>3. n \in Int /\ k \in Int
    BY <1>3
  <2>4. k <= n \/ k > n
    BY <2>3
  <2> QED
    BY <2>1, <2>2, <2>4
<1> QED
  BY <1>4, <1>5, <1>6 DEF n, BytesDown, Replies

\* What has come is the beginning of what was sent.
Begins(got, all) ==
    got \in Seq(Int) /\ Len(got) <= Len(all) /\ got = SubSeq(all, 1, Len(got))

LEMMA TargetGot == TunnelInv => Begins(target_got, ForTarget)
<1> SUFFICES ASSUME TunnelInv
             PROVE  Begins(target_got, ForTarget)
  OBVIOUS
<1>1. /\ Skip \in Nat /\ sent \in Nat /\ ForTarget \in Seq(Int)
      /\ Len(ForTarget) = IF sent > Skip THEN sent - Skip ELSE 0
      /\ \A k \in 1..Len(ForTarget) : ForTarget[k] = Skip + k
  BY ForTargetIs DEF TunnelInv, BytesUp
<1>2. PICK c, d, e : /\ ServerSide(c) /\ Parts(UpBytes, to_server, c, d)
                     /\ ClientSide(d, e) /\ Part(UpBytes, to_client, e, sent)
  BY DEF TunnelInv, UpInv
<1>3. CASE Ungreeted
  <2>1. target_got = <<>>
    BY <1>2, <1>3 DEF ServerSide
  <2>2. SubSeq(ForTarget, 1, 0) = <<>>
    BY SubSeqEmpty
  <2> QED
    BY <1>1, <2>1, <2>2 DEF Begins
<1>4. CASE ~Ungreeted
  <2>1. PICK a, b : /\ Part(UpBytes, target_got, Skip, a) /\ Part(UpBytes, to_target, a, b)
                    /\ Part(UpBytes, server_chunk, b, c)
    BY <1>2, <1>4 DEF ServerSide
  <2>2. /\ target_got \in Seq(Int) /\ a \in Nat /\ Skip + Len(target_got) = a
        /\ \A k \in 1..Len(target_got) : target_got[k] = UpBytes[Skip + k]
    BY <2>1 DEF Part
  <2>3. a <= b /\ b <= c /\ b \in Nat /\ c \in Nat
    BY <2>1 DEF Part
  <2>4. c <= d /\ d \in Nat
    BY <1>2, PartsGrow DEF Parts
  <2>5. d <= e /\ e <= sent /\ e \in Nat
    BY <1>2 DEF ClientSide, Part
  <2>6. a <= sent /\ Len(target_got) \in 0..Len(ForTarget)
    <3>1. a <= sent
      BY <1>1, <2>2, <2>3, <2>4, <2>5
    <3> QED
      BY <1>1, <2>2, <3>1
  <2>7. /\ SubSeq(ForTarget, 1, Len(target_got)) \in Seq(Int)
        /\ Len(SubSeq(ForTarget, 1, Len(target_got))) = Len(target_got)
        /\ \A k \in 1..Len(target_got) :
              SubSeq(ForTarget, 1, Len(target_got))[k] = ForTarget[k]
    BY <1>1, <2>2, <2>6
  <2>8. ASSUME NEW k \in 1..Len(target_got)
        PROVE  target_got[k] = SubSeq(ForTarget, 1, Len(target_got))[k]
    <3>1. k \in 1..Len(ForTarget) /\ Skip + k \in Nat
      BY <1>1, <2>2, <2>6
    <3> QED
      BY <1>1, <2>2, <2>7, <3>1 DEF UpBytes
  <2> QED
    BY <2>2, <2>6, <2>7, <2>8, SeqEqual DEF Begins
<1> QED
  BY <1>3, <1>4

LEMMA BrowserGot == TunnelInv => Begins(browser_got, ForBrowser)
<1> SUFFICES ASSUME TunnelInv
             PROVE  Begins(browser_got, ForBrowser)
  OBVIOUS
<1> DEFINE n == Replies
<1>1. /\ ForBrowser \in Seq(Int) /\ Len(ForBrowser) = n + answered
      /\ \A k \in 1..n + answered : ForBrowser[k] = n - k
  BY ForBrowserIs DEF TunnelInv, BytesDown
<1>2. answered \in Nat /\ n \in Nat
  BY Sizes DEF TunnelInv, Types, Replies
<1>3. CASE Ungreeted
  <2>1. browser_got = <<>>
    BY <1>3 DEF TunnelInv, DownInv
  <2>2. SubSeq(ForBrowser, 1, 0) = <<>>
    BY SubSeqEmpty
  <2> QED
    BY <1>1, <1>2, <2>1, <2>2 DEF Begins
<1>4. CASE ~Ungreeted
  <2>1. PICK a, b, c, d, e : Flow(a, b, c, d, e)
    BY <1>4, InFlow
  <2>2. n = Offset
    BY <1>4 DEF Ungreeted, Offset, Replies
  <2> HIDE DEF n
  <2>3. /\ browser_got \in Seq(Int) /\ a \in Nat /\ Len(browser_got) = a
        /\ \A k \in 1..Len(browser_got) : browser_got[k] = DownBytes[0 + k]
    BY <2>1 DEF Flow, Part
  <2>4. a <= b /\ b <= c /\ b \in Nat /\ c \in Nat
    BY <2>1 DEF Flow, Part
  <2>5. c <= d /\ d \in Nat
    BY <2>1, PartsGrow DEF Flow, Parts
  <2>6. d <= e /\ e <= Offset + answered /\ e \in Nat
    BY <2>1 DEF Flow, Part
  <2>7. Len(browser_got) \in 0..Len(ForBrowser)
    BY <1>1, <1>2, <2>2, <2>3, <2>4, <2>5, <2>6
  <2>8. /\ SubSeq(ForBrowser, 1, Len(browser_got)) \in Seq(Int)
        /\ Len(SubSeq(ForBrowser, 1, Len(browser_got))) = Len(browser_got)
        /\ \A k \in 1..Len(browser_got) :
              SubSeq(ForBrowser, 1, Len(browser_got))[k] = ForBrowser[k]
    BY <1>1, <2>3, <2>7
  <2>9. ASSUME NEW k \in 1..Len(browser_got)
        PROVE  browser_got[k] = SubSeq(ForBrowser, 1, Len(browser_got))[k]
    <3>1. k \in 1..n + answered /\ k \in Nat /\ 0 + k = k
      BY <1>1, <2>3, <2>7
    <3>2. DownBytes[k] = n - k
      BY <2>2, <3>1 DEF DownBytes
    <3> QED
      BY <1>1, <2>3, <2>8, <3>1, <3>2
  <2> QED
    BY <2>3, <2>7, <2>8, <2>9, SeqEqual DEF Begins
<1> QED
  BY <1>3, <1>4

-----------------------------------------------------------------------------
(* Every step is a step of the channel, or none *)

LEMMA OneMore ==
    ASSUME NEW s \in Seq(Int), NEW t \in Seq(Int), Len(t) = Len(s) + 1,
           \A k \in 1..Len(s) : t[k] = s[k]
    PROVE  t = Append(s, t[Len(s) + 1])
<1>1. Len(s) \in Nat /\ Len(s) + 1 \in 1..Len(t)
  OBVIOUS
<1> DEFINE last == t[Len(s) + 1]
<1>2. last \in Int
  BY <1>1
<1> HIDE DEF last
<1>3. /\ Append(s, last) \in Seq(Int) /\ Len(Append(s, last)) = Len(s) + 1
      /\ Append(s, last)[Len(s) + 1] = last
      /\ \A k \in 1..Len(s) : Append(s, last)[k] = s[k]
  BY <1>2
<1>4. ASSUME NEW k \in 1..Len(t)
      PROVE  t[k] = Append(s, last)[k]
  <2>1. k \in 1..Len(s) \/ k = Len(s) + 1
    BY <1>1
  <2> QED
    BY <1>3, <2>1 DEF last
<1>5. t = Append(s, last)
  BY <1>3, <1>4, SeqEqual
<1> QED
  BY <1>5 DEF last

LEMMA BrowserSendSends ==
    ASSUME TunnelInv, TunnelInv', BrowserSend
    PROVE  [Upwards!Next]_<<ForTarget, target_got>>
<1>1. /\ sent' = sent + 1 /\ sent < Sends /\ sent \in Nat
      /\ UNCHANGED <<cmd, target_got>> /\ Skip' = Skip
  BY DEF BrowserSend, TunnelInv, Types, Skip
<1>2. /\ Skip \in Nat /\ ForTarget \in Seq(Int)
      /\ Len(ForTarget) = IF sent > Skip THEN sent - Skip ELSE 0
      /\ \A k \in 1..Len(ForTarget) : ForTarget[k] = Skip + k
  BY ForTargetIs DEF TunnelInv, BytesUp
<1>3. /\ ForTarget' \in Seq(Int)
      /\ Len(ForTarget') = IF sent' > Skip' THEN sent' - Skip' ELSE 0
      /\ \A k \in 1..Len(ForTarget') : ForTarget'[k] = Skip' + k
  <2>1. (Types => BytesUp)'
    BY ForTargetIs, PTL
  <2> QED
    BY <2>1 DEF TunnelInv, BytesUp
<1>4. CASE sent >= Skip
  <2>1. Len(ForTarget') = Len(ForTarget) + 1 /\ Skip + (Len(ForTarget) + 1) = sent + 1
    BY <1>1, <1>2, <1>3, <1>4
  <2>2. \A k \in 1..Len(ForTarget) : ForTarget'[k] = ForTarget[k]
    BY <1>1, <1>2, <1>3, <2>1
  <2>3. ForTarget'[Len(ForTarget) + 1] = sent + 1
    BY <1>1, <1>2, <1>3, <2>1
  <2>4. ForTarget' = Append(ForTarget, sent + 1)
    BY <1>2, <1>3, <2>1, <2>2, <2>3, OneMore
  <2>5. sent + 1 \in 1..Sends
    BY <1>1, Sizes
  <2> QED
    BY <1>1, <2>4, <2>5 DEF Upwards!Next, Upwards!Send
<1>5. CASE sent < Skip
  <2>1. Len(ForTarget) = 0 /\ Len(ForTarget') = 0
    BY <1>1, <1>2, <1>3, <1>5
  <2>2. ForTarget = ForTarget'
    BY <1>2, <1>3, <2>1, SeqEqual
  <2> QED
    BY <1>1, <2>2
<1> QED
  BY <1>1, <1>2, <1>4, <1>5

LEMMA TargetReadDelivers ==
    ASSUME TunnelInv, TunnelInv', TargetRead
    PROVE  [Upwards!Next]_<<ForTarget, target_got>>
<1>1. PICK n \in 1..Len(to_target) : target_got' = target_got \o SubSeq(to_target, 1, n)
  BY DEF TargetRead, ReadSome
<1>2. ForTarget' = ForTarget
  BY DEF TargetRead, ForTarget, Skip
<1>3. PICK c : ServerSide(c)
  BY DEF TunnelInv, UpInv
<1>4. to_target \in Seq(Int)
  BY <1>3 DEF ServerSide, Part
<1>5. SubSeq(to_target, 1, n) \in Seq(Int) /\ Len(SubSeq(to_target, 1, n)) = n
  BY <1>4
<1>6. target_got \in Seq(Int) /\ Len(target_got') = Len(target_got) + n
  BY <1>1, <1>5, TargetGot, ConcatProperties DEF Begins
<1>7. /\ Len(target_got') <= Len(ForTarget')
      /\ target_got' = SubSeq(ForTarget', 1, Len(target_got'))
  <2>1. (TunnelInv => Begins(target_got, ForTarget))'
    BY TargetGot, PTL
  <2> QED
    BY <2>1 DEF Begins
<1>8. ForTarget \in Seq(Int)
  BY ForTargetIs DEF TunnelInv, BytesUp
<1>9. Len(target_got') \in Len(target_got) + 1 .. Len(ForTarget)
  BY <1>2, <1>6, <1>7, <1>8
<1> QED
  BY <1>2, <1>7, <1>9 DEF Upwards!Next, Upwards!Deliver

LEMMA NextIsUpwards ==
    ASSUME TunnelInv, TunnelInv', [Next]_vars
    PROVE  [Upwards!Next]_<<ForTarget, target_got>>
<1>1. CASE BrowserSend
  BY <1>1, BrowserSendSends
<1>2. CASE TargetRead
  BY <1>2, TargetReadDelivers
<1>3. CASE UNCHANGED <<cmd, sent, target_got>>
  BY <1>3 DEF ForTarget, Skip
<1>4. CASE TargetSend \/ BrowserRead
  BY <1>3, <1>4 DEF TargetSend, BrowserRead
<1>5. CASE \/ ClientSocketThread \/ ClientWebSocketThread
           \/ ServerWebSocketThread \/ ServerSocketThread
  BY <1>3, <1>5 DEF ClientSocketThread, ClientReadHeader, ClientWriteFirst,
     ClientReadSocket, ClientWebSocketWrite, ClientWebSocketThread, ClientReadWebSocket,
     ClientSocketWrite, ServerWebSocketThread, ServerReadFirst, ServerConnect,
     ServerGreet, ServerSpawn, ServerReadWebSocket, ServerForward, ServerSocketThread,
     ServerReadSocket, ServerWebSocketWrite, ends
<1>6. CASE UNCHANGED vars
  BY <1>3, <1>6 DEF vars, ends
<1> QED
  BY <1>1, <1>2, <1>4, <1>5, <1>6 DEF Next

LEMMA TargetSendSends ==
    ASSUME TunnelInv, TunnelInv', TargetSend
    PROVE  [Downwards!Next]_<<ForBrowser, browser_got>>
<1>1. /\ answered' = answered + 1 /\ answered < Answers /\ answered \in Nat
      /\ UNCHANGED browser_got /\ Replies' = Replies /\ Replies \in Nat
  BY DEF TargetSend, TunnelInv, Types, Replies, up, server
<1>2. /\ ForBrowser \in Seq(Int) /\ Len(ForBrowser) = Replies + answered
      /\ \A k \in 1 .. Replies + answered : ForBrowser[k] = Replies - k
  BY ForBrowserIs DEF TunnelInv, BytesDown
<1>3. /\ ForBrowser' \in Seq(Int) /\ Len(ForBrowser') = Replies' + answered'
      /\ \A k \in 1 .. Replies' + answered' : ForBrowser'[k] = Replies' - k
  <2>1. (Types => BytesDown)'
    BY ForBrowserIs, PTL
  <2> QED
    BY <2>1 DEF TunnelInv, BytesDown
<1>4. Len(ForBrowser') = Len(ForBrowser) + 1
  BY <1>1, <1>2, <1>3
<1>5. \A k \in 1..Len(ForBrowser) : ForBrowser'[k] = ForBrowser[k]
  BY <1>1, <1>2, <1>3
<1>6. ForBrowser'[Len(ForBrowser) + 1] = -(answered + 1)
  BY <1>1, <1>2, <1>3
<1>7. ForBrowser' = Append(ForBrowser, -(answered + 1))
  BY <1>2, <1>3, <1>4, <1>5, <1>6, OneMore
<1>8. -(answered + 1) \in -Answers .. 0
  BY <1>1, Sizes
<1> QED
  BY <1>1, <1>7, <1>8 DEF Downwards!Next, Downwards!Send

\* Once the target is dialled the reply is on its way, before any of its bytes.
LEMMA ServerConnectSends ==
    ASSUME TunnelInv, TunnelInv', ServerConnect
    PROVE  [Downwards!Next]_<<ForBrowser, browser_got>>
<1>1. /\ server_up = "connect" /\ server_up' = "greet"
      /\ UNCHANGED <<cmd, answered, browser_got>>
  BY DEF ServerConnect, ends
<1>2. CASE cmd # "CONNECT"
  BY <1>1, <1>2 DEF ForBrowser
<1>3. CASE cmd = "CONNECT"
  <2>1. answered = 0 /\ Replies = 0 /\ Replies' = 1
    BY <1>1, <1>3 DEF TunnelInv, DownInv, Ungreeted, Replies
  <2>2. ForBrowser \in Seq(Int) /\ Len(ForBrowser) = 0
    BY <2>1, ForBrowserIs DEF TunnelInv, BytesDown
  <2>3. ForBrowser' \in Seq(Int) /\ Len(ForBrowser') = 1 /\ ForBrowser'[1] = 0
    <3>1. (Types => BytesDown)'
      BY ForBrowserIs, PTL
    <3> QED
      BY <1>1, <2>1, <3>1 DEF TunnelInv, BytesDown
  <2>4. ForBrowser' = Append(ForBrowser, 0)
    BY <2>2, <2>3, OneMore
  <2>5. 0 \in -Answers .. 0
    BY Sizes
  <2> QED
    BY <1>1, <2>4, <2>5 DEF Downwards!Next, Downwards!Send
<1> QED
  BY <1>2, <1>3

LEMMA BrowserReadDelivers ==
    ASSUME TunnelInv, TunnelInv', BrowserRead
    PROVE  [Downwards!Next]_<<ForBrowser, browser_got>>
<1>1. PICK n \in 1..Len(to_browser) : browser_got' = browser_got \o SubSeq(to_browser, 1, n)
  BY DEF BrowserRead, ReadSome
<1>2. ForBrowser' = ForBrowser
  BY DEF BrowserRead, ForBrowser, up, server
<1>3. to_browser # <<>>
  BY <1>1
<1>4. to_browser \in Seq(Int)
  BY <1>3, InFlow DEF Flow, Part
<1>5. SubSeq(to_browser, 1, n) \in Seq(Int) /\ Len(SubSeq(to_browser, 1, n)) = n
  BY <1>4
<1>6. browser_got \in Seq(Int) /\ Len(browser_got') = Len(browser_got) + n
  BY <1>1, <1>5, BrowserGot, ConcatProperties DEF Begins
<1>7. /\ Len(browser_got') <= Len(ForBrowser')
      /\ browser_got' = SubSeq(ForBrowser', 1, Len(browser_got'))
  <2>1. (TunnelInv => Begins(browser_got, ForBrowser))'
    BY BrowserGot, PTL
  <2> QED
    BY <2>1 DEF Begins
<1>8. ForBrowser \in Seq(Int)
  BY ForBrowserIs DEF TunnelInv, BytesDown
<1>9. Len(browser_got') \in Len(browser_got) + 1 .. Len(ForBrowser)
  BY <1>2, <1>6, <1>7, <1>8
<1> QED
  BY <1>2, <1>7, <1>9 DEF Downwards!Next, Downwards!Deliver

LEMMA NextIsDownwards ==
    ASSUME TunnelInv, TunnelInv', [Next]_vars
    PROVE  [Downwards!Next]_<<ForBrowser, browser_got>>
<1>1. CASE /\ UNCHANGED <<cmd, answered, browser_got>>
           /\ server_up' \in {"first", "connect"} <=> server_up \in {"first", "connect"}
  BY <1>1 DEF ForBrowser
<1>2. CASE BrowserSend \/ TargetRead \/ ClientSocketThread \/ ClientWebSocketThread
  BY <1>1, <1>2 DEF BrowserSend, TargetRead, ClientSocketThread, ClientReadHeader,
     ClientWriteFirst, ClientReadSocket, ClientWebSocketWrite, ClientWebSocketThread,
     ClientReadWebSocket, ClientSocketWrite, ends, up, server
<1>3. CASE ServerSocketThread
  BY <1>1, <1>3 DEF ServerSocketThread, ServerReadSocket, ServerWebSocketWrite, ends, up,
     server
<1>4. CASE ServerWebSocketThread /\ ~ServerConnect
  BY <1>1, <1>4 DEF ServerWebSocketThread, ServerReadFirst, ServerGreet, ServerSpawn,
     ServerReadWebSocket, ServerForward, ends
<1>5. CASE UNCHANGED vars
  BY <1>1, <1>5 DEF vars, ends, up, server
<1> QED
  BY <1>2, <1>3, <1>4, <1>5, TargetSendSends, ServerConnectSends, BrowserReadDelivers
  DEF Next, ServerWebSocketThread

-----------------------------------------------------------------------------

\* The places of all bytes under way, between the ends, fit together.
THEOREM Invariance == Spec => []TunnelInv
<1>1. Spec => Init /\ [][Next]_vars
  BY DEF Spec
<1> QED
  BY <1>1, InitTunnelInv, NextKeepsTunnelInv, PTL

\* No byte of the browser's is lost, repeated or reordered on its way to the target,
\* for any header and any size of buffers, reads and messages.  That it arrives is
\* the rest of ReachesTarget.
THEOREM UpwardsInOrder ==
    Spec => Upwards!Init /\ [][Upwards!Next]_<<ForTarget, target_got>>
<1>1. Spec => Init /\ [][Next]_vars
  BY DEF Spec
<1>2. Init => Upwards!Init
  <2> SUFFICES ASSUME Init
               PROVE  Upwards!Init
    OBVIOUS
  <2>1. TunnelInv /\ sent = 0 /\ target_got = <<>>
    BY InitTunnelInv DEF Init
  <2>2. ForTarget \in Seq(Int) /\ Len(ForTarget) = 0
    BY <2>1, ForTargetIs DEF TunnelInv, BytesUp
  <2> QED
    BY <2>1, <2>2 DEF Upwards!Init
<1> QED
  BY <1>1, <1>2, Invariance, NextIsUpwards, PTL

\* No byte of the target's is lost, repeated or reordered on its way to the browser,
\* and none is ahead of the reply to a CONNECT.  The rest of ReachesBrowser is that
\* it arrives.
THEOREM DownwardsInOrder ==
    Spec => Downwards!Init /\ [][Downwards!Next]_<<ForBrowser, browser_got>>
<1>1. Spec => Init /\ [][Next]_vars
  BY DEF Spec
<1>2. Init => Downwards!Init
  <2> SUFFICES ASSUME Init
               PROVE  Downwards!Init
    OBVIOUS
  <2>1. /\ TunnelInv /\ answered = 0 /\ browser_got = <<>>
        /\ server_up = "first"
    BY InitTunnelInv DEF Init
  <2>2. ForBrowser \in Seq(Int) /\ Len(ForBrowser) = 0
    BY <2>1, ForBrowserIs DEF TunnelInv, BytesDown, Replies
  <2> QED
    BY <2>1, <2>2 DEF Downwards!Init
<1> QED
  BY <1>1, <1>2, Invariance, NextIsDownwards, PTL

-----------------------------------------------------------------------------
(* The window                                                              *)


CallNames ==
    {"disable", "enable", "SetProxy", "ClearProxy", "StopIos", "JoinThreads", "ResetIos",
     "StartAllThreads", "StartServer", "StartWebsocket", "CloseServer", "JoinServer",
     "CloseWebsocket", "JoinWebsocket", "leave"}

\* c is the end of the sequence h.
EndOf(h, c) ==
    /\ c \in Seq(CallNames) /\ Len(c) <= Len(h)
    /\ \A j \in 1..Len(c) : c[Len(c) + 1 - j] = h[Len(h) + 1 - j]

Rest == Len(calls)

AsioTyped == thread_list \in [Cores -> {"none", "started", "running", "returned"}]

NoThreads == \A c \in Cores : thread_list[c] = "none"

Connecting ==
    /\ checked = {sender}
    /\ EndOf(Connect(sender), calls)
    /\ disabled = IF Rest < Len(Connect(sender)) THEN {Other(sender)} ELSE {}

(* The mode of the button sender is being started, or is on.               *)
Up ==
    /\ Connecting
    /\ proxy = "on" => sender = "btn_main_connect_2"
    /\ Rest >= 1 => websocket_server = "none"
    /\ Rest >= 2 => client_server = "none"
    /\ Rest <= 2 => \A c \in Cores : thread_list[c] \in {"started", "running"}
    /\ Rest <= 3 => ios = "runnable" /\ ios_work = "held"
    /\ Rest >= 3 => NoThreads

Disconnecting ==
    /\ checked = {}
    /\ EndOf(Disconnect, calls)
    /\ disabled = IF Rest > 0 THEN {Other(sender)} ELSE {}

(* It is being stopped, or none is on.                                     *)
Down ==
    /\ Disconnecting
    /\ Rest <= 7 => proxy # "on"
    /\ Rest <= 5 => client_server = "none"
    /\ Rest <= 3 => websocket_server = "none"
    /\ Rest <= 1 => NoThreads

(* The window is closed.                                                   *)
Closed ==
    /\ window = "closed" /\ process \in {"running", "left"}
    /\ EndOf(Destructors, calls)

WindowInv ==
    /\ sender \in Buttons /\ AsioTyped
    /\ Closed \/ (window = "open" /\ process = "running" /\ (Up \/ Down))

-----------------------------------------------------------------------------
(* The handlers' calls, counted from their ends *)

LEMMA OtherButton ==
    ASSUME NEW b \in Buttons
    PROVE  Other(b) \in Buttons /\ Other(b) # b
<1>1. \E o \in Buttons : o # b
  BY DEF Buttons
<1> QED
  BY <1>1 DEF Other

\* With eight calls or seven, of which the last six are the same.
LEMMA ConnectIs ==
    ASSUME NEW b \in Buttons
    PROVE  LET h == Connect(b)  n == Len(Connect(b)) IN
           /\ h \in Seq(CallNames)
           /\ n = IF b = "btn_main_connect_2" THEN 8 ELSE 7
           /\ h[1] = "disable" /\ (n = 8 => h[2] = "SetProxy")
           /\ h[n - 5] = "StopIos" /\ h[n - 4] = "JoinThreads" /\ h[n - 3] = "ResetIos"
           /\ h[n - 2] = "StartAllThreads"
           /\ h[n - 1] = "StartServer" /\ h[n] = "StartWebsocket"
<1>1. /\ <<"disable">> \in Seq(CallNames) /\ <<"SetProxy">> \in Seq(CallNames)
      /\ <<>> \in Seq(CallNames) /\ StartThreads \in Seq(CallNames)
      /\ <<"StartServer", "StartWebsocket">> \in Seq(CallNames)
  BY DEF CallNames, StartThreads
<1>2. CASE b = "btn_main_connect_2"
  BY <1>1, <1>2, ConcatProperties DEF Connect, StartThreads
<1>3. CASE b # "btn_main_connect_2"
  BY <1>1, <1>3, ConcatProperties DEF Connect, StartThreads
<1> QED
  BY <1>2, <1>3

LEMMA DisconnectIs ==
    LET h == Disconnect IN
    /\ h \in Seq(CallNames) /\ Len(h) = 8
    /\ h[1] = "ClearProxy" /\ h[2] = "CloseServer" /\ h[3] = "JoinServer"
    /\ h[4] = "CloseWebsocket" /\ h[5] = "JoinWebsocket"
    /\ h[6] = "StopIos" /\ h[7] = "JoinThreads" /\ h[8] = "enable"
<1>1. /\ <<"ClearProxy">> \in Seq(CallNames) /\ StopServer \in Seq(CallNames)
      /\ StopWebsocket \in Seq(CallNames) /\ StopThreads \in Seq(CallNames)
      /\ <<"enable">> \in Seq(CallNames)
  BY DEF CallNames, StopServer, StopWebsocket, StopThreads
<1> QED
  BY <1>1, ConcatProperties DEF Disconnect, StopServer, StopWebsocket, StopThreads

LEMMA DestructorsAre ==
    LET h == Destructors IN
    /\ h \in Seq(CallNames) /\ Len(h) = 7
    /\ h[1] = "CloseWebsocket" /\ h[2] = "JoinWebsocket"
    /\ h[3] = "CloseServer" /\ h[4] = "JoinServer"
    /\ h[5] = "StopIos" /\ h[6] = "JoinThreads" /\ h[7] = "leave"
<1>1. /\ StopServer \in Seq(CallNames) /\ StopWebsocket \in Seq(CallNames)
      /\ StopThreads \in Seq(CallNames) /\ <<"leave">> \in Seq(CallNames)
  BY DEF CallNames, StopServer, StopWebsocket, StopThreads
<1> QED
  BY <1>1, ConcatProperties DEF Destructors, StopServer, StopWebsocket, StopThreads

(* A call is the one that the handler's end says, and leaves its end.      *)
LEMMA CallsNext ==
    ASSUME NEW h \in Seq(CallNames), EndOf(h, calls), NEW name, Calls(name)
    PROVE  /\ \E k \in 1..Len(h) : name = h[k] /\ Rest = Len(h) + 1 - k
           /\ EndOf(h, calls') /\ Rest' = Rest - 1
<1>1. calls \in Seq(CallNames) /\ calls # <<>> /\ Head(calls) = name /\ calls' = Tail(calls)
  BY DEF EndOf, Calls
<1>2. /\ calls' \in Seq(CallNames) /\ Rest' = Rest - 1
      /\ \A i \in 1..Rest' : calls'[i] = calls[i + 1]
  BY <1>1, HeadTailProperties DEF Rest
<1>3. Rest \in 1..Len(h) /\ calls[1] = name
  BY <1>1 DEF EndOf, Rest
<1>4. name = h[Len(h) + 1 - Rest]
  BY <1>3 DEF EndOf, Rest
<1>5. ASSUME NEW j \in 1..Rest'
      PROVE  calls'[Rest' + 1 - j] = h[Len(h) + 1 - j]
  <2>1. calls'[Rest' + 1 - j] = calls[Rest + 1 - j]
    BY <1>2, <1>3
  <2> QED
    BY <2>1, <1>2, <1>3 DEF EndOf, Rest
<1>6. EndOf(h, calls')
  BY <1>2, <1>3, <1>5 DEF EndOf, Rest
<1>7. Len(h) + 1 - Rest \in 1..Len(h) /\ Rest = Len(h) + 1 - (Len(h) + 1 - Rest)
  BY <1>3
<1> QED
  BY <1>2, <1>4, <1>6, <1>7

\* While the mode is started, the call tells how many are ahead.
LEMMA UpCalls ==
    ASSUME WindowInv, Up, NEW name, Calls(name)
    PROVE  /\ EndOf(Connect(sender), calls') /\ Rest \in 1..Len(Connect(sender))
           /\ Rest' = Rest - 1
           /\ \/ name = "StartWebsocket" /\ Rest = 1
              \/ name = "StartServer" /\ Rest = 2
              \/ name = "StartAllThreads" /\ Rest = 3
              \/ name = "ResetIos" /\ Rest = 4
              \/ name = "JoinThreads" /\ Rest = 5
              \/ name = "StopIos" /\ Rest = 6
              \/ /\ name = "SetProxy" /\ Rest = 7 /\ Len(Connect(sender)) = 8
                 /\ sender = "btn_main_connect_2"
              \/ name = "disable" /\ Rest = Len(Connect(sender)) /\ Rest \in {7, 8}
<1> DEFINE h == Connect(sender)
<1>1. sender \in Buttons /\ EndOf(h, calls)
  BY DEF WindowInv, Up, Connecting
<1>2. /\ h \in Seq(CallNames)
      /\ Len(h) = IF sender = "btn_main_connect_2" THEN 8 ELSE 7
      /\ h[1] = "disable" /\ (Len(h) = 8 => h[2] = "SetProxy")
      /\ h[Len(h) - 5] = "StopIos" /\ h[Len(h) - 4] = "JoinThreads"
      /\ h[Len(h) - 3] = "ResetIos" /\ h[Len(h) - 2] = "StartAllThreads"
      /\ h[Len(h) - 1] = "StartServer" /\ h[Len(h)] = "StartWebsocket"
  BY <1>1, ConnectIs
<1> HIDE DEF h
<1>3. EndOf(h, calls') /\ Rest' = Rest - 1
  BY <1>1, <1>2, CallsNext
<1>4. PICK k \in 1..Len(h) : name = h[k] /\ Rest = Len(h) + 1 - k
  BY <1>1, <1>2, CallsNext
<1>5. CASE Len(h) = 8
  <2>1. k = 1 \/ k = 2 \/ k = 3 \/ k = 4 \/ k = 5 \/ k = 6 \/ k = 7 \/ k = 8
    BY <1>4, <1>5
  <2> QED
    BY <2>1, <1>2, <1>3, <1>4, <1>5 DEF h
<1>6. CASE Len(h) = 7
  <2>1. k = 1 \/ k = 2 \/ k = 3 \/ k = 4 \/ k = 5 \/ k = 6 \/ k = 7
    BY <1>4, <1>6
  <2> QED
    BY <2>1, <1>2, <1>3, <1>4, <1>6 DEF h
<1> QED
  BY <1>2, <1>5, <1>6

\* The same while it is stopped.
LEMMA DownCalls ==
    ASSUME Down, NEW name, Calls(name)
    PROVE  /\ EndOf(Disconnect, calls') /\ Rest \in 1..8 /\ Rest' = Rest - 1
           /\ \/ name = "enable" /\ Rest = 1
              \/ name = "JoinThreads" /\ Rest = 2
              \/ name = "StopIos" /\ Rest = 3
              \/ name = "JoinWebsocket" /\ Rest = 4
              \/ name = "CloseWebsocket" /\ Rest = 5
              \/ name = "JoinServer" /\ Rest = 6
              \/ name = "CloseServer" /\ Rest = 7
              \/ name = "ClearProxy" /\ Rest = 8
<1>1. Disconnect \in Seq(CallNames) /\ Len(Disconnect) = 8 /\ EndOf(Disconnect, calls)
  BY DisconnectIs DEF Down, Disconnecting
<1>2. EndOf(Disconnect, calls') /\ Rest' = Rest - 1
  BY <1>1, CallsNext
<1>3. PICK k \in 1..Len(Disconnect) : name = Disconnect[k] /\ Rest = Len(Disconnect) + 1 - k
  BY <1>1, CallsNext
<1>4. k = 1 \/ k = 2 \/ k = 3 \/ k = 4 \/ k = 5 \/ k = 6 \/ k = 7 \/ k = 8
  BY <1>1, <1>3
<1> QED
  BY <1>1, <1>2, <1>3, <1>4, DisconnectIs

\* Closing starts nothing.
LEMMA ClosedCalls ==
    ASSUME Closed, NEW name, Calls(name)
    PROVE  /\ EndOf(Destructors, calls')
           /\ name \in {"CloseWebsocket", "JoinWebsocket", "CloseServer", "JoinServer",
                        "StopIos", "JoinThreads", "leave"}
<1>1. Destructors \in Seq(CallNames) /\ Len(Destructors) = 7 /\ EndOf(Destructors, calls)
  BY DestructorsAre DEF Closed
<1>2. EndOf(Destructors, calls')
  BY <1>1, CallsNext
<1>3. PICK k \in 1..7 : name = Destructors[k]
  BY <1>1, CallsNext
<1>4. k = 1 \/ k = 2 \/ k = 3 \/ k = 4 \/ k = 5 \/ k = 6 \/ k = 7
  BY <1>3
<1> QED
  BY <1>2, <1>3, <1>4, DestructorsAre

-----------------------------------------------------------------------------
(* The UI thread *)

LEMMA StillUp ==
    ASSUME WindowInv, Up, NEW name, name # "disable", Calls(name),
           UNCHANGED <<checked, disabled, sender>>
    PROVE  Connecting'
<1>1. /\ EndOf(Connect(sender), calls') /\ Rest \in 1..Len(Connect(sender))
      /\ Rest' = Rest - 1
      /\ Rest \in 1..6 \/ (Rest = 7 /\ Len(Connect(sender)) = 8)
  BY UpCalls
<1>2. sender \in Buttons
  BY DEF WindowInv
<1>3. Len(Connect(sender)) \in {7, 8}
  BY <1>2, ConnectIs
<1>4. Rest < Len(Connect(sender))
  <2> DEFINE n == Len(Connect(sender))
  <2>1. (n = 7 \/ n = 8) /\ (Rest \in 1..6 \/ (Rest = 7 /\ n = 8))
    BY <1>1, <1>3
  <2> HIDE DEF n
  <2>2. Rest < n
    BY <2>1
  <2> QED
    BY <2>2 DEF n
<1>5. Rest' < Len(Connect(sender'))
  BY <1>1, <1>3, <1>4
<1> QED
  BY <1>1, <1>4, <1>5 DEF Up, Connecting

LEMMA StillDown ==
    ASSUME Down, NEW name, name # "enable", Calls(name),
           UNCHANGED <<checked, disabled, sender>>
    PROVE  Disconnecting'
  BY DownCalls DEF Down, Disconnecting

LEMMA SetDisabledKeeps ==
    ASSUME WindowInv, SetDisabled
    PROVE  WindowInv'
<1>1. UNCHANGED <<checked, sender, window, proxy, client_server, websocket_server, process, asio>>
  BY DEF SetDisabled
<1>2. PICK name \in {"disable", "enable"} :
        /\ Calls(name)
        /\ disabled' = IF name = "disable" THEN disabled \cup {Other(sender)}
                       ELSE disabled \ {Other(sender)}
  BY DEF SetDisabled
<1>3. CASE Closed
  BY <1>2, <1>3, ClosedCalls
<1>4. CASE window = "open" /\ process = "running" /\ Up
  <2>1. /\ name = "disable" /\ Rest = Len(Connect(sender)) /\ Rest \in {7, 8}
        /\ Rest' = Rest - 1 /\ EndOf(Connect(sender), calls')
    BY <1>2, <1>4, UpCalls
  <2>2. disabled' = {Other(sender)}
    BY <1>2, <1>4, <2>1 DEF Up, Connecting
  <2>3. Rest' < Len(Connect(sender')) /\ Rest' >= 6
    BY <1>1, <2>1
  <2>4. Up'
    BY <1>1, <1>4, <2>1, <2>2, <2>3 DEF Up, Connecting, NoThreads, asio
  <2> QED
    BY <1>1, <1>4, <2>4 DEF WindowInv, AsioTyped, asio
<1>5. CASE window = "open" /\ process = "running" /\ Down
  <2>1. name = "enable" /\ Rest = 1 /\ Rest' = 0 /\ EndOf(Disconnect, calls')
    BY <1>2, <1>5, DownCalls
  <2>2. Down'
    BY <1>1, <1>2, <1>5, <2>1 DEF Down, Disconnecting, NoThreads, asio
  <2> QED
    BY <1>1, <1>5, <2>2 DEF WindowInv, AsioTyped, asio
<1> QED
  BY <1>3, <1>4, <1>5 DEF WindowInv

LEMMA SetProxyKeeps ==
    ASSUME WindowInv, SetProxyLocalConfig
    PROVE  WindowInv'
<1>1. UNCHANGED <<checked, disabled, sender, window, client_server, websocket_server, process, asio>>
  BY DEF SetProxyLocalConfig
<1>2. PICK name \in {"SetProxy", "ClearProxy"} :
        Calls(name) /\ (name = "ClearProxy" => proxy' # "on")
  BY DEF SetProxyLocalConfig
<1>3. CASE Closed
  BY <1>2, <1>3, ClosedCalls
<1>4. CASE window = "open" /\ process = "running" /\ Up
  <2>1. Rest = 7 /\ Rest' = 6 /\ sender = "btn_main_connect_2"
    BY <1>2, <1>4, UpCalls
  <2>2. Connecting'
    BY <1>1, <1>2, <1>4, StillUp
  <2>3. Up'
    BY <1>1, <1>4, <2>1, <2>2 DEF Up, NoThreads, asio
  <2> QED
    BY <1>1, <1>4, <2>3 DEF WindowInv, AsioTyped, asio
<1>5. CASE window = "open" /\ process = "running" /\ Down
  <2>1. name = "ClearProxy" /\ Rest = 8 /\ Rest' = 7
    BY <1>2, <1>5, DownCalls
  <2>2. Disconnecting'
    BY <1>1, <1>2, <1>5, StillDown
  <2>3. Down'
    BY <1>1, <1>2, <1>5, <2>1, <2>2 DEF Down, NoThreads, asio
  <2> QED
    BY <1>1, <1>5, <2>3 DEF WindowInv, AsioTyped, asio
<1> QED
  BY <1>3, <1>4, <1>5 DEF WindowInv

LEMMA AsioCallKeeps ==
    ASSUME WindowInv, AsioCall
    PROVE  WindowInv'
<1>1. UNCHANGED widget
  BY DEF AsioCall
<1>2. PICK name \in {"StopIos", "JoinThreads", "ResetIos", "StartAllThreads"} :
        /\ Calls(name)
        /\ name = "StopIos" => StopIos
        /\ name = "JoinThreads" => JoinThreads
        /\ name = "ResetIos" => ResetIos
        /\ name = "StartAllThreads" => StartAllThreads
  BY DEF AsioCall
<1>3. AsioTyped'
  BY <1>2 DEF WindowInv, AsioTyped, StopIos, JoinThreads, ResetIos, StartAllThreads
<1>4. CASE Closed
  BY <1>1, <1>2, <1>3, <1>4, ClosedCalls DEF WindowInv, Closed, widget
<1>5. CASE window = "open" /\ process = "running" /\ Up
  <2>1. Connecting'
    BY <1>1, <1>2, <1>5, StillUp DEF widget
  <2>2. /\ Rest' = Rest - 1
        /\ \/ name = "StartAllThreads" /\ Rest = 3
           \/ name = "ResetIos" /\ Rest = 4
           \/ name = "JoinThreads" /\ Rest = 5
           \/ name = "StopIos" /\ Rest = 6
    BY <1>2, <1>5, UpCalls
  <2>3. Up'
    <3>1. CASE name = "StartAllThreads"
      BY <1>1, <1>2, <1>5, <2>1, <2>2, <3>1 DEF Up, NoThreads, widget, StartAllThreads
    <3>2. CASE name = "ResetIos"
      BY <1>1, <1>2, <1>5, <2>1, <2>2, <3>2 DEF Up, NoThreads, widget, ResetIos
    <3>3. CASE name = "JoinThreads"
      BY <1>1, <1>2, <1>5, <2>1, <2>2, <3>3 DEF Up, NoThreads, widget, JoinThreads
    <3>4. CASE name = "StopIos"
      BY <1>1, <1>2, <1>5, <2>1, <2>2, <3>4 DEF Up, NoThreads, widget, StopIos
    <3> QED
      BY <2>2, <3>1, <3>2, <3>3, <3>4
  <2> QED
    BY <1>1, <1>3, <1>5, <2>3 DEF WindowInv, widget
<1>6. CASE window = "open" /\ process = "running" /\ Down
  <2>1. Disconnecting'
    BY <1>1, <1>2, <1>6, StillDown DEF widget
  <2>2. Rest' = Rest - 1 /\ ((name = "JoinThreads" /\ Rest = 2) \/ (name = "StopIos" /\ Rest = 3))
    BY <1>2, <1>6, DownCalls
  <2>3. Down'
    BY <1>1, <1>2, <1>6, <2>1, <2>2 DEF Down, NoThreads, widget, JoinThreads, StopIos
  <2> QED
    BY <1>1, <1>3, <1>6, <2>3 DEF WindowInv, widget
<1> QED
  BY <1>4, <1>5, <1>6 DEF WindowInv

LEMMA StartServerKeeps ==
    ASSUME WindowInv, StartServer
    PROVE  WindowInv'
<1>1. /\ Calls("StartServer") /\ Assign(client_server)
      /\ UNCHANGED <<checked, disabled, sender, window, proxy, websocket_server, asio>>
  BY DEF StartServer
<1>2. window = "open" /\ process = "running" /\ Up
  BY <1>1, ClosedCalls, DownCalls DEF WindowInv
<1>3. Rest = 2 /\ Rest' = 1
  BY <1>1, <1>2, UpCalls
<1>4. process' = "running"
  BY <1>1, <1>2, <1>3 DEF Up, Assign
<1>5. Connecting'
  BY <1>1, <1>2, StillUp
<1>6. Up'
  BY <1>1, <1>2, <1>3, <1>5 DEF Up, NoThreads, asio
<1> QED
  BY <1>1, <1>2, <1>4, <1>6 DEF WindowInv, AsioTyped, asio

LEMMA StartWebsocketKeeps ==
    ASSUME WindowInv, StartWebsocket
    PROVE  WindowInv'
<1>1. /\ Calls("StartWebsocket")
      /\ Assign(websocket_server) \/ process' = process
      /\ UNCHANGED <<checked, disabled, sender, window, proxy, client_server, asio>>
  BY DEF StartWebsocket
<1>2. window = "open" /\ process = "running" /\ Up
  BY <1>1, ClosedCalls, DownCalls DEF WindowInv
<1>3. Rest = 1 /\ Rest' = 0
  BY <1>1, <1>2, UpCalls
<1>4. process' = "running"
  BY <1>1, <1>2, <1>3 DEF Up, Assign
<1>5. Connecting'
  BY <1>1, <1>2, StillUp
<1>6. Up'
  BY <1>1, <1>2, <1>3, <1>5 DEF Up, NoThreads, asio
<1> QED
  BY <1>1, <1>2, <1>4, <1>6 DEF WindowInv, AsioTyped, asio

\* Closing and joining are calls of the end of a mode, or of the window.
LEMMA StopCallKeeps ==
    ASSUME WindowInv, NEW name, Calls(name),
           name \in {"CloseServer", "JoinServer", "CloseWebsocket", "JoinWebsocket"},
           UNCHANGED <<checked, disabled, sender, window, proxy, process, asio>>,
           client_server = "none" => client_server' = "none",
           websocket_server = "none" => websocket_server' = "none",
           name = "JoinServer" => client_server' = "none",
           name = "JoinWebsocket" => websocket_server' = "none"
    PROVE  WindowInv'
<1>1. CASE Closed
  BY <1>1, ClosedCalls DEF WindowInv, Closed, AsioTyped, asio
<1>2. CASE window = "open" /\ process = "running" /\ Up
  BY <1>2, UpCalls
<1>3. CASE window = "open" /\ process = "running" /\ Down
  <2>1. /\ Rest' = Rest - 1
        /\ \/ name = "JoinWebsocket" /\ Rest = 4
           \/ name = "CloseWebsocket" /\ Rest = 5
           \/ name = "JoinServer" /\ Rest = 6
           \/ name = "CloseServer" /\ Rest = 7
    BY <1>3, DownCalls
  <2>2. Disconnecting'
    BY <1>3, StillDown
  <2>3. Down'
    BY <1>3, <2>1, <2>2 DEF Down, NoThreads, asio
  <2> QED
    BY <1>3, <2>3 DEF WindowInv, AsioTyped, asio
<1> QED
  BY <1>1, <1>2, <1>3 DEF WindowInv

LEMMA CloseServersKeeps ==
    ASSUME WindowInv, CloseServers
    PROVE  WindowInv'
<1>1. CASE /\ Calls("CloseServer")
           /\ client_server' = Close(client_server) /\ UNCHANGED websocket_server
  BY <1>1, StopCallKeeps DEF CloseServers, Close
<1>2. CASE /\ Calls("CloseWebsocket")
           /\ websocket_server' = Close(websocket_server) /\ UNCHANGED client_server
  BY <1>2, StopCallKeeps DEF CloseServers, Close
<1> QED
  BY <1>1, <1>2 DEF CloseServers

LEMMA JoinServersKeeps ==
    ASSUME WindowInv, JoinServers
    PROVE  WindowInv'
<1>1. CASE /\ Calls("JoinServer") /\ client_server' = "none" /\ UNCHANGED websocket_server
  BY <1>1, StopCallKeeps DEF JoinServers
<1>2. CASE /\ Calls("JoinWebsocket")
           /\ websocket_server' = "none" /\ UNCHANGED client_server
  BY <1>2, StopCallKeeps DEF JoinServers
<1> QED
  BY <1>1, <1>2 DEF JoinServers

LEMMA LeaveKeeps ==
    ASSUME WindowInv, Leave
    PROVE  WindowInv'
<1>1. Calls("leave") /\ UNCHANGED <<sender, window, asio>> /\ process' = "left"
  BY DEF Leave
<1>2. Closed
  BY <1>1, UpCalls, DownCalls DEF WindowInv
<1> QED
  BY <1>1, <1>2, ClosedCalls DEF WindowInv, Closed, AsioTyped, asio

-----------------------------------------------------------------------------
(* The other threads, and the user *)

LEMMA ThreadsKeep ==
    ASSUME WindowInv, ServerThread \/ WebsocketThread
    PROVE  WindowInv'
<1>1. /\ UNCHANGED <<checked, disabled, calls, sender, window, proxy, process, asio>>
      /\ client_server = "none" => client_server' = "none"
      /\ websocket_server = "none" => websocket_server' = "none"
  BY DEF ServerThread, WebsocketThread
<1>2. CASE Closed
  BY <1>1, <1>2 DEF WindowInv, Closed, EndOf, AsioTyped, asio
<1>3. CASE Up
  <2>1. Connecting' /\ Rest' = Rest
    BY <1>1, <1>3 DEF Up, Connecting, EndOf, Rest
  <2>2. Up'
    BY <1>1, <1>3, <2>1 DEF Up, NoThreads, asio
  <2> QED
    BY <1>1, <1>3, <2>2 DEF WindowInv, Closed, EndOf, AsioTyped, asio
<1>4. CASE Down
  <2>1. Disconnecting' /\ Rest' = Rest
    BY <1>1, <1>4 DEF Down, Disconnecting, EndOf, Rest
  <2>2. Down'
    BY <1>1, <1>4, <2>1 DEF Down, NoThreads, asio
  <2> QED
    BY <1>1, <1>4, <2>2 DEF WindowInv, Closed, EndOf, AsioTyped, asio
<1> QED
  BY <1>2, <1>3, <1>4 DEF WindowInv

LEMMA IoThreadsKeep ==
    ASSUME WindowInv, IoThreads
    PROVE  WindowInv'
<1>1. PICK c \in Cores : IoThread(c)
  BY DEF IoThreads
<1>2. UNCHANGED <<checked, disabled, calls, sender, window, proxy, client_server, websocket_server,
                  process>>
  BY DEF IoThreads, widget
<1>3. /\ thread_list[c] # "none" /\ AsioTyped' /\ UNCHANGED ios_work
      /\ \A d \in Cores : d # c => thread_list'[d] = thread_list[d]
      /\ (ios = "runnable" /\ ios_work = "held") =>
           /\ ios' = "runnable" /\ thread_list'[c] \in {"started", "running"}
  BY <1>1 DEF WindowInv, AsioTyped, IoThread, Run, RunReturns
<1>4. ~NoThreads
  BY <1>3 DEF NoThreads
<1>5. CASE Closed
  BY <1>2, <1>3, <1>5 DEF WindowInv, Closed, EndOf
<1>6. CASE Up
  <2>1. Connecting' /\ Rest' = Rest /\ Rest \in Nat
    BY <1>2, <1>6 DEF Up, Connecting, EndOf, Rest
  <2>2. Rest <= 2
    BY <1>4, <1>6, <2>1 DEF Up
  <2>3. Up'
    BY <1>2, <1>3, <1>6, <2>1, <2>2 DEF Up
  <2> QED
    BY <1>2, <1>3, <1>6, <2>3 DEF WindowInv, Closed, EndOf
<1>7. CASE Down
  <2>1. Disconnecting' /\ Rest' = Rest /\ Rest \in Nat
    BY <1>2, <1>7 DEF Down, Disconnecting, EndOf, Rest
  <2>2. Down'
    BY <1>2, <1>4, <1>7, <2>1 DEF Down
  <2> QED
    BY <1>2, <1>3, <1>7, <2>2 DEF WindowInv, Closed, EndOf
<1> QED
  BY <1>5, <1>6, <1>7 DEF WindowInv

\* A handler begins with all of its calls ahead.
LEMMA WholeEnds ==
    ASSUME NEW h \in Seq(CallNames)
    PROVE  EndOf(h, h) /\ EndOf(h, <<>>)
  BY DEF EndOf

LEMMA CloseWindowKeeps ==
    ASSUME WindowInv, CloseWindow
    PROVE  WindowInv'
<1>1. process = "running" /\ calls' = Destructors /\ window' = "closed"
      /\ UNCHANGED <<sender, process, asio>>
  BY DEF CloseWindow, InEventLoop
<1> QED
  BY <1>1, WholeEnds, DestructorsAre DEF WindowInv, Closed, AsioTyped, asio

LEMMA ClickKeeps ==
    ASSUME WindowInv, NEW b \in Buttons, Click(b)
    PROVE  WindowInv'
<1>1. /\ calls = <<>> /\ window = "open" /\ process = "running" /\ b \notin disabled
      /\ checked' = IF b \in checked THEN checked \ {b} ELSE checked \cup {b}
      /\ calls' = IF b \in checked THEN Disconnect ELSE Connect(b)
      /\ sender' = b
      /\ UNCHANGED <<disabled, window, proxy, client_server, websocket_server, process, asio>>
  BY DEF Click, InEventLoop
<1>2. Rest = 0 /\ sender \in Buttons
  BY <1>1 DEF Rest, WindowInv
<1>3. Len(Connect(sender)) \in {7, 8} /\ Len(Connect(b)) \in {7, 8} /\ Len(Disconnect) = 8
  BY <1>2, ConnectIs, DisconnectIs
<1>4. CASE Up
  <2>1. checked = {sender} /\ disabled = {Other(sender)}
    BY <1>2, <1>3, <1>4 DEF Up, Connecting
  <2>2. b = sender
    BY <1>1, <1>2, <2>1, OtherButton DEF Buttons
  <2>3. checked' = {} /\ calls' = Disconnect /\ Rest' = 8
    BY <1>1, <1>3, <2>1, <2>2 DEF Rest
  <2>4. Disconnecting'
    BY <1>1, <2>1, <2>2, <2>3, DisconnectIs, WholeEnds DEF Disconnecting
  <2>5. Down'
    BY <2>3, <2>4 DEF Down
  <2> QED
    BY <1>1, <2>5 DEF WindowInv, AsioTyped, asio
<1>5. CASE Down
  <2>1. checked = {} /\ disabled = {} /\ proxy # "on"
        /\ client_server = "none" /\ websocket_server = "none" /\ NoThreads
    BY <1>2, <1>5 DEF Down, Disconnecting
  <2>2. checked' = {b} /\ calls' = Connect(b) /\ Rest' = Len(Connect(b))
    BY <1>1, <2>1 DEF Rest
  <2>3. EndOf(Connect(sender'), calls') /\ Rest' = Len(Connect(sender'))
    BY <1>1, <2>2, ConnectIs, WholeEnds
  <2>4. ~(Rest' < Len(Connect(sender')))
    BY <1>1, <1>3, <2>3
  <2>5. Connecting'
    BY <1>1, <2>1, <2>2, <2>3, <2>4 DEF Connecting
  <2>6. Rest' = 7 \/ Rest' = 8
    BY <1>3, <2>2
  <2>7. Up'
    BY <1>1, <2>1, <2>5, <2>6 DEF Up, NoThreads, asio
  <2> QED
    BY <1>1, <2>7 DEF WindowInv, AsioTyped, asio
<1>6. ~Closed
  BY <1>1 DEF Closed
<1> QED
  BY <1>4, <1>5, <1>6 DEF WindowInv

LEMMA NextKeepsWindowInv ==
    ASSUME WindowInv, [WindowNext]_windowVars
    PROVE  WindowInv'
<1>1. CASE UIThread
  BY <1>1, SetDisabledKeeps, SetProxyKeeps, AsioCallKeeps, StartServerKeeps,
     StartWebsocketKeeps, CloseServersKeeps, JoinServersKeeps, LeaveKeeps DEF UIThread
<1>2. CASE UNCHANGED windowVars
  BY <1>2 DEF windowVars, widget, asio, WindowInv, Closed, Up, Down, Connecting, Disconnecting,
     EndOf, Rest, NoThreads, AsioTyped
<1> QED
  BY <1>1, <1>2, IoThreadsKeep, ThreadsKeep, CloseWindowKeeps, ClickKeeps DEF WindowNext

LEMMA InitWindowInv == WindowInit => WindowInv
<1> SUFFICES ASSUME WindowInit
             PROVE  WindowInv
  OBVIOUS
<1>1. Rest = 0 /\ EndOf(Disconnect, calls)
  BY WholeEnds, DisconnectIs DEF WindowInit, Rest
<1> QED
  BY <1>1 DEF WindowInit, AsioInit, WindowInv, AsioTyped, Buttons, Down, Disconnecting, NoThreads

-----------------------------------------------------------------------------

\* Whatever the user clicks and whatever fails, the calls ahead of the UI thread say
\* what runs, what is joined and which button is locked (widget_main.cpp:28-82).
THEOREM WindowInvariance == SafeSpec => []WindowInv
<1>1. SafeSpec => WindowInit /\ [][WindowNext]_windowVars
  BY DEF SafeSpec
<1> QED
  BY <1>1, InitWindowInv, NextKeepsWindowInv, PTL

\* No order of clicks assigns a thread that is joinable.
THEOREM ProcessGoesOn == SafeSpec => []NeverTerminated
<1>1. WindowInv => NeverTerminated
  BY DEF WindowInv, Closed, NeverTerminated
<1> QED
  BY <1>1, WindowInvariance, PTL

\* The system's proxy is on in the second mode only.
THEOREM ProxyFollowsMode == SafeSpec => []ProxyOnlyInItsMode
<1>1. WindowInv => ProxyOnlyInItsMode
  BY DEF WindowInv, Closed, Up, Down, Connecting, Disconnecting, Rest, ProxyOnlyInItsMode
<1> QED
  BY <1>1, WindowInvariance, PTL

\* Between two clicks everything runs, on every thread, or nothing does.
THEOREM ThreadsAreThoseOfTheMode == SafeSpec => []ThreadsFollowButtons
<1>1. ASSUME WindowInv
      PROVE  ThreadsFollowButtons
  <2> SUFFICES ASSUME InEventLoop
               PROVE  IF checked = {}
                      THEN /\ {client_server, websocket_server} = {"none"}
                           /\ \A c \in Cores : thread_list[c] = "none"
                      ELSE /\ ios = "runnable"
                           /\ \A c \in Cores : thread_list[c] \in {"started", "running"}
    BY DEF ThreadsFollowButtons
  <2>1. Rest = 0 /\ (Up \/ Down)
    BY <1>1 DEF InEventLoop, WindowInv, Closed, Rest
  <2>2. CASE Up
    BY <2>1, <2>2 DEF Up, Connecting
  <2>3. CASE Down
    BY <2>1, <2>3 DEF Down, Disconnecting, NoThreads
  <2> QED
    BY <2>1, <2>2, <2>3
<1> QED
  BY <1>1, WindowInvariance, PTL
================================================================================
