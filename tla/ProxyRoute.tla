------------------------------ MODULE ProxyRoute ------------------------------
(***************************************************************************)
(* What becomes of a browser's first request.  With auto_proxy the client  *)
(* (net_lib/client_socket_item.cpp, SocketThreadFunc) takes the host out   *)
(* of the request line to choose between the remote server and the one on  *)
(* its own machine; the server it is tunnelled to (net_lib/                *)
(* server_socket_item.cpp, Decode) takes it out again, in its own way, and *)
(* dials it.                                                               *)
(*                                                                         *)
(* Text is a sequence of tokens: words and the separators ":", "/", ".".   *)
(***************************************************************************)
EXTENDS Integers, SequencesExt

CONSTANTS
    pac_list,       \* the domains that need the remote (net_lib/pac.h)
    Hosts, Ports, Paths,    \* bounds: what the requests are made of
    NoText          \* no port, or no target in the request line

Separators == {":", "/"}

\* A host and a port hold no separator, and a path is none or begins with one.
TextsAssumption ==
    /\ Hosts \cup Paths \cup pac_list \subseteq Seq(STRING) /\ Ports \subseteq STRING \ Separators
    /\ \A host \in Hosts : \A k \in DOMAIN host : host[k] \notin Separators
    /\ \A path \in Paths : path # <<>> => path[1] = "/"

Schemes == <<"http", "https", "ws", "wss">>

\* "http://" and so on.
Prefix(scheme) == <<scheme, ":", "/", "/">>

\* A request as the browser means it; a scheme of 0 is none, as in CONNECT.
Request == [scheme : 0..Len(Schemes), host : Hosts, port : Ports \cup {NoText}, path : Paths]

TargetOf(r) ==
    (IF r.scheme = 0 THEN <<>> ELSE Prefix(Schemes[r.scheme]))
    \o r.host \o (IF r.port = NoText THEN <<>> ELSE <<":", r.port>>) \o r.path

-----------------------------------------------------------------------------
(* The string operations of boost *)

erase_first(s, t) == ReplaceFirstSubSeq(<<>>, s, t)

erase_last(s, t) == Reverse(erase_first(Reverse(s), Reverse(t)))

\* The part of t before the first c, and the part after it.
Before(t, c) == IF Contains(t, c) THEN SubSeq(t, 1, SelectInSeq(t, LAMBDA x : x = c) - 1) ELSE t

After(t, c) ==
    IF Contains(t, c) THEN SubSeq(t, SelectInSeq(t, LAMBDA x : x = c) + 1, Len(t)) ELSE <<>>

-----------------------------------------------------------------------------
(* The client: prefixes are erased from the front. *)

ClientHost(target) ==
    LET bare == FoldLeft(LAMBDA t, s : erase_first(Prefix(s), t), target, Schemes)
    IN  Before(Before(bare, "/"), ":")

Dots(host) == {k \in DOMAIN host : host[k] = "."}

\* host_list[size-2] + "." + host_list[size-1]
LastTwoLabels(host) ==
    LET cuts == {k \in Dots(host) : \E d \in Dots(host) : k < d}
    IN  SubSeq(host, 1 + Max(cuts \cup {0}), Len(host))

Route(target) ==
    LET host == ClientHost(target)
    IN  IF Dots(host) = {} THEN "error"
        ELSE IF LastTwoLabels(host) \in pac_list THEN "remote" ELSE "direct"

-----------------------------------------------------------------------------
(* The server: prefixes are erased from the end, and the port is 80 unless *)
(* the target has one.                                                     *)

\* Mutant: the path is not cut off.
ServerTarget_WithPath(target) ==
    FoldLeft(LAMBDA t, s : erase_last(Prefix(s), t), target, Schemes)

ServerTarget(target) ==
    Before(FoldLeft(LAMBDA t, s : erase_last(Prefix(s), t), target, Schemes), "/")

Dialled(target) ==
    LET bare == ServerTarget(target)
    IN  [host |-> Before(bare, ":"),
         port |-> IF Contains(bare, ":") THEN Before(After(bare, ":"), ":") ELSE <<"80">>]

-----------------------------------------------------------------------------

VARIABLES
    request,        \* what the browser asks for; NoText is a line with no target
    auto_proxy,
    route,          \* "none" yet, "remote", "direct" to this machine, "error"
    dialled         \* the target the server dials

vars == <<request, auto_proxy, route, dialled>>

Nothing == [host |-> <<>>, port |-> <<>>]

Init ==
    /\ request \in Request \cup {NoText}
    /\ auto_proxy \in BOOLEAN
    /\ route = "none" /\ dialled = Nothing

\* Without auto_proxy the client reads no request, and everything is remote.
SocketThreadFunc ==
    /\ route = "none"
    /\ route' = IF ~auto_proxy THEN "remote"
                ELSE IF request = NoText THEN "error"
                ELSE Route(TargetOf(request))
    /\ UNCHANGED <<request, auto_proxy, dialled>>

\* A line with no target is thrown.
Decode ==
    /\ route \in {"remote", "direct"} /\ dialled = Nothing
    /\ request # NoText
    /\ dialled' = Dialled(TargetOf(request))
    /\ UNCHANGED <<request, auto_proxy, route>>

Next == SocketThreadFunc \/ Decode

Spec == Init /\ [][Next]_vars

-----------------------------------------------------------------------------

\* The host is in the domain, or is the domain.
Within(host, domain) == IsSuffix(domain, host) /\
    (host = domain \/ host[Len(host) - Len(domain)] = ".")

\* The prefix that the target begins with comes again in its path.
NamesItselfAgain(r) == r.scheme # 0 /\ Schemes[r.scheme] \in ToSet(r.path)

\* The server dials the host and port of the request the client routed, though
\* the two take the target apart differently (client_socket_item.cpp:75-84
\* against server_socket_item.cpp:221-236); a URL whose path holds another URL
\* of its own scheme is the exception, for the server erases the inner prefix.
DialsWhatWasAsked ==
    dialled # Nothing /\ ~NamesItselfAgain(request) =>
        /\ dialled.host = request.host
        /\ dialled.port = IF request.port = NoText THEN <<"80">> ELSE <<request.port>>

\* With auto_proxy a request is tunnelled if and only if its host lies in a
\* domain of two labels of the list, whatever its scheme, port, path or depth
\* (client_socket_item.cpp:75-93).
RoutedByDomain ==
    auto_proxy /\ route \in {"remote", "direct"} =>
        (route = "remote" <=> \E domain \in pac_list :
            Cardinality(Dots(domain)) = 1 /\ Within(request.host, domain))

\* "Is the domain in pac" (client_socket_item.cpp:64): a host in a domain of
\* the list, which has domains of three labels (pac.h:4), is not asked directly.
PacIsTunnelled ==
    auto_proxy /\ route = "direct" =>
        \A domain \in pac_list : ~Within(request.host, domain)
=============================================================================
