# TLA+ models of b-proxy

b-proxy is an HTTP proxy in two halves. A Qt client on Windows runs a local
proxy server (port 1011); each browser connection it accepts is tunnelled,
AES-encrypted, over a websocket to a remote server on Linux, which parses the
first request, connects to the target and relays. The client also runs the
remote half on its own machine (port 1012), for hosts that need no proxy.

This directory holds the TLA+ modules that model the program's own logic, the
TLC configurations that check them on small instances, and proofs that TLAPS
checks for instances of any size. Paths below are relative to the repository.

Contents: [the system](#the-system) ·
[what is hard](#what-is-hard-about-it) ·
[the modules](#the-modules) ·
[module and code](#module-and-code) ·
[the runs](#the-runs) ·
[bounds](#bounds) ·
[fairness](#fairness) ·
[the proofs](#the-proofs) ·
[what the models say of the code](#what-the-models-say-of-the-code) ·
[not modelled](#not-modelled) ·
[the plan](#the-plan)

## The system

| component | code | state it keeps | operations | talks to |
|---|---|---|---|---|
| client connection | `net_lib/client_socket_item` | browser socket, websocket, two threads, `on_error`, `close_mutex`, `readed` | constructor, `SetOnErrorCallBack`, `SocketThreadFunc`, `WebSocketThreadFunc`, `SendError`, `Clear` | the browser; the remote or the local websocket server; its owner, through `on_error` on a detached thread |
| client server | `net_lib/client_server` | acceptor, accept thread, `socket_list` and its mutex | `StartServer`, `StopServer`, `ThreadFunc`, `OnError` | makes, owns and clears client connections; driven by the window |
| server connection | `net_lib/server_socket_item` | websocket, target socket, two threads, `on_error`, `mutex`, `b_first`, `readed` | `StartWithAccept`, `Accept`, `WebsocketReadFunc`, `Decode`, `SocketReadFunc`, `WebsocketWrite`, `SendError`, `Clear` | the client connection; the target; its owner, as above |
| websocket server | `net_lib/websocket_server` | acceptor, accept thread, `websocket_map` and its mutex | `StartServer`, `StopServer`, `ThreadFunc`, `OnClientError` | makes, owns and clears server connections; driven by the window, or by `server/main.cpp`, which never stops it |
| framing | `crypto_tools/key_tools`, `crypto_tools/aes/aes.cpp` | none | `AesEncode`, `AesDecode`; CBC with padding | both connections, once per websocket message |
| routing | `client_socket_item.cpp:64-93`, `pac.h`, `server_socket_item.cpp:195-240` | none | which server a request is tunnelled to; which target is dialled | both connections, once per connection |
| io_service | `asio_manager` | the io_service, its work guard, its threads | `StartThreads`, `StopThreads`, `ThreadFunc` | the window |
| window | `client/widget_main`, `client/proxy` | two toggle buttons, the registry's proxy setting | the two clicks, closing | starts and stops both servers and the io_service |
| server process | `server/main.cpp` | none | start, sleep for ever | the websocket server |
| block cipher | `crypto_tools/aes/ctaes.c` | a schedule of round keys | key schedule, encryption and decryption of a block | framing |
| signatures and keys | `crypto_tools/secp256k1` (vendored) | contexts with their tables and blinding; scratch spaces | field, scalar and point arithmetic, multiples of points, hashes, nonces, signatures, keys, shared secrets | `key_tools`, whose functions have no caller |
| log, configuration class, request script | `log`, `client/config`, `python3` | | | see [not modelled](#not-modelled) |

What makes each of them correct:

- **client connection**: a `Clear`, by whichever thread, ends both threads and
  leaves both sockets closed for good; the last `shared_ptr` never goes on a
  thread of the item while there is something left to join.
- **client server**: a connection whose error is reported is cleared and leaves
  `socket_list`; `StopServer` returns, and then nothing runs.
- **server connection**: whatever `Clear` leaves behind because `Decode` was
  dialling meanwhile is cleared by a later report; the item outlives the thread
  that runs on its bare `this`.
- **websocket server**: as the client server; and `StopServer`, which holds the
  map's mutex over every `Clear`, does not deadlock with `OnClientError`.
- **framing**: what comes out is what went in, for every length; nothing but a
  frame of `AesEncode` is taken for a message.
- **routing**: both ends take the same host out of the request line, though each
  in its own way; the choice depends on the host alone.
- **relaying**: in each direction the two connections together are a byte
  channel: in order, each byte once, all of them in the end.
- **closing**: an end of a relayed connection that closes takes the rest down
  with it, and what was sent before arrives, whole and in order, unless the code
  really gives it up.
- **block cipher**: decryption undoes encryption, and both are the standard's AES.
- **signatures and keys**: no limb, accumulator or magnitude overflows where
  nothing checks; the formulas are right in their special cases; what is signed
  is accepted, and what is accepted is what the standard accepts; the halves of a
  pair of keys stay a pair.
- **window**: no order of clicks assigns a running thread, leaves the system's
  proxy on, or leaves something running behind two buttons that are up.

## What is hard about it

All of the network code is blocking calls on threads. A connection has two
threads and, for each error, a detached one; a server has an accept thread; the
UI thread starts and stops everything. So the hard part is the *end* of
things: `Clear` runs on any of these threads, closes sockets that other threads
are blocked on or are just dialling, and joins threads that report errors whose
handlers want the mutex `Clear` holds. The start is hard as well: each item's
thread runs before the item is owned, has its callback, has its thread member
assigned, or is in its owner's list.

The arithmetic is hard in another way. The block cipher and the elliptic curve
are written on bit slices and unreduced limbs, with bounds that comments promise
and nothing in a release build checks. Their special cases (a sum that is
infinite, an x above the order, a carry out of the third word) have next to no
chance to be met by a test at the real size. On a small curve, or with small
limbs, they happen all the time.

`PROJECT.json` lists each such place with its line, under `hazards`, and names
the properties that would notice. Two of them have no property: the websocket stream that
two threads use at once, and a thread that cannot be made. Their notes say why.

## The modules

    ConnectionService   what the owner of a server counts on           (abstract)
      ^ implemented by
    ClientServer        the client's local server
      extends ClientSocketItem      one connection's threads, sockets and Clear
      ClientServerProofs            its invariant; Clear, destructor, StopServer,
                                    the set-up, that it implements ConnectionService,
                                    and what outlives it

    ServerEnd           the client server's destructor, and what outlives it
      extends ClientServer

    WebsocketServer     the tunnel's server, on Linux and on Windows
      extends ServerSocketItem      one connection's threads, sockets and Clear
      WebsocketServerProofs         theorems about all of its safety

    ByteChannel         what either end sees of the tunnel             (abstract)
      ^ implemented twice by
    Tunnel              the bytes of one connection, through both items

    ClosingTunnel       the same connection while its ends close
      ClosingTunnelProofs           that nothing is skipped, and who gets all of it

    AesCbc              one websocket message: padding and CBC
    Aes                 the block cipher under it
    ProxyRoute          the first request: routed by one end, dialled by the other

    WidgetMain          the window's handlers, call by call
      extends AsioManager           the io_service and its threads
      ProxyProofs                   that no order of clicks goes wrong, and that each
                                    step of Tunnel is a step of ByteChannel

The vendored library, from its words up:

    Field10x26   limbs of a field element        FieldChains  inverses, square root
    Scalar8x32   limbs of a scalar
    Points       the curve, and the formulas     Group        operations in a row
    SignedDigits what recodings give             Wnaf         their loops
    Generator    (extends Points, SignedDigits)  points by their logarithms
      EcmultGen        multiples of the generator; contexts and their tables
      OddMultiples     the tables that the next two share
        Strauss        sums of multiples
        Ecdh           the multiplication in constant time, and the secret
      Pippenger        sums of many multiples
      Ecdsa            signing and verifying
      EcKeys           pairs of keys
    MultiMul     batches and their memory, for Strauss and Pippenger
      CryptoToolsProofs  that every batch fits, and the memory is given back; and of
                         AesCbc, that a message comes out as it went in
    PointsProofs   that the formulas of Points are the chord-and-tangent law, and
                   how multiples add up
    Der          signatures as bytes
    Sha256       the rounds of the hash          Hashing      messages, HMAC, nonces

Three modules give parts that share no state one run each: a behaviour of the run is
one of the part that `part` names, with the variables x1, x2, ... for its own.

    Bytes        ProxyRoute, AesCbc, Aes, Sha256, Hashing, Der,
                 Field10x26, Scalar8x32, FieldChains, MultiMul
    Curve        Group, Strauss, Pippenger, Ecdsa, EcKeys       (p = 43, n = 31)
    Multiples    Wnaf, EcmultGen, Ecdh                          (p = 31, n = 43)
    BytesProofs  proofs about Bytes: that both ends read a request alike, and that
                 what CryptoToolsProofs proves holds of the run
    CurveProofs  proofs about Curve: that every behaviour of Group follows the law,
                 and that signatures are those of the standard

They INSTANCE each part WITH its bounds, and their properties are the parts' own,
gathered: `SignaturesVerify` is `SignedIsAccepted` and `VerifyIsEcdsa` of `Ecdsa`.
`MCClientServer` and `MCWebsocketServer` add symmetry and a bound to their
namesakes. The other modules are run as they are; each `.cfg` gives the constants
their values.

A server and its connections are one system of interleaved threads, so the
server's module EXTENDS the connection's and its `Next` has the steps of every
thread. The tunnel, by contrast, is about bytes and composes the connections of
the two sides while nobody closes; the servers' modules leave the bytes out and
let every read and write succeed or throw. `ClosingTunnel` is in between: it has whole chunks, and the sockets,
threads and `Clear` of both relays, so that the closing of one hop meets the bytes
of another. The message format is checked once, in `AesCbc`, and `Tunnel` uses
what is checked there.

The library's modules are layered by what they leave open. `Field10x26` and
`Scalar8x32` show that limbs stand for their numbers as long as the callers keep
the magnitudes. `Points` therefore computes with the number, its magnitude and
whether it is normalized; an element whose operands broke the rules is `Broken`
from then on, which the properties of the modules above would see. `Ecdsa` and
`EcKeys` take a multiple of a point as `EcmultGen` and `Strauss` show it:
right, on whatever z. `Hashing` takes the compression as any function of a state
and a block; `Sha256` has the one the library uses.

## Module and code

`PROJECT.json`'s `map` gives each definition its lines. How state and steps
correspond:

**ClientSocketItem / ClientServer.** `items[i]` is one `ClientSocketItem`:
`open` its two sockets, `socket_thread` and `websocket_thread` where the two
thread functions are (the next blocking call, or `error` ahead of `SendError`),
`joinable` the thread members that hold a thread, `set_up` how far `ThreadFunc`
of the server has got with it, `close_mutex` who is inside `Clear` and `clear`
where. `reports` and `erasing` are the detached threads of `SendError` before
and after their `Clear`. A step is one blocking call, or the code between two
points where another thread can be told apart. Two things are kept that C++
leaves undefined: `on_error` is written without a lock while `SendError` reads
it (`assigning`: seen empty, seen set, or a fault), and `StopServer` iterates
over `socket_list` without the mutex under which `OnError` erases from it
(`StopAdvance`, `StopStumbles`: when the node it leaves is gone, the node it
reads is being erased, or an erase turns the tree meanwhile, the loop goes on
anywhere, ends, or faults; `undefined` remembers). `fate` is a
history variable: `raced` when an error fell between two steps of the set-up,
`terminated` when an exception left a thread.

**ServerSocketItem / WebsocketServer.** The same shape. `adopted` says whether
the member `websocket` is the accepted one or the constructor's placeholder,
which is what a `Clear` closes before `Accept` runs (`server_socket_item.cpp:52`).
`Dial` puts the target's socket back to open even when `Clear` closed it just
before (`:240`). The websocket thread runs on a bare `this` (`:104`), so it does
not count in `Referenced`, and `Destruct` is what happens when the last reference
goes while it runs. `platform` tells the two deployments apart: Windows
enables `StopServer`, which only the client calls, and decides whether closing
a socket ends another thread's blocked call on it.

**Tunnel.** The six connections between browser, client, server and target are
sequences of bounded length; the four threads each have the chunk they have read
and not yet written. Bytes of the browser are numbered upwards, bytes of the
target downwards, 0 is the reply to a CONNECT.

**ClosingTunnel.** Two relays in a row. A connection has the chunks under way each
way, the ends that are open, those that said they send no more (`shut`), and
whether it was reset: what comes for a closed end makes the peer lose what it has
not yet read. Each relay has its two threads, the reports of `SendError`, and
`Clear` step by step; `Outer` names the socket that is closed first, the browser's
or the target's. `Linux` is the set of relays whose close does not end a blocked
call: the close then takes effect when the call returns (`late`). The handshake, the
dial and the parsing of the header are behind (`Tunnel`, `ServerSocketItem`).

**ServerEnd.** `ClientServer` with a lifetime: the destructor's `StopServer`, the
end of the list, and then whatever still runs. `late` is the OnError threads that
have passed their `Clear` and want a mutex and a list that are gone.

**AesCbc.** `AesEncode` and `AesDecode` as the two ends use them: nobody looks at
the result, so the zeros that `AesEncode` leaves for an empty message are sent,
and `AesDecode` must make nothing of them. The block cipher is a parameter of
which only `CipherAssumption` is used: decryption undoes encryption. That is
`DecryptUndoesEncrypt` of `Aes`.

**Aes.** A state is the set of the bits of the eight slices that are 1, so that the
code's shifts and masks of slices are operations on sets of cells. The circuit of
the S-box is replaced by the table it computes, which `SBoxAssumption` ties to its
definition (an inverse in GF(2^8) and an affine map).

**ProxyRoute.** Text is a sequence of tokens, so that `erase_first` and
`erase_last`, `find` and `split` are what they are on strings, and `://` in a
path can be mistaken for a scheme exactly where the code does.

**AsioManager / WidgetMain.** A handler is the sequence of the calls it makes,
in order, and each call is a step, since the accept threads and the io_service's
thread run in between. The two servers are reduced to their accept threads here.

**Field10x26, Scalar8x32.** Every limb and every accumulator of the code, in words
that wrap; number and width of the limbs are constants. **FieldChains** runs the
three chains at full size, on exponents.

**Points, Group.** The formulas of `group_impl.h`, line by line, with the
normalizations and magnitudes. Infinity is the flag, and the coordinates behind
it are whatever they were. `Group` does operations in a row on one point and keeps
beside it the point that the chord-and-tangent law gives (`Plus`).

**SignedDigits, Wnaf.** The three recodings as functions and as loops; the loop is
checked turn by turn, the function is what the multiplications use.

**OddMultiples, Strauss, Ecdh, Pippenger, EcmultGen.** The loops over digits, each
turn a step, on the points of `Points`. A context of `EcmultGen` has its table's
address, its blinding and its initial point; the calls are those of `secp256k1.c`
that create, clone, randomize and destroy it.

**MultiMul.** Calls of `secp256k1_ecmult_multi_var` at the real sizes of a 64-bit
build. A sum is the ranges of points that went into it; a scratch space is its
stack of frames, each with its size, what of it is given out, and how many
objects found no room. The callback may give up at any point and malloc at any
frame.

**Ecdsa, EcKeys, Der.** The public calls with their early returns, the loop over
nonces, the failures that leave zeros; in `Der` the parser byte by byte with the
bytes behind its buffer, so that a read too far is seen.

**Sha256, Hashing.** The rounds at full size, a word as the set of its bits; the
streaming, HMAC and nonces over any compression.

## The runs

| run | instance | distinct states | question |
|---|---|---|---|
| `client_safety` | ClientServer, 2 connections | 318,000 | is `Clear` complete, are dead items reaped, does a stop leave nothing; what can the start-up races break, and what not; does all this implement `ConnectionService` |
| `client_liveness` | ServerEnd, 1 connection | 6,400 | do stops, the destructor and every reported error come to their end; what still runs when the server has been destroyed |
| `client_stop_early` | ClientServer, 1 connection | | does "click to disconnect" always disconnect (it does not) |
| `server_safety` | WebsocketServer on Windows, 2 connections, one of which dials | 1,260,000 | the same of the server's end, and that what a half-way `Clear` leaves is cleared |
| `server_liveness` | WebsocketServer on Windows and on Linux, 1 connection | 38,000 | does every error end its connection, also where a local close wakes nobody; does a stop end |
| `tunnel` | Tunnel | 48,000 | is each direction a byte channel |
| `closing` | ClosingTunnel, the server on Windows and on Linux | 255,000 | what arrives when an end closes; does the closing reach the browser; does everything end when both ends have |
| `window` | WidgetMain, 2 cores | 1,600 | every order of clicks and of accept threads that fail |
| `bytes` | Bytes | 350,000 | do both ends read a request alike; messages to frames and back; cipher, hashes and encoding against their standards; limbs against numbers, four operations in a row; does every batch fit, and is its memory given back |
| `routing_pac` | Bytes, the routing part | | is every domain of the list tunnelled (it is not) |
| `curve` | Curve | 70,000 | formulas and special cases against the law; sums of multiples by both algorithms; what is accepted of what is signed; do the halves of a key stay a pair |
| `multiples` | Multiples | 4,300 | do digits stand for the scalar; is a context right and blinded after any life; is a secret right, infinity never met |

What each property says is in the comment above it. Those that show the most:

- `ClearLeavesNothing` and `LeftoverIsReported` are the two answers to the same
  question. The client joins the socket thread *before* it closes the websocket
  that this thread may be dialling, and its `Clear` is complete. The server's
  joins the socket thread before the websocket thread that may be about to start
  one, and its `Clear` is not complete; what saves it is that the websocket
  thread always reports once more when it ends.
- `StrandedOnlyByStartupRace` and `CrashOnlyDuringSetup` draw the line around
  the start-up races: they lose a connection's error or end the process, but
  only between two particular lines of the accept thread.
- `Promise` says the whole of the client server, threads and locks and all, is a
  simple service: connections open only while it serves, end once, and have all
  ended when it stops. Once the loop of `StopServer` has read an
  erased node (`undefined`) the service counts as serving, since nothing can
  be promised of that loop.
- `StopTerminates` (both servers) is freedom from deadlock: `Clear` holds a mutex
  over two joins of threads whose error handlers want it, and the websocket
  server another one around that. They do not deadlock because `SendError` hands
  over to a detached thread, which nobody joins.
- `ReachesTarget` and `ReachesBrowser` are refinements with liveness: besides
  loss, duplication and order they exclude that the four threads, with every
  buffer full, wait for each other.

- `WholeMessages` says what a user sees of the closing: an answer that ends is whole.
  A thread meets the end of one hop only behind the last chunk, and it has written
  that chunk to the next hop when it reads on. The exceptions in it are where a
  close finds something unread, which makes TCP give up what was sent.
- `OnlyErrorsOutliveTheServer` bounds what may touch a destroyed server: an OnError
  thread, for its mutex and its erase, and nothing else.
- `NumbersAreExact` has the promises that the library's comments make to each other
  and that only its VERIFY build looks at: no limb, accumulator or carry is lost.
- `PointsFollowTheLaw`, `SignaturesVerify` and `SecretMultiples` are about cases that
  no test at the real size meets: equal, opposite and infinite points, an x above the
  order, a scalar of minus one.
- `BatchesFit` is what the comment at `ecmult_impl.h:1048` promises: fewer
  points than the most also fit, though they take another window and other
  amounts of memory; and that a failure in the middle gives the memory back.

CHECK_DEADLOCK is off: in every run a state without a successor is legitimate. The
process may have been terminated (client and server), the window closed, the finite
input of the bounded connections used up (tunnel, closing), the computation done
(the library). That nobody waits for ever who should not is what the liveness
properties say instead.

## Bounds

- **Connections.** Two in the safety runs. A connection meets others only in its
  owner's list, the owner's accept thread and the loop of `StopServer`: two are
  enough for one to be under construction or reported while the loop is at the
  other. A connection that has ended is not accepted again; starting and stopping
  is not bounded. One in the liveness runs, where the interference
  is between the threads of one connection and the owner.
- **`OneRequest`** (`MCWebsocketServer`): of the two connections of
  `server_safety` one completes its request and dials; the other lives and ends in
  the states before that. It keeps the run to a minute; the
  pairs it cuts off are two connections past their dial, which share
  nothing but the list. One connection with everything is in `server_liveness`.
- **Tunnel**: a header of 2 bytes, 5 bytes up and 3 down, buffers and reads of 2.
  The header can come in one piece or two, with or without bytes of the body
  behind it, and each direction has more bytes than any two of its buffers hold,
  so that writes do wait.
- **Framing**: blocks of 2 bytes of 2 bits; messages of 0 to 5 bytes (none, part
  of a block, one and two whole blocks, more) and every frame of 0 to 4 bytes.
  The padding sizes 1 and 2 and bytes that are no padding size (0, 3) all occur.
- **Routing**: hosts of one to four labels in and out of a list with one domain
  of two labels and one of three, with every scheme or none, port or none, and
  five paths, two of which contain another URL.
- **Closing**: one chunk up and two down, room for one in each connection and one in
  each thread's hands: a chunk can be lost or stuck at every hop, downwards with
  another behind it. The client is on Windows, the server on either
  (`Deployments`). `WholeMessages` speaks of Windows: on Linux the server's websocket
  stays open until a call on it returns, and its premises are hardly ever met.
- **Server's end**: one connection. With two, the loop of the stop may have read an
  erased node, and nothing can be said of what it leaves.
- **Block cipher, SHA-256, chains**: real size, a few inputs. A wrong shift, mask,
  order or count changes nearly every result, so that few inputs are enough; every
  entry of the S-box and every product of the mixing is compared with its
  definition.
- **Limbs**: the widths are scaled so that everything the real ones allow happens:
  words and accumulators have as much room as magnitude 32 and factors of
  magnitude 8 need, no more; the order's complement has one limb more than half
  of the limbs, its top limb 1. The relations are stated as assumptions of the
  modules. The scalars are all of those below the order, 235 in four limbs of 2 bits;
  the field elements come from limbs at every magnitude.
- **Curves**: of prime order, p and n chosen as the code requires them: p % 4 = 3
  for the root, p % 3 = 1, no point with y = 0, none with x = 0 where zeros
  stand for a key that failed; n below p for signatures, where an x above the order
  is then frequent, and above p where the windows must fill the bits. All pairs
  of points are added, among them equal and opposite ones and those that share y;
  logarithms and scalars next to 0, to half the order and to the order are
  always among the values.
- **Batches**: real sizes; scratch spaces at the border of one Strauss point, at the
  threshold between the algorithms and one byte below it, and between the needs of
  two windows; up to 625 points, the most of a window.
- **DER**: bytes of 5 bits, integers of 2 bytes; lengths and signs are at their
  borders, and any two bytes are lost, added or replaced.
- **Recodings**: every scalar below 43, in 6 bits, with windows of 2 to 5 bits.
- **Hashing**: blocks of 8 bytes, digests of 4, a compression to 16 bits; messages
  up to 45 bytes reach every position of the padding and two words of the size.
- **Window**: two cores, though `GetCoreCount` says 1, so that the list of
  threads is a list. Clicks are not bounded.

## Fairness

Safety runs use no fairness. The liveness runs assume, action by action:

- a thread that can go on goes on (WF): the operating system schedules it;
- a mutex or a turn at it that comes free again and again is got in the end (SF
  on the `Clear` of `OnError`/`OnClientError` and of `StopServer`);
- a dial and a name resolution end (WF): TCP and DNS time out;
- a blocked read or write ends once its socket is closed locally, *on Windows
  only*. On Linux `close` does not wake another thread's call on the
  descriptor, so nothing is assumed there;
- nothing of the user: no click ever has to come; no connection has to arrive;
- nothing of the peers. What the properties need of them they state as a
  premise. `PeersAnswer` (client): the other end of the websocket does not
  leave a handshake or a write unanswered for ever. `PeersAct` (server): the
  client and the target do not keep a call waiting for ever, and they end a
  connection that was put in place behind the back of a `Clear` (`Overtaken`);
  without that premise the server's stop really can wait for ever;
- in `Tunnel`, that the browser completes its header and both ends read;
- in `ClosingTunnel`, that both ends read while they are open, that TCP delivers a
  reset, and that the relays' threads and their `Clear` go on (WF); neither end has
  to send or to close;
- in `ServerEnd`, what `ClientServer` assumes, also for the threads that go on behind
  the destructor.

## The proofs

TLAPS checks these for every value of the constants. What is assumed of them is that
`NoItem` is not a connection, that `AutoProxy` is a Boolean, that `Platforms` names
only Windows and Linux; in `ProxyProofs`, that the sizes are numbers above 0 and the
header is part of what is sent; in `ClosingTunnelProofs`, that the
bounds are numbers, the capacity one above 0, and a deployment is a set of relays.
`ForwardedAsRead` states its own: a block has 1 to 2^bits - 1 bytes
and the iv is one, `^` on bytes undoes itself and does not mind the order, decryption
undoes encryption, and a block of zeros is not padded well under the key.
`BatchesFitTheSpace` assumes that sizes and counts are numbers, and that no frame of the
caller's is one of no bytes (`SizesAssumption`). The requests are those of
`TextsAssumption`: no host and no port has a `:` or a `/` in it, and a path is none or
begins with `/`. `Bytes` asks the same of its own requests, bytes and sizes
(`PartsAssumption`), which TLC evaluates.

The proofs about points are about every curve y^2 = x^3 + B modulo p for which `Points`
states two assumptions. `CurveAssumption` is what the code counts on without saying so:
p leaves 3 modulo 4, since a square root is taken as a power (`field_impl.h:39`);
p leaves 1 modulo 3 and -B is no cube, so that no point has y = 0 and doubling needs
no test for it (`group_impl.h:309-320`); B is at most 31, so that `mul_int` may take it as a factor
(`group_impl.h:286`). `PrimeAssumption` is Fermat's little theorem and its consequence for roots, in the
words of the code's powers: the one thing about primes that the proofs need and the prover
has no induction to prove. secp256k1's p = 2^256 - 2^32 - 977 is a prime with these
remainders, its B is 7 and -7 is no cube. TLC evaluates both assumptions for p = 43 and
p = 31.

About multiples `Generator` states three more. `GroupAssumption`: there are points, and sums with
the generator are associative, which no prover here shows of chords and tangents;
`GeneratorAssumption` and `OrderAssumption`: the generator's order is `Order`, modulo which
every number but 0 has an inverse. The points of secp256k1 are a group of prime order,
so all three hold, and TLC evaluates them for both small curves. `ScalarAssumption` says
how many bits the order has. Signatures need `SizesAssumption`, n < p < 2n as for
secp256k1, and `NonceAssumption`: no nonce that is drawn has a point whose x is 0 or n. The
code only asserts r # 0, as something to be checked before the call (`ecdsa_impl.h:284-286`), and
no caller checks it: no point of secp256k1 has the first x, and to meet the second is to
find its logarithm. Without the assumption the theorem would be false.

| module | theorem | says |
|---|---|---|
| `ClientServerProofs` | `Invariance` | the inductive invariant `IInv` holds of every behaviour |
| | `TypeCorrect` | `TypeOK` |
| | `ClearIsComplete` | `ClearLeavesNothing` |
| | `DestructorIsIdle` | `DestructorFindsNothing` |
| | `StopIsComplete` | `StopLeavesNothingRunning` |
| | `CrashIsOfTheSetUp` | `CrashOnlyDuringSetup` |
| | `ErrorsAreReaped` | `StrandedOnlyByStartupRace` |
| | `ServerImplementsService` | `Promise`: the server implements `ConnectionService` |
| | `OnlyErrorsAreLeft` | `OnlyErrorsOutliveTheServer` |
| `WebsocketServerProofs` | `Invariance` | its inductive invariant `IInv` |
| | `DestructorIsIdle` | `DestructorFindsNothing` |
| | `LeftoversAreReported` | `LeftoverIsReported` |
| | `ErrorsAreReaped` | `StrandedOnlyByStartupRace` |
| | `StopWaitsForWebSockets` | `StopEndsWebSockets` |
| `ProxyProofs` | `ProcessGoesOn` | `NeverTerminated` |
| | `ProxyFollowsMode` | `ProxyOnlyInItsMode` |
| | `ThreadsAreThoseOfTheMode` | `ThreadsFollowButtons` |
| | `UpwardsInOrder` | the safety of `ReachesTarget` |
| | `DownwardsInOrder` | the safety of `ReachesBrowser` |
| `ClosingTunnelProofs` | `Order` | the chunks under way are in order, up to where a way is cut off |
| | `NoneIsLeftOut` | `NoGap` |
| | `ArrivesWhole` | `WholeMessages` |
| `CryptoToolsProofs` | `ForwardedAsRead` | `RoundTrip` and `OnlyFramesAccepted`, the parts of `FramesMeanTheSame` |
| | `BatchesFitTheSpace` | the five parts of `BatchesFit` |
| `BytesProofs` | `ClientTakesTheHost` | the client's host is the request's, for any request |
| | `ServerDialsTheSame` | so are the server's host and port, `NamesItselfAgain` excepted |
| | `RouteIsByDomain` | the last two labels are a domain of two labels, for any list |
| | `RequestsTakenApart` | `RequestsMeanTheSame` |
| | `FramesOfTheRun` | `FramesMeanTheSame` |
| | `BatchesOfTheRun` | `BatchesFit` |
| `CurveProofs` | `PointsAreTheLaws` | `PointsFollowTheLaw` |
| | `SignaturesAreEcdsas` | `SignaturesVerify` |

**The client's server.** None of the properties is inductive. That nothing is left after
a `Clear` says nothing of the states inside it; `ItemInv` adds them: a thread that runs
is in its thread member (so that the joins of `Clear` see it), inside `Clear` the
browser socket is closed, and after the first join the socket thread has ended
and the websocket is closed, *so that nobody can start the websocket thread or
open the websocket any more*. That is the reason the client's order of close and
join works. `Listed` says where an item that lives can be found: in the list or
in the hands of the accept thread, which is why only a dead one loses its last
reference. `Ahead` says what the loop of `StopServer` has still to do: while it
has met no erased node, every item that lives is ahead of it. `ServerInv` ties
these to the accept thread, which has ended while the loop runs.

The proof follows that split. `ItemStep` is what every step does to the one item
it is about (it keeps the type and `ItemInv`, touches no other, revives
nothing); one lemma per action of `ClientSocketItem` establishes it, and
`QuietStep` and the lemmas `AcceptThreadKeepsIInv`, `UIThreadKeepsIInv` and
`EraseKeepsIInv` lift it to the server's variables.

**Its set-up.** `SetUpInv` says where the accept thread is for each state of the
set-up, and where the error of an item that ended is: on its way, or done with because
the item has left the list already, or `raced`. A thread that throws needs an item that
is unowned, or whose callback is being written, and the first four conjuncts keep
such an item in the hands of the accept thread.

**The service.** The mapping makes an item `open` when its socket thread exists and
`ended` when it is dead. `ItemStep` already says that a dead item stays dead; what is
left is that an item is made only while the server serves, and that
`StopLeavesNothingRunning` holds when `StopReturns` ends the serving.

**Its end.** `EndInv` is `IInv` as long as the server lives, and `Afterwards` when it
does not: every item is dead, and no step that is left changes that. `StopMutex` is
needed for the moment in between: no item is in the middle of a `Clear` of
`StopServer` when that has returned.

**The tunnel's server.** The client's `ItemInv` does not hold here, since the order of
the joins is the other way round. What does hold is about the error of the websocket
thread: until its report is cleared it is in `reports`, and a `Clear` that begins
afterwards finds everything that the thread left. `ListInv` says that a thread that
runs belongs to an item that is listed or with the accept thread, and `ServerInv` that
in the loop of the stop, which keeps the map's mutex, every item is ahead or `Over`.

**The window.** `Up` and `Down` follow a handler by what it has still to do: the
calls ahead are the end of `Connect` or of `Disconnect`, and how many they are says
what is started, joined, locked and set. Between two clicks none are.

**The tunnel's bytes.** Every connection and chunk holds the bytes between two places
of what was sent (`Part`), a connection of messages is cut at places of its own
(`Parts`), and each begins where the next one ends. The proof needs the one premise
of the code that no line states: before the reply the server has, of a CONNECT,
nothing but the header, since the browser waits, so that what `readed.clear()` drops
(`server_socket_item.cpp:251`) is the header and no more.

**The closing of a tunnel.** A way leads from its source through the first relay, the
websocket and the second relay to its sink, and `OrderInv` follows it backwards: the
chunks at the sink go on where those given end, the one in the second relay's hands where they
end, and so on. A place is exempt once what is there can no longer arrive, because
something nearer to the sink is broken or has stopped (`CutOff`, `CutOffBefore`): that
is why a failed write or a reset may lose chunks, but never one in the middle.

That an orderly end comes behind everything needs more, since it depends on the other
way too. `Chain` is what holds while a tunnel closes as it should: nothing is reset, no
chunk is missing, and each relay closes the next hop only when its own thread of this
way has failed at the end of what was sent and has nothing in hand. `Doomed` is how a way
can fall out of that: its sink has ended its own sending, or the other way has lost chunks
for good. Every step keeps `Chain(w) \/ Doomed(w)` of either way, but only of both
together: a chunk of the one way that meets a closed socket resets it, and with it the
other. On Linux no such thing holds, as a close leaves the blocked thread with the
socket (`late`), so the invariant has `Linux = {}` as its premise, as the property has.

**A message.** `Joined` and `Cut` relate the bytes to blocks, so that the loops of both
functions become sequences of blocks: `EncryptIs` and `DecryptIs` say what comes
out, and that there is a chain of any length is shown by counting up. One way round, a
block mixed with the one before it and encrypted comes back. The other way round
needs that encryption undoes decryption as well, which the code never says: it follows as there are finitely
many blocks (`CipherOnto`). The padding checked is the padding made, since its size
is what is missing to a whole number of blocks, one block if nothing is.

**The scratch space.** Six objects of a frame need at most 15 bytes more each than their
size, 90 in all, and a frame has 96 more than was asked for: that is why none is `NULL`.
That a batch fits is in `ChoiceInv`: it has at most the points that the batch size was
chosen for, and whoever chose them had room for so many. For Strauss fewer points need
less. Pippenger's last batch may take a smaller window than the full ones, and the window
with room for the most points need not be the one a full batch takes; but a window is
tried only when all smaller ones are full (`WindowTried`), so each window up to the one a
batch takes has room for as many points as take it (`MostPoints`, `PippengerFits`).
`BatchesInv` is the division that `batch_size_helper` makes: the batches that are done have
taken that many points each, and what is left fits the batches that are left and needs
them all. `SummedInv` says that the ranges of points so far go on where the one before
ends. In a batch there is one frame more than the caller's (`FramesInv`).

The folds of the community modules choose a function on the sets of places. `TakesLast`
says what it is, and that there is one for a sequence of any length.

**A request.** What the two ends cut the line with are searches over text of any length,
so each is first stated by what it finds: `EraseFirst` and `EraseLast` take out the first
and the last place where a prefix `Occurs`, or change nothing. `Looks` is what stays
true of the line while the four prefixes are erased: an own prefix or none, then host and
port, then a path. A prefix occurs at the very front or within the path
(`PlacesOfPrefix`), since host and port have no `/` and the port does not end with `:`. Erased
within the path it leaves a path, which is cut off anyway; erased at the front it is the
own one. The client erases the first occurrence, so its own prefix goes in its turn. The
server erases the last, and its own goes only if the path has none of the same scheme,
which is the exception in `DialsWhatWasAsked`. What is left is cut at the first `/` and at
the first `:` (`CutOff`). The last two labels are what is behind the last dot but one; a domain with
exactly one dot, in which the host lies, begins there (`OneDot`, `TwoLabels`).

**The parts of a run.** A behaviour of `Bytes` in one part is a behaviour of the module
it instantiates (`FrameSteps`, `BatchSteps`), and it stays in its part (`PartStays`). So
what `CryptoToolsProofs` proves for every value of the constants holds of
the values that the run gives them, once it is shown that both instances define the same
(`SameEncode`, `SameCall` and those between).

**Points.** `PointsFollowTheLaw` says of formulas what they compute, so the proof goes up
their layers. At the bottom are numbers modulo p, which the solvers cannot reduce by
themselves: `SameSum`, `SameProduct` and, from Fermat, `NoZeroProduct` and `Cancel` let a
remainder stand for its number and a factor that is not zero be taken away. `Is(a, v, m)`
says that a field element is v modulo p and has a magnitude of at most m. There is one lemma
for each field operation, and it gives the number *if* the magnitudes are allowed, so
whoever shows what a formula computes has shown that no operand is too large.
`PlusIs` states the law without its division: wherever the sum is finite there is a slope l
with l (x2 - x1) = y2 - y1 *and* l (y1 + y2) = x1^2 + x1 x2 + x2^2, be it the chord or the
tangent, since both points are on the curve. That is what the branch-free `add_ge` computes
with: it takes either equation for the slope, whichever is not 0 = 0
(`group_impl.h:534-574`). `Stands(a, t)` is the meaning of Jacobian coordinates: the flag, or
some z with x = X z^2 and y = Y z^3, and the magnitudes that every operation leaves and
takes. One lemma for each operation says that what it returns stands for the law's
point: `DoubleStands`; `AddStands` for the part that the three variable-time additions share
and `AddVarStands`, `AddGeVarStands`, `AddZinvStands` for their own; `AddGeStands`,
`NegateStands`, `RescaleStands`, `SetGejStands`; then the readers. A behaviour of `Group` is
then simple: `GroupInv` says that the coordinates stand for the law's point, which no step
disturbs, and has the ratio of the z's beside it.

`Curve` instantiates `Group`, so its proofs begin with lemmas of the form `Law!op = op`.

**Signatures.** `Equal(a, b)` says that two numbers leave the same modulo the order, and
`SameTimes` that their multiples are the same point. `TimesSum` (by associativity)
makes multiples of sums sums of multiples, so that `TimesFinite` and `TimesTells` follow: only
a multiple of the order is infinite, and a point tells its logarithm. With the
lemmas above about coordinates, `VerifyTells` shows what the end of the verification
asks of the sum: that it is finite and that its x leaves r, without the division by z^2,
since the two numbers below p that leave r are r and r + n (`WhichX`; this is where
n < p < 2n is needed). `PassesTheStandard` turns that into the standard's formula. For what
was signed, `LeadsBack` computes u1 + u2 k = n or, when s was made low, -n, and the opposite of
a point has the same x (`NonceReturns`). `SigningInv` keeps of a call what its signature
needs later: it passes, whatever z the verification computes its sum on.

Only model-checked, on the instances above: the libraries' arithmetic (`NumbersAreExact`,
`DigitsAddUp`, `SecretMultiples` and, of `Curve`, `SumsAreOfTheMultiples` and `KeysStayPairs`), the encoding of signatures,
the hashes and the block cipher (`CipherIsStandard`: their tables and the standards'
examples are data), and all liveness, since the prover reasons neither about fairness nor
about ENABLED.

The prover cannot use the library's induction rules, which take an operator.
`CountingUp` (in `CryptoToolsProofs`, which `BytesProofs` cites) goes
round that: it speaks of a set of numbers instead, and rests on
the theorem that every nonempty set of numbers has a least one. Nor can it tell that a
string literal is in `STRING`; `Tokens` names those that the code has.

## What the models say of the code

Two claims of the repository do not hold, and have a run that shows it:

- The pressed button reads 点击断开, click to disconnect (`widget_main.cpp:31`). A
  click that comes before `ThreadFunc` has made the acceptor closes nothing, or
  the closed acceptor of the previous start, and `StopServer` then joins a thread
  that goes on accepting: the window hangs (`client_stop_early`).
- The comment at `client_socket_item.cpp:64` says that the host is looked up in
  the list. The code looks up the host's last two labels, so the list's domains of
  three labels, `bbc.co.uk` for one, are never found (`routing_pac`).

Others are visible in the models without any claim to the contrary; the
properties state them as the exceptions they are:

- An error in the first moments of a client connection, before `shared_ptr` or
  callback are in place, ends the process or is heard by nobody; one between
  callback and insert erases nothing, and the dead item stays listed until a
  stop, or for good (`CrashOnlyDuringSetup`, `StrandedOnlyByStartupRace`).
- The server's websocket thread has the item as a bare `this`. A `Clear` that
  comes before `websocket_thread_func` is assigned joins nothing, and if the item
  then loses its last reference the process ends (`Destruct`).
- `StopServer` of the websocket server hangs while a connection whose dial, or
  whose `Accept`, came just behind `Clear`'s close goes on relaying (`Overtaken`).
  The Linux server is never stopped: there a running connection is cleared
  by error reports alone.
- The server takes the *last* `http://` out of the target, the client the first:
  for a URL whose path holds another URL of its own scheme the server dials the
  host `http` (the exception in `DialsWhatWasAsked`).
- A browser that ends its own sending and waits for the answer (a half-close)
  loses it: the client's socket thread takes the end for an error, and `Clear`
  closes the connection (`client_socket_item.cpp:41`). That is one of the exceptions
  in `WholeMessages`.
- An OnError thread that comes behind the destructor of its server locks a mutex
  and erases from a list that are no more (`client_server.cpp:53`). The window, and
  so the server, lives as long as the process (`OnlyErrorsOutliveTheServer`).
- The caller of `secp256k1_ecdsa_sign` ignores the result and copies the signature
  (`key_tools.cpp:146`). A failed call leaves zeros, which nobody accepts.
- `SignIsValidate` copies a signature without parsing it, so its r and s may be above
  the order. `Ecdsa` gives the verification scalars only, as the parsers do.
- A scratch space that is full still grants a frame of no bytes, and is then larger
  than it was created with (`scratch_impl.h:50`). No call of the library asks for
  one (`SizesAssumption` in `MultiMul`).
- A decrypted block of zeros must not look like padding for the empty message to
  come out empty (`ZerosAssumption`). It does not: under the program's key and iv
  that block decrypts to a last byte of 0x69.

## Not modelled

- **log**: writes lines to the console.
- **of the library**: what `basic-config.h` does not compile (`field_5x52*`,
  `scalar_4x64`, `scalar_low`, `num*`, assembler, the endomorphism); what the proxy
  is not built of (`gen_context.c`, `bench*`, `testrand*`); recovery, which is
  declared and nowhere defined; argument checks and illegal-argument callbacks of the
  API, which abort; the clearing of secrets from memory; timing.
- **hashes and helpers** (`blake2`, `string_tools.h`, the functions of `key_tools`
  around the library): nothing calls them.
- **configuration class**, **request script**: the first is empty, the second
  sends one request by hand.
- **code without a caller**: `ServerSocketItem::Connect`, `StartWithConnect`
  and `ConnectAsync`, `ClientSocketItem::SocketWrite`, `GetProxyLocalConfig`,
  `ClearSystemConfig`, the buttons `pushButton` and `pushButton_2`.
- **the websocket library**: read and write are one step each. Both ends call
  them on one stream from two threads at once; the library's state is not modelled.
- **the end of the process**: `WidgetMain` stops where the destructors return, and
  `ServerEnd` follows the threads that are left only as far as the destroyed list.

## The plan

Done, in this order: the client's server and connection (the part with the most
threads per line), their proofs, the server's, framing, routing, the window, the
tunnel; then the closing of a tunnel, the end of the server, the block cipher,
and the library from its limbs up; then the proofs of everything that is safe about
both servers, the window, the tunnel and its closing, of the frames, the requests, the
scratch space, the points and the signatures. What is left is to prove more:

1. `EcKeys`: that a pair of keys stays one, from the law that the points follow.
2. `Der`: that no byte behind the input is read, for any bytes and any lengths.

`DigitsAddUp` is out of reach for any window: its powers of two are symbolic,
and the prover knows only those of numbers.
