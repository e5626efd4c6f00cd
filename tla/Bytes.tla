--------------------------------- MODULE Bytes ---------------------------------
(***************************************************************************)
(* Where bytes become what they mean and the other way round: the request  *)
(* line, a message's frame and the cipher under it, and of the library the *)
(* hashes, a signature's bytes, the limbs that numbers are kept in, and    *)
(* the bytes that a sum of many points needs.                              *)
(*                                                                         *)
(* These modules share no state.  A behaviour is one of the module that    *)
(* `part` names, x1, x2, ... are its variables, and the rest are Null.     *)
(***************************************************************************)
EXTENDS Integers, Sequences, SequencesExt, FiniteSetsExt

CONSTANT Null

VARIABLES part, x1, x2, x3, x4, x5, x6, x7, x8, x9, x10, x11, x12

vars == <<part, x1, x2, x3, x4, x5, x6, x7, x8, x9, x10, x11, x12>>

\* The operator ^ on bytes.
XorByte(a, b) == MapThenSumSet(LAMBDA k : (((a \div 2^k) + (b \div 2^k)) % 2) * 2^k, 0 .. 7)

-----------------------------------------------------------------------------
(* The request line *)

Pac == {<<"a", ".", "com">>, <<"a", ".", "co", ".", "uk">>}

\* Single labels, two to four labels, in and out of the list, with the names of
\* the list in other places.
Hosts == {
    <<"a">>, <<"a", ".", "com">>, <<"b", ".", "com">>, <<"w", ".", "a", ".", "com">>,
    <<"a", ".", "com", ".", "b">>, <<"a", ".", "co", ".", "uk">>,
    <<"w", ".", "a", ".", "co", ".", "uk">>, <<"co", ".", "uk">>}

Paths == {
    <<>>, <<"/">>, <<"/", "p", ":", "q">>,
    <<"/", "u", "http", ":", "/", "/", "b", ".", "com">>,
    <<"/", "u", "ws", ":", "/", "/", "a", ".", "com", "/">>}

Routing == INSTANCE ProxyRoute WITH
    pac_list <- Pac, Ports <- {"443"}, NoText <- Null,
    request <- x1, auto_proxy <- x2, route <- x3, dialled <- x4

-----------------------------------------------------------------------------
(* Frames, with a cipher of two-byte blocks over bytes of two bits: the    *)
(* bytes change places, one of them by way of the other.                   *)

EncryptBlock(b) == <<(b[2] + b[1]) % 4, (b[1] + 3) % 4>>
DecryptBlock(c) == <<(c[2] + 1) % 4, (c[1] + 3 - c[2]) % 4>>

Framing == INSTANCE AesCbc WITH
    AES_BLOCKSIZE <- 2, ByteBits <- 2, MaxSize <- 5, MaxFrame <- 4, iv <- <<2, 0>>,
    sent <- x1, frame <- x2, received <- x3, step <- x4

-----------------------------------------------------------------------------
(* The block cipher: the examples of FIPS 197, appendix C, one for each    *)
(* size of a key, and a block of bytes that have nothing in common.        *)

Count(n) == [k \in 1 .. n |-> k - 1]

Example(n, cipher) ==
    [key |-> Count(n), plain |-> [k \in 1 .. 16 |-> 17 * (k - 1)], cipher |-> cipher]

Blocks == {
    Example(16, <<105, 196, 224, 216, 106, 123, 4, 48, 216, 205, 183, 128, 112, 180, 197, 90>>),
    Example(24, <<221, 169, 124, 164, 134, 76, 223, 224, 110, 175, 112, 160, 236, 13, 113, 145>>),
    Example(32, <<142, 162, 183, 202, 81, 103, 69, 191, 234, 252, 73, 144, 75, 73, 96, 137>>),
    [key |-> [k \in 1 .. 32 |-> (k * k * 37 + 11) % 256],
     plain |-> [k \in 1 .. 16 |-> (k * k * 59 + 200) % 256], cipher |-> <<>>]}

Cipher == INSTANCE Aes WITH
    Inputs <- Blocks, input <- x1, rounds <- x2, i <- x3, column <- x4, rcon <- x5, s <- x6,
    round <- x7, block <- x8, pc <- x9

-----------------------------------------------------------------------------
(* SHA-256: "abc", the standard's example of 56 bytes (14 times four       *)
(* letters in turn), and a block of ones.                                  *)

Zeros(n) == [j \in 1 .. n |-> 0]

Abc == <<<<97, 98, 99, 128>> \o Zeros(59) \o <<24>>>>
Letters == [j \in 1 .. 56 |-> 97 + ((j - 1) \div 4) + ((j - 1) % 4)]
LongOne == <<Letters \o <<128>> \o Zeros(7), Zeros(62) \o <<1, 192>>>>

Digests == {
    <<Abc, <<
        <<47736, 5823>>, <<36609, 53226>>, <<16705, 16606>>, <<23982, 8739>>,
        <<45059, 24995>>, <<38423, 31388>>, <<46096, 65377>>, <<61952, 5549>>>>>>,
    <<LongOne, <<
        <<9357, 27233>>, <<53766, 14520>>, <<58816, 9875>>, <<3134, 24633>>,
        <<41788, 58457>>, <<25855, 8551>>, <<63212, 60884>>, <<6619, 1729>>>>>>}

Rounds == INSTANCE Sha256 WITH
    Messages <- {Abc, LongOne, <<[j \in 1 .. 64 |-> 255]>>}, Known <- Digests,
    message <- x1, blocks <- x2, s <- x3, reg <- x4, w <- x5, t <- x6

-----------------------------------------------------------------------------
(* Digests, HMACs and nonces, with a hash of 16 bits.                      *)

Compress(s, block) == FoldLeft(LAMBDA a, b : (a * 31 + b * 7 + 3) % 65521, s, block)
Output(s) == [k \in 1 .. 4 |-> ((s * (2 * k + 1) + 97 * k) \div 3) % 256]

Words(n) == {[j \in 1 .. n |-> 0], [j \in 1 .. n |-> 1]}

Digest == INSTANCE Hashing WITH
    BlockSize <- 8, DigestSize <- 4, IV <- 4711, Junk <- [k \in 1 .. 8 |-> 200 + k],
    Message <- [k \in 1 .. 45 |-> (k * k * 5 + 1) % 256], MaxWrite <- 18,
    HmacKeys <- {[k \in 1 .. n |-> 10 * k] : n \in {0, 3, 4, 7, 8, 9, 12}},
    NonceArgs <- [key32 : Words(4), msg32 : Words(4), data : Words(4) \cup {Null},
                  algo16 : Words(2) \cup {Null}],
    MaxCounter <- 3, fn <- x1, args <- x2, hash <- x3, count <- x4, out <- x5

-----------------------------------------------------------------------------
(* A signature's bytes, 32 of them, with 16 the first length that is long. *)

\* Integers of a long length, in short and long sequences.
LongLengths ==
    {LET int == <<2, 17, n>> \o [k \in 1 .. n |-> 5] \o <<2, 1, 1>>
     IN  <<3, 17, Len(int)>> \o int : n \in {15, 16, 18}}
    \cup {<<3, 18, 0, 3, 2, 1, 1>>, <<3, 19, 1, 0, 0, 2, 1>>}

Encoding == INSTANCE Der WITH
    Base <- 32, SIZE <- 2, SIZE_T <- 2, Order <- 997, SEQUENCE <- 3, INTEGER <- 2,
    Scalars <- {15, 16, 996}, Longs <- LongLengths, Bytes <- {0, 1, 2, 3, 16, 17, 31},
    Damages <- 2, r <- x1, s <- x2, sig <- x3, damages <- x4

-----------------------------------------------------------------------------
(* Numbers in limbs, and their fixed powers                                *)

\* 4 limbs of 5 bits, the last of 3.  The operands are 0, 1, numbers next to 0 and
\* to p, and some with full and with empty limbs.
Field == INSTANCE Field10x26 WITH
    N <- 4, W <- 5, TopW <- 3, C0 <- 3, C1 <- 1, WordBits <- 8, AccBits <- 16, ByteBits <- 6,
    StorageBits <- 9, Factors <- {2, 3, 4}, MaxSteps <- 4,
    Operands <- {0, 1, 2, 2^18 - 36, 2^17 + 31, 131071},
    r <- x1, v <- x2, steps <- x3

\* 4 limbs of 2 bits.  All scalars, with operands next to 0, to half the order, to the
\* order and to the ends of limbs, or with full and empty limbs.
Scalar == INSTANCE Scalar8x32 WITH
    L <- 4, W <- 2, Order <- 235, ByteBits <- 1,
    Operands <- {1, 3, 4, 15, 16, 51, 63, 64, 117, 118, 127, 192, 204, 207, 233, 234},
    a <- x1, v <- x2, ok <- x3

Powers == INSTANCE FieldChains WITH
    chain <- x1, pc <- x2, j <- x3, reg <- x4

-----------------------------------------------------------------------------
(* Batches of points: no space at all, spaces at the border of one point   *)
(* and of a window that fits, and calls around a window's border.          *)

Batches == INSTANCE MultiMul WITH
    MaxSizes <- {0, 3275, 6456, 53667, 53668, 182000}, Outers <- {1, 3200},
    Counts <- {0, 1, 3, 160, 161, 275, 625}, Fails <- {0, 200, 1000},
    max_size <- x1, frames <- x2, outer <- x3, call <- x4, pc <- x5, f <- x6,
    n_batches <- x7, n_batch_points <- x8, n <- x9, i <- x10, summed <- x11, result <- x12

-----------------------------------------------------------------------------

ASSUME PartsAssumption ==
    /\ Routing!TextsAssumption
    /\ Framing!SizeAssumption /\ Framing!XorAssumption /\ Framing!CipherAssumption
    /\ Framing!ZerosAssumption
    /\ Cipher!SBoxAssumption /\ Digest!SizesAssumption /\ Encoding!SizeAssumption
    /\ Field!ParameterAssumption /\ Scalar!OrderAssumption
    /\ Batches!SizesAssumption

RoutingInit ==
    /\ part = "routing" /\ Routing!Init
    /\ x5 = Null /\ x6 = Null /\ x7 = Null /\ x8 = Null /\ x9 = Null
    /\ x10 = Null /\ x11 = Null /\ x12 = Null

Init ==
    \/ RoutingInit
    \/ /\ part = "batches" /\ Batches!Init
    \/ /\ x10 = Null /\ x11 = Null /\ x12 = Null
       /\ \/ /\ part = "cipher" /\ Cipher!Init
          \/ /\ part = "framing" /\ Framing!MessageInit
             /\ x5 = Null /\ x6 = Null /\ x7 = Null /\ x8 = Null /\ x9 = Null
          \/ /\ part = "sha256" /\ Rounds!Init
             /\ x7 = Null /\ x8 = Null /\ x9 = Null
          \/ /\ part = "digest" /\ Digest!Init
             /\ x6 = Null /\ x7 = Null /\ x8 = Null /\ x9 = Null
          \/ /\ part = "der" /\ Encoding!Init
             /\ x5 = Null /\ x6 = Null /\ x7 = Null /\ x8 = Null /\ x9 = Null
          \/ /\ part = "field" /\ Field!Init
             /\ x4 = Null /\ x5 = Null /\ x6 = Null /\ x7 = Null /\ x8 = Null /\ x9 = Null
          \/ /\ part = "scalar" /\ Scalar!Init
             /\ x4 = Null /\ x5 = Null /\ x6 = Null /\ x7 = Null /\ x8 = Null /\ x9 = Null
          \/ /\ part = "powers" /\ Powers!Init
             /\ x5 = Null /\ x6 = Null /\ x7 = Null /\ x8 = Null /\ x9 = Null

Next ==
    /\ UNCHANGED part
    /\ \/ part = "batches" /\ Batches!Next
       \/ /\ UNCHANGED <<x10, x11, x12>>
          /\ \/ part = "routing" /\ Routing!Next /\ UNCHANGED <<x5, x6, x7, x8, x9>>
             \/ part = "framing" /\ Framing!MessageNext /\ UNCHANGED <<x5, x6, x7, x8, x9>>
             \/ part = "cipher" /\ Cipher!Next
             \/ part = "sha256" /\ Rounds!Next /\ UNCHANGED <<x7, x8, x9>>
             \/ part = "digest" /\ Digest!Next /\ UNCHANGED <<x6, x7, x8, x9>>
             \/ part = "der" /\ Encoding!Next /\ UNCHANGED <<x5, x6, x7, x8, x9>>
             \/ part = "field" /\ Field!Next /\ UNCHANGED <<x4, x5, x6, x7, x8, x9>>
             \/ part = "scalar" /\ Scalar!Next /\ UNCHANGED <<x4, x5, x6, x7, x8, x9>>
             \/ part = "powers" /\ Powers!Next /\ UNCHANGED <<x5, x6, x7, x8, x9>>

Spec == Init /\ [][Next]_vars

RoutingSpec == RoutingInit /\ [][Next]_vars

-----------------------------------------------------------------------------

\* ProxyRoute: the server dials the host and port of the request that the client
\* routed, though the ends cut the request line in different ways, and with
\* auto_proxy a request is tunnelled if and only if its host is in a domain of two
\* labels of the list (client_socket_item.cpp:75-93, server_socket_item.cpp:221-236).
RequestsMeanTheSame == part = "routing" => Routing!DialsWhatWasAsked /\ Routing!RoutedByDomain

\* ProxyRoute: "is the domain in pac" (client_socket_item.cpp:64): a host in a
\* domain of the list is not asked directly.
PacIsTunnelled == part = "routing" => Routing!PacIsTunnelled

\* AesCbc: what is forwarded is what was read at the other end, and nothing but what
\* AesEncode makes of a message is taken for it (aes.cpp:68-119).
FramesMeanTheSame == part = "framing" => Framing!RoundTrip /\ Framing!OnlyFramesAccepted

\* Aes: for every size of a key the schedule is the standard's word by word, nothing
\* of the other columns entering it, the standard's examples come out, the columns
\* are multiplied by its polynomials, and decryption gives the block back
\* (ctaes.c:290-302, :370-383, :435-495).
CipherIsStandard ==
    part = "cipher" =>
        /\ Cipher!KnownAnswers /\ Cipher!DecryptUndoesEncrypt
        /\ Cipher!ScheduleIsStandard /\ Cipher!MixesByPolynomial

\* Sha256: each of the unrolled rounds is the standard's, and its examples come out
\* (hash_impl.h:36-129).  Hashing: a digest or HMAC is that of the bytes written, in
\* whatever pieces, the nonces tried in turn are the standard's candidates, and
\* different arguments give them different bytes (:131-239, secp256k1.c:345).
HashesAreStandard ==
    /\ [][part = "sha256" => Rounds!RoundIsStandard]_vars
    /\ [](part = "sha256" => Rounds!KnownAnswers)
    /\ [](part = "digest" =>
              /\ Digest!DigestOfTheMessage /\ Digest!NoncesAreCandidates
              /\ Digest!ArgumentsKeptApart)

\* Der: what was serialized is parsed to what it was, each signature has one
\* encoding, and no byte behind the input is read, whatever lengths it claims
\* (ecdsa_impl.h:52, :71, :109-199).
SignaturesHaveOneEncoding ==
    part = "der" => Encoding!RoundTrip /\ Encoding!OneEncoding /\ Encoding!NothingBehindIsRead

\* Field10x26: whatever is done in a row, the limbs stay within what their magnitude
\* allows and stand for the right number, after one pass of carries at most one
\* multiple of p is left, every normalization gives the one representation below p,
\* comparisons see the number, and bytes keep it (field_10x26_impl.h:14, :42-213,
\* :303-383, :460-788, :1131).  Scalar8x32: results are reduced, no accumulator
\* overflows where the macros say so, a wrap is reported exactly when there is one,
\* and windows are read right (scalar_8x32_impl.h:59-349, :653).  FieldChains: the
\* chains are the inverse and the root, with every name on the way true
\* (field_impl.h:39-139, scalar_impl.h:67).
NumbersAreExact ==
    /\ part = "field" =>
           /\ Field!LimbsBounded /\ Field!Represents /\ Field!SingleCarry
           /\ Field!NormalFormIsUnique /\ Field!EqualIsEqual /\ Field!BytesAndOrder
    /\ part = "scalar" =>
           /\ Scalar!Reduces /\ Scalar!ContractsKept
           /\ Scalar!WrapsAreReported /\ Scalar!WindowsReadRight
    /\ part = "powers" => Powers!RightPower /\ Powers!NamesAreTrue

\* MultiMul: every point, and G, is in the sum once; every batch fits, every object
\* of it has its place, no call is refused when one point fits, and a call that fails
\* gives back its frames, which never exceed the scratch space (ecmult_impl.h:994,
\* :1012, :1048, :1168, secp256k1.h:270).
BatchesFit ==
    part = "batches" =>
        /\ Batches!SumIsWhole /\ Batches!RoomForEveryBatch /\ Batches!ObjectsHaveRoom
        /\ Batches!WithinMaxSize /\ Batches!FramesGivenBack
=============================================================================
