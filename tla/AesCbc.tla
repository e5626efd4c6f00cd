-------------------------------- MODULE AesCbc --------------------------------
(***************************************************************************)
(* One websocket message between the two ends of a connection              *)
(* (crypto_tools/key_tools.cpp, crypto_tools/aes/aes.cpp): AesEncode pads  *)
(* and encrypts what was read, in CBC mode, and AesDecode takes it apart.  *)
(* Both callers use what comes out and look at no result, so a message may *)
(* also be empty, and a frame that arrives any bytes at all.               *)
(*                                                                         *)
(* The block cipher is a parameter (external: ctaes.c).  Both ends have    *)
(* one key and one iv, of the right size, and pad.                         *)
(***************************************************************************)
EXTENDS Integers, SequencesExt

CONSTANTS
    AES_BLOCKSIZE,
    ByteBits,           \* the bits of a byte
    MaxSize,            \* bound: the longest message
    MaxFrame,           \* bound: the longest frame of any bytes
    iv,
    XorByte(_, _),      \* the operator ^ on bytes
    EncryptBlock(_),    \* the block cipher under the key
    DecryptBlock(_)

Byte == 0 .. 2^ByteBits - 1

Block == [1..AES_BLOCKSIZE -> Byte]

Zeros(n) == [k \in 1..n |-> 0]

Bytes(n) == UNION {[1..k -> Byte] : k \in 0..n}

XorBlock(a, b) == [k \in 1..AES_BLOCKSIZE |-> XorByte(a[k], b[k])]

BlockOf(s, n) == SubSeq(s, (n - 1) * AES_BLOCKSIZE + 1, n * AES_BLOCKSIZE)

SizeAssumption ==
    ByteBits \in Nat /\ AES_BLOCKSIZE \in 1 .. 2^ByteBits - 1 /\ iv \in Block

XorAssumption ==
    \A a, b \in Byte : /\ XorByte(a, b) \in Byte /\ XorByte(a, b) = XorByte(b, a)
                       /\ XorByte(XorByte(a, b), b) = a

CipherAssumption ==
    \A b \in Block : EncryptBlock(b) \in Block /\ DecryptBlock(EncryptBlock(b)) = b

-----------------------------------------------------------------------------
(* CBCEncrypt and CBCDecrypt, with padding.  Of nothing they make nothing. *)

\* Mutant: a whole number of blocks is not padded.
Padded_NoFullBlock(data) ==
    LET padsize == (AES_BLOCKSIZE - (Len(data) % AES_BLOCKSIZE)) % AES_BLOCKSIZE
    IN  data \o [k \in 1..padsize |-> padsize]

\* Each byte of the padding is the size of the padding.
Padded(data) ==
    LET padsize == AES_BLOCKSIZE - (Len(data) % AES_BLOCKSIZE)
    IN  data \o [k \in 1..padsize |-> padsize]

CBCEncrypt(data) ==
    LET padded == Padded(data)
        blocks == Len(padded) \div AES_BLOCKSIZE
        mixed[n \in 0..blocks] ==
            IF n = 0 THEN iv ELSE EncryptBlock(XorBlock(mixed[n - 1], BlockOf(padded, n)))
    IN  IF data = <<>> THEN <<>> ELSE FlattenSeq([n \in 1..blocks |-> mixed[n]])

WellPadded(plain) ==
    LET padsize == Last(plain)
    IN  /\ padsize \in 1..AES_BLOCKSIZE
        /\ \A k \in 0 .. padsize - 1 : plain[Len(plain) - k] = padsize

CBCDecrypt(data) ==
    LET blocks == Len(data) \div AES_BLOCKSIZE
        plain == FlattenSeq([n \in 1..blocks |->
            XorBlock(DecryptBlock(BlockOf(data, n)),
                IF n = 1 THEN iv ELSE BlockOf(data, n - 1))])
    IN  IF data = <<>> \/ Len(data) % AES_BLOCKSIZE # 0 THEN <<>>
        ELSE IF WellPadded(plain) THEN SubSeq(plain, 1, Len(plain) - Last(plain))
        ELSE <<>>

-----------------------------------------------------------------------------
(* AesEncode leaves zeros where CBCEncrypt wrote nothing, and AesDecode    *)
(* cuts the result to what CBCDecrypt wrote.                               *)

AesEncode(in) ==
    LET written == CBCEncrypt(in)
        size == Len(in) + AES_BLOCKSIZE - ((Len(in) + AES_BLOCKSIZE) % AES_BLOCKSIZE)
    IN  [out |-> written \o Zeros(size - Len(written)), ok |-> Len(written) = size]

AesDecode(in) == [out |-> CBCDecrypt(in), ok |-> CBCDecrypt(in) # <<>>]

\* The zeros that an empty message becomes are not padded well under this key.
ZerosAssumption == AesDecode(Zeros(AES_BLOCKSIZE)).out = <<>>

-----------------------------------------------------------------------------

VARIABLES
    sent,       \* what a WebSocketWrite was given; "frame" if not of this program
    frame,      \* the websocket message
    received,   \* what the reader at the other end forwards
    step

messageVars == <<sent, frame, received, step>>

MessageInit ==
    /\ received = <<>>
    /\ \/ sent \in Bytes(MaxSize) /\ frame = <<>> /\ step = "write"
       \/ sent = <<>> /\ frame \in Bytes(MaxFrame) /\ step = "arrive"

WebSocketWrite ==
    /\ step = "write" /\ step' = "read"
    /\ frame' = AesEncode(sent).out
    /\ UNCHANGED <<sent, received>>

WebSocketRead ==
    /\ step \in {"read", "arrive"} /\ step' = IF step = "read" THEN "sent" ELSE "arrived"
    /\ received' = AesDecode(frame).out
    /\ UNCHANGED <<sent, frame>>

MessageNext == WebSocketWrite \/ WebSocketRead

MessageSpec == MessageInit /\ [][MessageNext]_messageVars

-----------------------------------------------------------------------------

\* What is forwarded is what was read at the other end, for every length, also
\* a whole number of blocks (aes.cpp:68-77 against :104-119) and the empty first
\* message of a client that reads no request (client_socket_item.cpp:118).
RoundTrip == step = "sent" => received = sent

\* A frame is taken for a message only if AesEncode makes it of that message:
\* every byte of the padding is checked (aes.cpp:107-115).
OnlyFramesAccepted ==
    step = "arrived" /\ received # <<>> => frame = AesEncode(received).out
=============================================================================
