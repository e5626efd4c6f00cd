-------------------------------- MODULE Hashing --------------------------------
(***************************************************************************)
(* What is built on the compression of blocks (secp256k1/hash_impl.h): the *)
(* hash of a message that comes in pieces, HMAC, and the nonces of         *)
(* RFC 6979 (with nonce_function_rfc6979 of secp256k1.c).  The compression *)
(* itself is module Sha256; here it may be any.                            *)
(***************************************************************************)
EXTENDS Integers, SequencesExt

CONSTANTS
    BlockSize, DigestSize,          \* 64, 32
    IV, Compress(_, _), Output(_),  \* of the hash
    XorByte(_, _),                  \* the operator ^ on bytes
    Null,
    Junk,           \* what is in a buffer nobody has initialized
    Message,        \* bound: the bytes that are hashed, or as many as are written
    MaxWrite,       \* bound: of one piece
    HmacKeys, NonceArgs, MaxCounter \* bounds: the other arguments

SizesAssumption == DigestSize <= BlockSize /\ DigestSize % 2 = 0

Indices(k) == [j \in 1 .. k |-> j]
Repeat(byte, n) == [j \in 1 .. n |-> byte]

\* Mutant: the number of bits has one word.
SizeDesc_OneWord(bytes) == <<0, (bytes * 8) % 256>>

\* The bits of the message in two words; they are bytes here, not uint32_t's.
SizeDesc(bytes) == <<(bytes \div 32) % 256, (bytes * 8) % 256>>

-----------------------------------------------------------------------------

\* The buffer is not initialized.
sha256_initialize == [s |-> IV, buf |-> Junk, bytes |-> 0]

Fill(buf, at, d) ==
    [k \in 1 .. BlockSize |-> IF k > at /\ k <= at + Len(d) THEN d[k - at] ELSE buf[k]]

sha256_write(hash, data) ==
    LET bufsize == hash.bytes % BlockSize
        Turn(h, k) ==
            LET chunk_len == BlockSize - h.bufsize
                buf == Fill(h.buf, h.bufsize, SubSeq(h.data, 1, chunk_len))
            IN  [s |-> Compress(h.s, buf), buf |-> buf, bufsize |-> 0,
                 data |-> SubSeq(h.data, chunk_len + 1, Len(h.data))]
        full == FoldLeft(Turn, [s |-> hash.s, buf |-> hash.buf, bufsize |-> bufsize, data |-> data],
                         Indices((bufsize + Len(data)) \div BlockSize))
    IN  [s |-> full.s, buf |-> Fill(full.buf, full.bufsize, full.data),
         bytes |-> hash.bytes + Len(data)]

\* 0x80 and zeros, up to where the size ends a block.
PadLength(bytes) == 1 + ((2 * BlockSize - 3 - (bytes % BlockSize)) % BlockSize)

sha256_finalize(hash) ==
    LET pad == SubSeq(<<128>> \o Repeat(0, BlockSize - 1), 1, PadLength(hash.bytes))
    IN  Output(sha256_write(sha256_write(hash, pad), SizeDesc(hash.bytes)).s)

-----------------------------------------------------------------------------

XorAll(bytes, c) == [k \in DOMAIN bytes |-> XorByte(bytes[k], c)]
opad == 92
ipad == 54

\* A long key is hashed.
Shortened(key) ==
    IF Len(key) <= BlockSize THEN key ELSE sha256_finalize(sha256_write(sha256_initialize, key))

Filled(key) == key \o Repeat(0, BlockSize - Len(key))

\* rkey is turned from the one pad to the other.
Keyed(rkey) ==
    [outer |-> sha256_write(sha256_initialize, rkey),
     inner |-> sha256_write(sha256_initialize, XorAll(rkey, XorByte(opad, ipad)))]

hmac_initialize(key) == Keyed(XorAll(Filled(Shortened(key)), opad))

hmac_write(hmac, data) == [hmac EXCEPT !.inner = sha256_write(@, data)]

hmac_finalize(hmac) ==
    sha256_finalize(sha256_write(hmac.outer, sha256_finalize(hmac.inner)))

-----------------------------------------------------------------------------

Mac(k, pieces) == hmac_finalize(FoldLeft(hmac_write, hmac_initialize(k), pieces))

Rekeyed(rng, k) == [rng EXCEPT !.k = k, !.v = Mac(k, <<rng.v>>)]

\* Steps d, e and f, g.
Absorbed(rng, byte, key) == Rekeyed(rng, Mac(rng.k, <<rng.v, <<byte>>, key>>))

rfc6979_initialize(key) ==
    Absorbed(Absorbed([v |-> Repeat(1, DigestSize), k |-> Repeat(0, DigestSize), retry |-> FALSE],
                      0, key), 1, key)

\* Step h, behind a candidate that did not do.
Retry(rng) == IF rng.retry THEN Absorbed(rng, 0, <<>>) ELSE rng

\* Of DigestSize bytes, as all callers ask.
Generated(rng) == [rng EXCEPT !.v = Mac(rng.k, <<@>>), !.retry = TRUE]

rfc6979_generate(rng) == Generated(Retry(rng))

keydata(args) ==
    args.key32 \o args.msg32
    \o (IF args.data = Null THEN <<>> ELSE args.data)
    \o (IF args.algo16 = Null THEN <<>> ELSE args.algo16)

\* Each time from the start.
nonce_function_rfc6979(args, counter) ==
    FoldLeft(LAMBDA rng, i : rfc6979_generate(rng), rfc6979_initialize(keydata(args)),
             Indices(counter + 1)).v

-----------------------------------------------------------------------------

VARIABLES
    fn, args,   \* what runs: "sha256", "hmac" with its key, or "nonce"
    hash,       \* the object
    count,      \* bytes written, or the counter
    out         \* the result of the last call

vars == <<fn, args, hash, count, out>>

Init ==
    /\ count = 0 /\ out = Null
    /\ \/ fn = "sha256" /\ args = Null /\ hash = sha256_initialize
       \/ fn = "hmac" /\ args \in HmacKeys /\ hash = hmac_initialize(args)
       \/ fn = "nonce" /\ args \in NonceArgs /\ hash = Null

Write ==
    /\ fn \in {"sha256", "hmac"} /\ out = Null
    /\ \E n \in 0 .. MaxWrite :
        LET piece == SubSeq(Message, count + 1, count + n)
        IN  /\ count + n <= Len(Message)
            /\ hash' = IF fn = "hmac" THEN hmac_write(hash, piece) ELSE sha256_write(hash, piece)
            /\ count' = count + n
    /\ UNCHANGED <<fn, args, out>>

Finalize ==
    /\ fn \in {"sha256", "hmac"} /\ out = Null
    /\ out' = IF fn = "hmac" THEN hmac_finalize(hash) ELSE sha256_finalize(hash)
    /\ UNCHANGED <<fn, args, hash, count>>

\* The loop of secp256k1_ecdsa_sign, with nonces none of which will do.
Nonce ==
    /\ fn = "nonce" /\ count <= MaxCounter
    /\ out' = nonce_function_rfc6979(args, count)
    /\ count' = count + 1
    /\ UNCHANGED <<fn, args, hash>>

Next == Write \/ Finalize \/ Nonce

Spec == Init /\ [][Next]_vars

-----------------------------------------------------------------------------
(* The standards                                                           *)

\* As few zeros as it takes.
Padded(m) ==
    LET Whole(n) == m \o <<128>> \o Repeat(0, n) \o <<(8 * Len(m)) \div 256, (8 * Len(m)) % 256>>
        zeros == CHOOSE n \in 0 .. BlockSize - 1 : Len(Whole(n)) % BlockSize = 0
    IN  Whole(zeros)

Hash(m) ==
    LET Digest(M) == FoldLeft(LAMBDA H, n : Compress(H, SubSeq(M, (n - 1) * BlockSize + 1, n * BlockSize)),
                              IV, Indices(Len(M) \div BlockSize))
    IN  Output(Digest(Padded(m)))

HMAC(key, m) ==
    LET Outer(K0) == Hash(XorAll(K0, 92) \o Hash(XorAll(K0, 54) \o m))
        short == IF Len(key) > BlockSize THEN Hash(key) ELSE key
    IN  Outer(Filled(short))

\* K and V of RFC 6979, from those before it.
Updated(kv, data) ==
    LET With(K) == [K |-> K, V |-> HMAC(K, kv.V)] IN With(HMAC(kv.K, kv.V \o data))

\* Candidate n, which is V.
Candidate(seed, n) ==
    LET Zero == [K |-> Repeat(0, DigestSize), V |-> Repeat(1, DigestSize)]
        Seeded == Updated(Updated(Zero, <<0>> \o seed), <<1>> \o seed)
        First(kv) == [kv EXCEPT !.V = HMAC(kv.K, @)]
    IN  FoldLeft(LAMBDA kv, j : First(Updated(kv, <<0>>)), First(Seeded), Indices(n - 1)).V

\* The digest is that of the bytes that were written, in however many pieces and
\* wherever blocks end, also where the size no longer fits into the message's last
\* block; and that of an HMAC with a key of any length (hash_impl.h:131-203).
DigestOfTheMessage ==
    out # Null /\ fn # "nonce" =>
        LET m == SubSeq(Message, 1, count)
        IN  out = IF fn = "hmac" THEN HMAC(args, m) ELSE Hash(m)

\* The nonces that are tried one after the other, each of which is computed from
\* the start, are the standard's candidates (hash_impl.h:239, secp256k1.c:360).
NoncesAreCandidates ==
    out # Null /\ fn = "nonce" => out = Candidate(keydata(args), count)

\* No two calls with different arguments take their nonces from the same bytes
\* (secp256k1.c:345-347): a nonce for two messages would give the key away.
ArgumentsKeptApart ==
    fn = "nonce" => \A other \in NonceArgs : keydata(other) = keydata(args) => other = args
=============================================================================
