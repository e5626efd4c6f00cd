---------------------------------- MODULE Der ----------------------------------
(***************************************************************************)
(* Signatures as bytes (secp256k1/ecdsa_impl.h): a strict parser of the    *)
(* DER encoding of two integers, and the serializer.  A byte is a number   *)
(* below Base; the buffer goes on behind the input with bytes that are not *)
(* part of it.                                                             *)
(***************************************************************************)
EXTENDS Integers, SequencesExt

CONSTANTS
    Base,       \* 256
    SIZE,       \* bytes of a scalar, 32
    SIZE_T,     \* bytes of a size_t, 8
    Order,
    SEQUENCE, INTEGER,      \* tags, 0x30 and 0x02
    Scalars,    \* bound: the signatures that are serialized
    Longs,      \* bound: inputs with lengths of more than one byte
    Bytes,      \* bound: what a damaged byte becomes
    Damages     \* bound: bytes replaced, lost or added

Half == Base \div 2     \* the sign bit, and that of a long length
Byte == 0 .. Base - 1

\* A serialized signature needs no long length.
SizeAssumption ==
    /\ 4 + 2 * (SIZE + 1) < Half /\ Order \in Base^SIZE \div 2 .. Base^SIZE
    /\ {SEQUENCE, INTEGER} \subseteq 0 .. Half - 1

-----------------------------------------------------------------------------
(* Parsing.  buf[at + 1] is the byte that *sig points to, and end its      *)
(* sigend; a negative length is an error.  read counts the bytes that were *)
(* looked at.                                                              *)

Length(len, at, read) == [len |-> len, at |-> at, read |-> read]

\* Mutant: the end is not looked at before the first byte.
der_read_len_NoEnd(buf, at, end) ==
    LET b1 == buf[at + 1]
        lenleft == b1 % Half
        Count(k) == FoldLeft(LAMBDA n, b : n * Base + b, 0, SubSeq(buf, at + 2, at + 1 + k))
    IN  IF b1 = Base - 1 THEN Length(-1, at + 1, at + 1)
        ELSE IF b1 < Half THEN Length(b1, at + 1, at + 1)
        ELSE IF b1 = Half \/ lenleft > end - (at + 1) THEN Length(-1, at + 1, at + 1)
        ELSE IF buf[at + 2] = 0 \/ lenleft > SIZE_T THEN Length(-1, at + 1, at + 2)
        ELSE IF \/ \E k \in 1 .. lenleft : Count(k) + (lenleft - k + 1) > end - (at + k)
                \/ Count(lenleft) < Half
        THEN Length(-1, at + 1, at + 1 + lenleft)
        ELSE Length(Count(lenleft), at + 1 + lenleft, at + 1 + lenleft)

der_read_len(buf, at, end) ==
    LET b1 == buf[at + 1]
        lenleft == b1 % Half
        \* of the first k bytes of a long length
        Count(k) == FoldLeft(LAMBDA n, b : n * Base + b, 0, SubSeq(buf, at + 2, at + 1 + k))
    IN  IF at >= end THEN Length(-1, at, at)
        ELSE IF b1 = Base - 1 THEN Length(-1, at + 1, at + 1)
        ELSE IF b1 < Half THEN Length(b1, at + 1, at + 1)
        ELSE IF b1 = Half \/ lenleft > end - (at + 1) THEN Length(-1, at + 1, at + 1)
        ELSE IF buf[at + 2] = 0 \/ lenleft > SIZE_T THEN Length(-1, at + 1, at + 2)
        ELSE IF \/ \E k \in 1 .. lenleft : Count(k) + (lenleft - k + 1) > end - (at + k)
                \/ Count(lenleft) < Half
        THEN Length(-1, at + 1, at + 1 + lenleft)
        ELSE Length(Count(lenleft), at + 1 + lenleft, at + 1 + lenleft)

\* A first byte that says nothing.
Padded(b) ==
    Len(b) > 1 /\ \/ b[1] = 0 /\ b[2] < Half
                  \/ b[1] = Base - 1 /\ b[2] >= Half

\* Negative or too large a value becomes 0.
Scalar(b) ==
    LET digits == SubSeq(b, 1 + Len(SelectSeq([k \in DOMAIN b |-> k],
                                  LAMBDA k : \A j \in 1 .. k : b[j] = 0)), Len(b))
        v == FoldLeft(LAMBDA n, d : n * Base + d, 0, digits)
    IN  IF b[1] >= Half \/ Len(digits) > SIZE \/ v >= Order THEN 0 ELSE v

NotInteger(read) == [ok |-> FALSE, v |-> 0, at |-> read, read |-> read]

\* What is behind a length that has been read.
Content(buf, end, rlen) ==
    LET b == SubSeq(buf, rlen.at + 1, rlen.at + rlen.len)
    IN  IF rlen.len <= 0 \/ rlen.at + rlen.len > end THEN NotInteger(rlen.read)
        ELSE IF Padded(b) THEN NotInteger(rlen.at + 2)
        ELSE [ok |-> TRUE, v |-> Scalar(b), at |-> rlen.at + rlen.len, read |-> rlen.at + rlen.len]

der_parse_integer(buf, at, end) ==
    IF at = end THEN NotInteger(at)
    ELSE IF buf[at + 1] # INTEGER THEN NotInteger(at + 1)
    ELSE Content(buf, end, der_read_len(buf, at + 1, end))

NotParsed(read) == [ok |-> FALSE, r |-> 0, s |-> 0, read |-> read]

Both(rr, rs, size) ==
    IF ~rs.ok \/ rs.at # size THEN NotParsed(rs.read)
    ELSE [ok |-> TRUE, r |-> rr.v, s |-> rs.v, read |-> rs.read]

AfterR(buf, size, rr) ==
    IF ~rr.ok THEN NotParsed(rr.read) ELSE Both(rr, der_parse_integer(buf, rr.at, size), size)

AfterLength(buf, size, rlen) ==
    IF rlen.len < 0 \/ rlen.at + rlen.len # size THEN NotParsed(rlen.read)
    ELSE AfterR(buf, size, der_parse_integer(buf, rlen.at, size))

sig_parse(buf, size) ==
    IF size = 0 THEN NotParsed(0)
    ELSE IF buf[1] # SEQUENCE THEN NotParsed(1)
    ELSE AfterLength(buf, size, der_read_len(buf, 1, size))

-----------------------------------------------------------------------------
(* Serializing *)

Shortest(b) == b[1] = 0 /\ b[2] < Half

get_b32(a) == [k \in 1 .. SIZE |-> (a \div Base^(SIZE - k)) % Base]

\* As few bytes as there can be, one zero in front of a high bit.
Encoded(a) ==
    FoldLeft(LAMBDA b, k : IF Len(b) > 1 /\ Shortest(b) THEN Tail(b) ELSE b,
             <<0>> \o get_b32(a), get_b32(a))

sig_serialize(size, ar, as) ==
    LET r == Encoded(ar)  s == Encoded(as)
        all == <<SEQUENCE, 4 + Len(r) + Len(s), INTEGER, Len(r)>> \o r
               \o <<INTEGER, Len(s)>> \o s
    IN  [ok |-> size >= Len(all), size |-> Len(all),
         sig |-> IF size >= Len(all) THEN all ELSE <<>>]

-----------------------------------------------------------------------------

VARIABLES
    r, s,       \* the signature
    sig,        \* its bytes, as they arrive
    damages

vars == <<r, s, sig, damages>>

Room == 6 + 2 * (SIZE + 1)

\* A signature in its bytes, or a long input.
Init ==
    /\ damages = 0
    /\ \/ r \in Scalars /\ s \in Scalars /\ sig = sig_serialize(Room, r, s).sig
       \/ r = 0 /\ s = 0 /\ sig \in Longs

Damage ==
    /\ damages < Damages /\ damages' = damages + 1
    /\ \/ \E k \in DOMAIN sig : sig' = RemoveAt(sig, k)
       \/ \E k \in DOMAIN sig, b \in Bytes : sig' = [sig EXCEPT ![k] = b]
       \/ \E k \in 1 .. Len(sig) + 1, b \in Bytes : sig' = InsertAt(sig, k, b)
    /\ UNCHANGED <<r, s>>

Next == Damage

Spec == Init /\ [][Next]_vars

-----------------------------------------------------------------------------

Behind == [k \in 1 .. Base |-> INTEGER]
Parsed == sig_parse(sig \o Behind, Len(sig))

\* What was serialized is parsed to what it was, and a buffer that is too small is
\* told the size that does (ecdsa_impl.h:177).
RoundTrip ==
    damages = 0 /\ sig \notin Longs =>
        /\ Parsed = [ok |-> TRUE, r |-> r, s |-> s, read |-> Len(sig)]
        /\ \A size \in 0 .. Room :
               LET call == sig_serialize(size, r, s)
               IN  ~call.ok => sig_serialize(call.size, r, s).ok

\* Whatever was done to the bytes, each signature has one encoding: what is parsed
\* is the serialization of what it is parsed to, or one of its integers is no
\* scalar and it is parsed to a zero, which no verification accepts
\* (ecdsa_impl.h:109-135).
OneEncoding ==
    LET Canonical(p) ==
            p.ok => p.r = 0 \/ p.s = 0 \/ sig = sig_serialize(Room, p.r, p.s).sig
    IN  Canonical(Parsed)

\* No byte behind the input is looked at, however the lengths in it were falsified
\* (ecdsa_impl.h:52, :71, :103, :108).
NothingBehindIsRead == Parsed.read <= Len(sig)
=============================================================================
