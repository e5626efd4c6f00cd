-------------------------------- MODULE Sha256 --------------------------------
(***************************************************************************)
(* SHA-256 of whole blocks (secp256k1/hash_impl.h): the 64 rounds, written *)
(* out so that no register is ever moved, with a schedule of 16 words that *)
(* is overwritten as it goes.  A word is the set of its bits.  What makes  *)
(* blocks of a message is in module Hashing.                               *)
(***************************************************************************)
EXTENDS Integers, Sequences

CONSTANTS
    Messages,       \* bound: sequences of blocks of 64 bytes
    Known           \* pairs of a message and the halves of its digest's words

Word(hi, lo) == {b \in 0 .. 31 : ((IF b > 15 THEN hi ELSE lo) \div 2^(b % 16)) % 2 = 1}

\* The number in 16 of a word's bits.
Half(x, from) ==
    LET upto[k \in 0 .. 16] ==
            IF k = 0 THEN 0
            ELSE upto[k - 1] + (IF from + k - 1 \in x THEN 2^(k - 1) ELSE 0)
    IN  upto[16]

\* Addition of uint32_t, of a sequence of them.
Add(words) ==
    LET Halves(from) ==
            LET upto[k \in 0 .. Len(words)] ==
                    IF k = 0 THEN 0 ELSE upto[k - 1] + Half(words[k], from)
            IN  upto[Len(words)]
        lo == Halves(0)
    IN  Word((Halves(16) + (lo \div 65536)) % 65536, lo % 65536)

Xor(x, y) == (x \ y) \cup (y \ x)
Xor3(x, y, z) == Xor(x, Xor(y, z))
Shr(x, n) == {b - n : b \in {c \in x : c >= n}}
Rotr(x, n) == {(b + 32 - n) % 32 : b \in x}

Ch(x, y, z) == Xor(z, x \cap Xor(y, z))
Maj(x, y, z) == (x \cap y) \cup (z \cap (x \cup y))
Sigma0(x) == Xor3(Rotr(x, 2), Rotr(x, 13), Rotr(x, 22))
Sigma1(x) == Xor3(Rotr(x, 6), Rotr(x, 11), Rotr(x, 25))
sigma0(x) == Xor3(Rotr(x, 7), Rotr(x, 18), Shr(x, 3))
sigma1(x) == Xor3(Rotr(x, 17), Rotr(x, 19), Shr(x, 10))

\* secp256k1_sha256_initialize, and the rounds' constants.
InitialHalves == <<
    <<27145, 58983>>, <<47975, 44677>>, <<15470, 62322>>, <<42319, 62778>>,
    <<20750, 21119>>, <<39685, 26764>>, <<8067, 55723>>, <<23520, 52505>>>>

RoundHalves == <<
    <<17034, 12184>>, <<28983, 17553>>, <<46528, 64463>>, <<59829, 56229>>,
    <<14678, 49755>>, <<23025, 4593>>, <<37439, 33444>>, <<43804, 24277>>,
    <<55303, 43672>>, <<4739, 23297>>, <<9265, 34238>>, <<21772, 32195>>,
    <<29374, 23924>>, <<32990, 45566>>, <<39900, 1703>>, <<49563, 61812>>,
    <<58523, 27073>>, <<61374, 18310>>, <<4033, 40390>>, <<9228, 41420>>,
    <<11753, 11375>>, <<19060, 33962>>, <<23728, 43484>>, <<30457, 35034>>,
    <<38974, 20818>>, <<43057, 50797>>, <<45059, 10184>>, <<48985, 32711>>,
    <<50912, 3059>>, <<54695, 37191>>, <<1738, 25425>>, <<5161, 10599>>,
    <<10167, 2693>>, <<11803, 8504>>, <<19756, 28156>>, <<21304, 3347>>,
    <<25866, 29524>>, <<30314, 2747>>, <<33218, 51502>>, <<37490, 11397>>,
    <<41663, 59553>>, <<43034, 26187>>, <<49739, 35696>>, <<51052, 20899>>,
    <<53650, 59417>>, <<54937, 1572>>, <<62478, 13701>>, <<4202, 41072>>,
    <<6564, 49430>>, <<7735, 27656>>, <<10056, 30540>>, <<13488, 48309>>,
    <<14620, 3251>>, <<20184, 43594>>, <<23452, 51791>>, <<26670, 28659>>,
    <<29839, 33518>>, <<30885, 25455>>, <<33992, 30740>>, <<36039, 520>>,
    <<37054, 65530>>, <<42064, 27883>>, <<48889, 41975>>, <<50801, 30962>>>>

H0 == [j \in 0 .. 7 |-> Word(InitialHalves[j + 1][1], InitialHalves[j + 1][2])]
K(t) == Word(RoundHalves[t + 1][1], RoundHalves[t + 1][2])

\* Big-endian.
Chunk(block) ==
    [j \in 0 .. 15 |-> Word(256 * block[4 * j + 1] + block[4 * j + 2],
                            256 * block[4 * j + 3] + block[4 * j + 4])]

-----------------------------------------------------------------------------

VARIABLES
    message,    \* the argument
    blocks,     \* those that are done
    s,          \* the state between blocks
    reg,        \* a .. h
    w,          \* w0 .. w15
    t           \* the next round; 64: all are done

vars == <<message, blocks, s, reg, w, t>>

Init ==
    /\ message \in Messages /\ blocks = 0
    /\ s = H0 /\ reg = H0 /\ w = Chunk(message[1]) /\ t = 0

\* The word of round k, in the place of that of round k - 16.
Scheduled(ws, k) ==
    Add(<<ws[k % 16], sigma1(ws[(k + 14) % 16]), ws[(k + 9) % 16], sigma0(ws[(k + 1) % 16])>>)

\* The arguments of the macro turn by one from line to line.
Round(r, k, word) ==
    LET At(j) == r[(j - k) % 8]
        t1 == Add(<<At(7), Sigma1(At(4)), Ch(At(4), At(5), At(6)), K(k), word>>)
        t2 == Add(<<Sigma0(At(0)), Maj(At(0), At(1), At(2))>>)
    IN  [r EXCEPT ![(3 - k) % 8] = Add(<<@, t1>>), ![(7 - k) % 8] = Add(<<t1, t2>>)]

DoRound ==
    LET ws == IF t < 16 THEN w ELSE [w EXCEPT ![t % 16] = Scheduled(w, t)]
    IN  /\ t < 64
        /\ w' = ws /\ reg' = Round(reg, t, ws[t % 16])
        /\ t' = t + 1
        /\ UNCHANGED <<message, blocks, s>>

\* What the rounds gave goes on top of the state.
Feed(old, r) == [j \in 0 .. 7 |-> Add(<<old[j], r[j]>>)]

\* And the next block, if there is one.
EndTransform ==
    LET more == blocks + 1 < Len(message)
    IN  /\ t = 64 /\ blocks < Len(message)
        /\ s' = Feed(s, reg) /\ reg' = s' /\ blocks' = blocks + 1
        /\ w' = IF more THEN Chunk(message[blocks + 2]) ELSE w
        /\ t' = IF more THEN 0 ELSE 64
        /\ UNCHANGED message

Next == DoRound \/ EndTransform

Spec == Init /\ [][Next]_vars

-----------------------------------------------------------------------------
(* The standard's way: 64 words, and registers that move                   *)

Not(x) == (0 .. 31) \ x

\* W(0), W(1), ... of the block.
Schedule(block, upto) ==
    LET words[k \in 16 .. 64] ==
            IF k = 16 THEN [j \in 1 .. 16 |-> Chunk(block)[j - 1]]
            ELSE LET W == words[k - 1]
                 IN  Append(W, Add(<<sigma1(W[k - 2]), W[k - 7], sigma0(W[k - 15]), W[k - 16]>>))
    IN  words[IF upto < 16 THEN 16 ELSE upto]

Moved(v, k, word) ==
    LET T1 == Add(<<v[8], Sigma1(v[5]), Xor(v[5] \cap v[6], Not(v[5]) \cap v[7]), K(k), word>>)
        T2 == Add(<<Sigma0(v[1]), Xor3(v[1] \cap v[2], v[1] \cap v[3], v[2] \cap v[3])>>)
    IN  <<Add(<<T1, T2>>), v[1], v[2], v[3], Add(<<v[4], T1>>), v[5], v[6], v[7]>>

Turned(v, n) == [j \in 1 .. 8 |-> v[(j - 1 - n) % 8]]

RoundIsStandard ==
    t # 64 =>
        LET W == Schedule(message[blocks + 1], t + 1)
        IN  /\ t = 0 => reg = s
            /\ t' = t + 1 /\ Turned(reg', t') = Moved(Turned(reg, t), t, W[t + 1])

\* In every round the registers become the standard's, turned by as many places as
\* rounds are done: no line of the unrolled rounds has its arguments or its words
\* wrong (hash_impl.h:53-119).
RoundsAreStandard == [][RoundIsStandard]_vars

\* The standard's examples come out: the constants are right, too, and what goes
\* on from block to block.
KnownAnswers ==
    \A ka \in Known :
        message = ka[1] /\ blocks = Len(message) =>
            \A j \in 0 .. 7 : s[j] = Word(ka[2][j + 1][1], ka[2][j + 1][2])
=============================================================================
