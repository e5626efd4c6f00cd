---------------------------------- MODULE Aes ----------------------------------
(***************************************************************************)
(* The block cipher (crypto_tools/aes/ctaes.c) at its real size: the key   *)
(* schedule, word by word, and a block that is encrypted and decrypted     *)
(* again, round by round.                                                  *)
(*                                                                         *)
(* The code keeps 16 bytes as eight 16-bit slices: bit j of slice i is bit *)
(* i of the byte in cell j, and cell 4r + c is row r of column c.  A state *)
(* is the set of the <<slice, cell>> that are 1, so that xor of all slices *)
(* is the symmetric difference and a shift of all slices moves cells.      *)
(***************************************************************************)
EXTENDS Integers, Sequences, FiniteSetsExt

CONSTANT Inputs      \* the keys and blocks: records [key, plain, cipher]

Slices == 0..7
Cells == 0..15

Xor(s, t) == (s \ t) \cup (t \ s)

\* The byte in a cell, and the bits of a byte put into one.
ByteAt(s, j) == SumSet({2^i : i \in {k \in Slices : <<k, j>> \in s}})

LoadByte(byte, r, c) == {<<i, r * 4 + c>> : i \in {k \in Slices : (byte \div 2^k) % 2 = 1}}

\* Sixteen bytes fill the columns one after the other.
LoadBytes(data16) ==
    UNION {LoadByte(data16[k + 1], k % 4, k \div 4) : k \in Cells}

SaveBytes(s) == [k \in 1..16 |-> ByteAt(s, ((k - 1) % 4) * 4 + ((k - 1) \div 4))]

-----------------------------------------------------------------------------
(* Bytes as polynomials over GF(2) modulo x^8 + x^4 + x^3 + x + 1.         *)

XorByte(a, b) ==
    LET bit(x, i) == (x \div 2^i) % 2
    IN  SumSet({2^i : i \in {k \in Slices : bit(a, k) # bit(b, k)}})

TimesX(a) == IF a < 128 THEN 2 * a ELSE XorByte(2 * a - 256, 27)

Times(a, b) ==
    LET upto[k \in 0..8] ==
            IF k = 0 THEN 0
            ELSE XorByte(TimesX(upto[k - 1]), IF (b \div 2^(8 - k)) % 2 = 1 THEN a ELSE 0)
    IN  upto[8]

\* What the gates of SubBytes compute of the byte v, at place v + 1.
SBox == <<
    99, 124, 119, 123, 242, 107, 111, 197, 48, 1, 103, 43, 254, 215, 171, 118,
    202, 130, 201, 125, 250, 89, 71, 240, 173, 212, 162, 175, 156, 164, 114, 192,
    183, 253, 147, 38, 54, 63, 247, 204, 52, 165, 229, 241, 113, 216, 49, 21,
    4, 199, 35, 195, 24, 150, 5, 154, 7, 18, 128, 226, 235, 39, 178, 117,
    9, 131, 44, 26, 27, 110, 90, 160, 82, 59, 214, 179, 41, 227, 47, 132,
    83, 209, 0, 237, 32, 252, 177, 91, 106, 203, 190, 57, 74, 76, 88, 207,
    208, 239, 170, 251, 67, 77, 51, 133, 69, 249, 2, 127, 80, 60, 159, 168,
    81, 163, 64, 143, 146, 157, 56, 245, 188, 182, 218, 33, 16, 255, 243, 210,
    205, 12, 19, 236, 95, 151, 68, 23, 196, 167, 126, 61, 100, 93, 25, 115,
    96, 129, 79, 220, 34, 42, 144, 136, 70, 238, 184, 20, 222, 94, 11, 219,
    224, 50, 58, 10, 73, 6, 36, 92, 194, 211, 172, 98, 145, 149, 228, 121,
    231, 200, 55, 109, 141, 213, 78, 169, 108, 86, 244, 234, 101, 122, 174, 8,
    186, 120, 37, 46, 28, 166, 180, 198, 232, 221, 116, 31, 75, 189, 139, 138,
    112, 62, 181, 102, 72, 3, 246, 14, 97, 53, 87, 185, 134, 193, 29, 158,
    225, 248, 152, 17, 105, 217, 142, 148, 155, 30, 135, 233, 206, 85, 40, 223,
    140, 161, 137, 13, 191, 230, 66, 104, 65, 153, 45, 15, 176, 84, 187, 22>>

InvSBox == [v \in 0..255 |-> CHOOSE u \in 0..255 : SBox[u + 1] = v]

\* The byte's reciprocal, its bits mixed with four others each, and {63} added.
SBoxAssumption ==
    \A v \in 0..255 :
        LET recip == IF v = 0 THEN 0 ELSE CHOOSE u \in 1..255 : Times(v, u) = 1
            mixed == SumSet({2^i : i \in {k \in Slices : Cardinality(
                        {d \in {0, 4, 5, 6, 7} : (recip \div 2^((k + d) % 8)) % 2 = 1}) % 2 = 1}})
        IN  SBox[v + 1] = XorByte(mixed, 99)

SubBytes(s, inv) ==
    UNION {LoadByte(IF inv THEN InvSBox[ByteAt(s, j)] ELSE SBox[ByteAt(s, j) + 1], 0, j) : j \in Cells}

-----------------------------------------------------------------------------
(* The linear steps                                                        *)

\* Row r moves r cells to the left, and back.
ShiftRows(s) == {<<e[1], (e[2] \div 4) * 4 + ((e[2] - (e[2] \div 4)) % 4)>> : e \in s}

InvShiftRows(s) == {<<e[1], (e[2] \div 4) * 4 + ((e[2] + (e[2] \div 4)) % 4)>> : e \in s}

\* Each column times x^b: its rows move up.
Rot(s, b) == {<<e[1], (e[2] + 16 - 4 * b) % 16>> : e \in s}

\* Multiply the cells by x.
MultX(s) ==
    Xor({<<e[1] + 1, e[2]>> : e \in {f \in s : f[1] < 7}},
        {<<i, e[2]>> : i \in {0, 1, 3, 4}, e \in {f \in s : f[1] = 7}})

MixColumns(s, inv) ==
    LET s01 == Xor(s, Rot(s, 1))
        s123 == Xor(Rot(s01, 1), Rot(s, 3))
        mixed == Xor(s123, MultX(s01))
        t02 == Xor(mixed, Rot(mixed, 2))
    IN  IF inv THEN Xor(mixed, MultX(MultX(t02))) ELSE mixed

AddRoundKey(s, round) == Xor(s, round)

-----------------------------------------------------------------------------
(* The key schedule.  Only the first column of `column` is meant; the      *)
(* others hold what SubBytes makes of them, and are masked when used.      *)

ColumnOf(a, c) == {<<e[1], e[2] - c>> : e \in {f \in a : f[2] % 4 = c}}

\* Mutant: the other columns of s are or-ed into the round key as well.
KeySetupColumnMix_Unmasked(s, r, c1) ==
    r \cup {<<e[1], e[2] + c1>> : e \in {f \in s : f[2] + c1 \in Cells}}

KeySetupColumnMix(s, r, c1) == r \cup {<<e[1], e[2] + c1>> : e \in ColumnOf(s, 0)}

KeySetupTransform(s, r) == Xor(Rot(s, 1), r)

Rounds(nkeywords) == nkeywords + 6

-----------------------------------------------------------------------------

VARIABLES
    input,
    rounds,     \* the key schedule, a state for every round
    i,          \* the word of the schedule that is next
    column,
    rcon,
    s,
    round,      \* the round key that is next
    block,      \* what AES_encrypt saves
    pc

vars == <<input, rounds, i, column, rcon, s, round, block, pc>>

nkeywords == Len(input.key) \div 4
nrounds == Rounds(nkeywords)

FirstColumn(rks) == ColumnOf(rks[(nkeywords - 1) \div 4], (nkeywords - 1) % 4)

Init ==
    /\ input \in Inputs
    /\ rounds = [k \in 0..nrounds |->
          UNION {LoadByte(input.key[4 * w + r + 1], r, w % 4) :
                    r \in 0..3, w \in {v \in 0 .. nkeywords - 1 : v \div 4 = k}}]
    /\ i = nkeywords
    /\ column = FirstColumn(rounds)
    /\ rcon = {<<0, 0>>}
    /\ s = {} /\ round = 0 /\ block = <<>> /\ pc = "setup"

Transformed(pos) ==
    IF pos = 0 THEN KeySetupTransform(SubBytes(column, FALSE), rcon)
    ELSE IF nkeywords > 6 /\ pos = 4 THEN SubBytes(column, FALSE)
    ELSE column

SetupWord ==
    /\ pc = "setup" /\ i < 4 * (nrounds + 1)
    /\ LET pos == i % nkeywords
           from == i - nkeywords
       IN  /\ rcon' = IF pos = 0 THEN MultX(rcon) ELSE rcon
           /\ column' = Xor(Transformed(pos), ColumnOf(rounds[from \div 4], from % 4))
           /\ rounds' = [rounds EXCEPT ![i \div 4] = KeySetupColumnMix(column', @, i % 4)]
    /\ i' = i + 1
    /\ UNCHANGED <<input, s, round, block, pc>>

\* AES_encrypt
Encrypt ==
    /\ pc = "setup" /\ i = 4 * (nrounds + 1)
    /\ s' = AddRoundKey(LoadBytes(input.plain), rounds[0])
    /\ round' = 1 /\ pc' = "encrypt"
    /\ UNCHANGED <<input, rounds, i, column, rcon, block>>

EncryptRound ==
    /\ pc = "encrypt" /\ round < nrounds
    /\ s' = AddRoundKey(MixColumns(ShiftRows(SubBytes(s, FALSE)), FALSE), rounds[round])
    /\ round' = round + 1
    /\ UNCHANGED <<input, rounds, i, column, rcon, block, pc>>

EncryptLast ==
    /\ pc = "encrypt" /\ round = nrounds
    /\ s' = AddRoundKey(ShiftRows(SubBytes(s, FALSE)), rounds[round])
    /\ block' = SaveBytes(s') /\ pc' = "encrypted"
    /\ UNCHANGED <<input, rounds, i, column, rcon, round>>

\* AES_decrypt, of what was encrypted
Decrypt ==
    /\ pc = "encrypted" /\ pc' = "decrypt"
    /\ s' = AddRoundKey(LoadBytes(block), rounds[nrounds])
    /\ round' = nrounds - 1
    /\ UNCHANGED <<input, rounds, i, column, rcon, block>>

DecryptRound ==
    /\ pc = "decrypt" /\ round > 0
    /\ s' = MixColumns(AddRoundKey(SubBytes(InvShiftRows(s), TRUE), rounds[round]), TRUE)
    /\ round' = round - 1
    /\ UNCHANGED <<input, rounds, i, column, rcon, block, pc>>

DecryptLast ==
    /\ pc = "decrypt" /\ round = 0
    /\ s' = AddRoundKey(SubBytes(InvShiftRows(s), TRUE), rounds[0])
    /\ pc' = "decrypted"
    /\ UNCHANGED <<input, rounds, i, column, rcon, round, block>>

Next ==
    \/ SetupWord \/ Encrypt \/ EncryptRound \/ EncryptLast
    \/ Decrypt \/ DecryptRound \/ DecryptLast

Spec == Init /\ [][Next]_vars

-----------------------------------------------------------------------------

\* A block that is encrypted is the block the standard's examples give for the
\* key (FIPS 197, appendix C), for keys of 16, 24 and 32 bytes.
KnownAnswers == pc = "encrypted" /\ input.cipher # <<>> => block = input.cipher

\* Decryption, which walks the round keys backwards and has inverse steps of its
\* own (ctaes.c:470-495), gives the block back.  AesCbc takes this for granted.
DecryptUndoesEncrypt == pc = "decrypted" => SaveBytes(s) = input.plain

\* Word k of the schedule, row by row.
ScheduleWord(k) == [r \in 0..3 |-> ByteAt(rounds[k \div 4], r * 4 + (k % 4))]

\* The words that are there follow the recurrence of the standard (FIPS 197,
\* 5.2), and those that are not are empty: the other three columns of `column`,
\* which SubBytes fills with {63} and worse, never reach a round key
\* (ctaes.c:370-383, :435-446).
ScheduleIsStandard ==
    \A k \in nkeywords .. 4 * (nrounds + 1) - 1 :
        LET before == ScheduleWord(k - 1)
            rc[m \in 0..9] == IF m = 0 THEN 1 ELSE TimesX(rc[m - 1])
            temp == IF k % nkeywords = 0
                    THEN [r \in 0..3 |-> XorByte(SBox[before[(r + 1) % 4] + 1],
                             IF r = 0 THEN rc[(k \div nkeywords) - 1] ELSE 0)]
                    ELSE IF nkeywords > 6 /\ k % nkeywords = 4
                    THEN [r \in 0..3 |-> SBox[before[r] + 1]]
                    ELSE before
        IN  ScheduleWord(k) = IF k >= i THEN [r \in 0..3 |-> 0]
                              ELSE [r \in 0..3 |-> XorByte(temp[r], ScheduleWord(k - nkeywords)[r])]

\* MixColumns multiplies each column by the polynomial that the comment in the
\* code names, {03}x^3 + {01}x^2 + {01}x + {02}, and with inv by its inverse,
\* {0b}x^3 + {0d}x^2 + {09}x + {0e} (ctaes.c:290-302).
MixesByPolynomial ==
    \A inv \in BOOLEAN :
        LET poly == IF inv THEN <<14, 9, 13, 11>> ELSE <<2, 1, 1, 3>>
            mixed == MixColumns(s, inv)
            term(c, r, k) == Times(poly[k + 1], ByteAt(s, ((r + 4 - k) % 4) * 4 + c))
        IN  \A c \in 0..3, r \in 0..3 :
                ByteAt(mixed, r * 4 + c) =
                    XorByte(XorByte(term(c, r, 0), term(c, r, 1)),
                            XorByte(term(c, r, 2), term(c, r, 3)))
=============================================================================
