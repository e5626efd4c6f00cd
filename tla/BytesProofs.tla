------------------------------ MODULE BytesProofs ------------------------------
(***************************************************************************)
(* What is proved of the parts of Bytes: a request line taken apart at     *)
(* both ends means the same and is routed by its domain (ProxyRoute, here  *)
(* for every request and every list), and what CryptoToolsProofs says of   *)
(* any cipher and of any scratch space holds of the run's.                 *)
(***************************************************************************)
EXTENDS Bytes, FiniteSetTheorems, SequenceTheorems, TLAPS

Tools == INSTANCE CryptoToolsProofs WITH
    MaxSizes <- {0, 3275, 6456, 53667, 53668, 182000}, Outers <- {1, 3200},
    Counts <- {0, 1, 3, 160, 161, 275, 625}, Fails <- {0, 200, 1000},
    max_size <- x1, frames <- x2, outer <- x3, call <- x4, pc <- x5, f <- x6,
    n_batches <- x7, n_batch_points <- x8, n <- x9, i <- x10, summed <- x11, result <- x12,
    AES_BLOCKSIZE <- 2, ByteBits <- 2, MaxSize <- 5, MaxFrame <- 4, iv <- <<2, 0>>,
    sent <- x1, frame <- x2, received <- x3, step <- x4

\* The prover has to be told which strings there are at least.
Tokens == STRING \cup {":", "/", ".", "http", "https", "ws", "wss"}

Text == Seq(Tokens)

\* s is found in t behind its first k tokens.
Occurs(s, t, k) == k + Len(s) <= Len(t) /\ \A j \in 1 .. Len(s) : t[k + j] = s[j]

\* t without what it holds there.
Without(s, t, k) == [j \in 1 .. Len(t) - Len(s) |-> IF j <= k THEN t[j] ELSE t[j + Len(s)]]

LEMMA PartOfText ==
    ASSUME NEW t \in Text, NEW a \in Nat, NEW b \in Nat, b <= Len(t)
    PROVE  /\ SubSeq(t, a + 1, b) \in Text
           /\ Len(SubSeq(t, a + 1, b)) = IF a <= b THEN b - a ELSE 0
           /\ \A j \in 1 .. b - a : SubSeq(t, a + 1, b)[j] = t[a + j]
  BY DEF Text

\* Texts of equal length and tokens are equal.
LEMMA SameText ==
    ASSUME NEW s \in Text, NEW t \in Text, Len(s) = Len(t), \A j \in 1 .. Len(s) : s[j] = t[j]
    PROVE  s = t
<1>1. s \in [1 .. Len(s) -> Tokens] /\ t \in [1 .. Len(t) -> Tokens]
  BY DEF Text
<1> QED
  BY <1>1

LEMMA Joined ==
    ASSUME NEW s \in Text, NEW t \in Text
    PROVE  /\ s \o t \in Text /\ Len(s \o t) = Len(s) + Len(t)
           /\ \A j \in 1 .. Len(s) : (s \o t)[j] = s[j]
           /\ \A j \in 1 .. Len(t) : (s \o t)[Len(s) + j] = t[j]
<1>1. Len(s) \in Nat /\ Len(t) \in Nat
  BY DEF Text
<1>2. s \o t \in Text /\ Len(s \o t) = Len(s) + Len(t)
  BY DEF Text
<1>3. \A j \in 1 .. Len(s) + Len(t) :
          (s \o t)[j] = IF j <= Len(s) THEN s[j] ELSE t[j - Len(s)]
  BY ConcatProperties DEF Text
<1>4. ASSUME NEW j \in 1 .. Len(t)
      PROVE  (s \o t)[Len(s) + j] = t[j]
  <2>1. Len(s) + j \in 1 .. Len(s) + Len(t) /\ ~(Len(s) + j <= Len(s)) /\ (Len(s) + j) - Len(s) = j
    BY <1>1
  <2> QED
    BY <1>3, <2>1
<1>5. ASSUME NEW j \in 1 .. Len(s)
      PROVE  (s \o t)[j] = s[j]
  <2>1. j \in 1 .. Len(s) + Len(t) /\ j <= Len(s)
    BY <1>1
  <2> QED
    BY <1>3, <2>1
<1> QED
  BY <1>2, <1>4, <1>5

LEMMA Found ==
    ASSUME NEW s \in Text, NEW t \in Text, Len(s) > 0
    PROVE  s \in Routing!SubSeqs(t) <=> \E k \in Nat : Occurs(s, t, k)
<1>0. Len(s) \in Nat /\ Len(t) \in Nat
  BY DEF Text
<1>1. ASSUME s \in Routing!SubSeqs(t)
      PROVE  \E k \in Nat : Occurs(s, t, k)
  <2>1. PICK k \in 0 .. Len(t), m \in 0 .. Len(t) : s = SubSeq(t, k + 1, m)
    BY <1>1 DEF Routing!SubSeqs
  <2>2. k <= m /\ Len(s) = m - k /\ \A j \in 1 .. m - k : s[j] = t[k + j]
    <3>1. k \in Nat /\ m \in Nat /\ m <= Len(t)
      BY <1>0
    <3>2. /\ Len(s) = IF k <= m THEN m - k ELSE 0
          /\ \A j \in 1 .. m - k : s[j] = t[k + j]
      BY <2>1, <3>1, PartOfText
    <3> QED
      BY <3>1, <3>2
  <2>3. k \in Nat /\ k + Len(s) <= Len(t) /\ \A j \in 1 .. Len(s) : t[k + j] = s[j]
    BY <1>0, <2>2
  <2> QED
    BY <2>3 DEF Occurs
<1>2. ASSUME NEW k \in Nat, Occurs(s, t, k)
      PROVE  s \in Routing!SubSeqs(t)
  <2> DEFINE m == k + Len(s)
  <2>1. m \in 0 .. Len(t) /\ k \in 0 .. Len(t) /\ m - k = Len(s) /\ k <= m
    BY <1>0, <1>2 DEF Occurs
  <2>2. \A j \in 1 .. Len(s) : t[k + j] = s[j]
    BY <1>2 DEF Occurs
  <2> HIDE DEF m
  <2>3. /\ SubSeq(t, k + 1, m) \in Text /\ Len(SubSeq(t, k + 1, m)) = Len(s)
        /\ \A j \in 1 .. Len(s) : SubSeq(t, k + 1, m)[j] = t[k + j]
    BY <2>1, PartOfText
  <2>4. SubSeq(t, k + 1, m) = s
    BY <2>2, <2>3, SameText
  <2> QED
    BY <2>1, <2>4 DEF Routing!SubSeqs
<1> QED
  BY <1>1, <1>2

\* What is found in the front of a text is found in the text, and ends there.
LEMMA FoundInFront ==
    ASSUME NEW s \in Text, NEW t \in Text, Len(s) > 0, NEW m \in 0 .. Len(t)
    PROVE  s \in Routing!SubSeqs(SubSeq(t, 1, m)) <=>
               \E k \in Nat : Occurs(s, t, k) /\ k + Len(s) <= m
<1> DEFINE u == SubSeq(t, 0 + 1, m)
<1>0. Len(s) \in Nat /\ Len(t) \in Nat
  BY DEF Text
<1>1. u \in Text /\ Len(u) = m /\ \A j \in 1 .. m : u[j] = t[j]
  BY <1>0, PartOfText
<1>2. u = SubSeq(t, 1, m)
  OBVIOUS
<1> HIDE DEF u
<1>3. ASSUME NEW k \in Nat
      PROVE  Occurs(s, u, k) <=> Occurs(s, t, k) /\ k + Len(s) <= m
  <2>1. k + Len(s) <= m => \A j \in 1 .. Len(s) : k + j \in 1 .. m
    BY <1>0
  <2> QED
    BY <1>0, <1>1, <2>1 DEF Occurs
<1>4. s \in Routing!SubSeqs(u) <=> \E k \in Nat : Occurs(s, u, k)
  BY <1>1, Found
<1> QED
  BY <1>2, <1>3, <1>4

\* Of places where a text is found one is the first.
LEMMA FirstPlace ==
    ASSUME NEW s, NEW t, NEW k \in Nat, Occurs(s, t, k)
    PROVE  \E m \in Nat : Occurs(s, t, m) /\ \A j \in 0 .. m - 1 : ~Occurs(s, t, j)
<1> SUFFICES ASSUME \A m \in Nat : Occurs(s, t, m) => \E j \in 0 .. m - 1 : Occurs(s, t, j)
             PROVE  FALSE
  BY Zenon
<1> DEFINE T == {m \in Nat : \A j \in 0 .. m : ~Occurs(s, t, j)}
<1>1. 0 \in T
  BY DEF T
<1>2. ASSUME NEW m \in Nat, m \in T
      PROVE  m + 1 \in T
  <2>1. ASSUME Occurs(s, t, m + 1)
        PROVE  FALSE
    <3>1. PICK j \in 0 .. (m + 1) - 1 : Occurs(s, t, j)
      BY <2>1
    <3> QED
      BY <1>2, <3>1
  <2>2. \A j \in 0 .. m + 1 : j \in 0 .. m \/ j = m + 1
    OBVIOUS
  <2> QED
    BY <1>2, <2>1, <2>2
<1> HIDE DEF T
<1>3. k \in T
  BY <1>1, <1>2, Tools!CountingUp
<1> QED
  BY <1>3 DEF T

LEMMA EraseFirst ==
    ASSUME NEW s \in Text, NEW t \in Text, Len(s) > 0
    PROVE  \/ /\ \A k \in Nat : ~Occurs(s, t, k)
              /\ Routing!erase_first(s, t) = t
           \/ \E k \in Nat :
                  /\ Occurs(s, t, k) /\ \A j \in 0 .. k - 1 : ~Occurs(s, t, j)
                  /\ Routing!erase_first(s, t) = Without(s, t, k)
<1>0. Len(s) \in Nat /\ Len(t) \in Nat
  BY DEF Text
<1>1. CASE \A k \in Nat : ~Occurs(s, t, k)
  <2>1. s \notin Routing!SubSeqs(t)
    BY <1>1, Found
  <2> QED
    BY <1>1, <2>1 DEF Routing!erase_first, Routing!ReplaceFirstSubSeq
<1>2. ASSUME NEW a \in Nat, Occurs(s, t, a)
      PROVE  \E k \in Nat :
                  /\ Occurs(s, t, k) /\ \A j \in 0 .. k - 1 : ~Occurs(s, t, j)
                  /\ Routing!erase_first(s, t) = Without(s, t, k)
  <2>1. PICK k \in Nat : Occurs(s, t, k) /\ \A j \in 0 .. k - 1 : ~Occurs(s, t, j)
    BY <1>2, FirstPlace
  <2>2. k + Len(s) \in 0 .. Len(t)
    BY <1>0, <2>1 DEF Occurs
  <2>3. ASSUME NEW m \in 0 .. Len(t)
        PROVE  s \in Routing!SubSeqs(SubSeq(t, 1, m)) <=> k + Len(s) <= m
    <3>1. s \in Routing!SubSeqs(SubSeq(t, 1, m)) <=>
              \E j \in Nat : Occurs(s, t, j) /\ j + Len(s) <= m
      BY FoundInFront
    <3>2. ASSUME NEW j \in Nat, Occurs(s, t, j)
          PROVE  k <= j
      BY <2>1, <3>2
    <3> QED
      BY <1>0, <2>1, <3>1, <3>2
  <2> DEFINE Ends(m) == /\ s \in Routing!SubSeqs(SubSeq(t, 1, m))
                        /\ \A j \in 0 .. m - 1 : s \notin Routing!SubSeqs(SubSeq(t, 1, j))
  <2>4. ASSUME NEW m \in 0 .. Len(t)
        PROVE  Ends(m) <=> m = k + Len(s)
    <3>1. \A j \in 0 .. m - 1 : j \in 0 .. Len(t)
      BY <1>0
    <3>2. m = k + Len(s) => Ends(m)
      BY <1>0, <2>3, <3>1
    <3>3. ASSUME Ends(m), m # k + Len(s)
          PROVE  FALSE
      <4>1. k + Len(s) <= m
        BY <2>3, <3>3
      <4>2. k + Len(s) \in 0 .. m - 1
        BY <1>0, <2>2, <3>3, <4>1
      <4> QED
        BY <2>2, <2>3, <3>3, <4>2
    <3> QED
      BY <3>2, <3>3
  <2>5. (CHOOSE m \in 0 .. Len(t) : Ends(m)) = k + Len(s)
    <3> HIDE DEF Ends
    <3> QED
      BY <2>2, <2>4
  <2>6. Routing!IndexFirstSubSeq(s, t) = k + 1
    <3>1. Routing!IndexFirstSubSeq(s, t) = (CHOOSE m \in 0 .. Len(t) : Ends(m)) - (Len(s) - 1)
      BY DEF Routing!IndexFirstSubSeq
    <3> HIDE DEF Ends
    <3>2. (k + Len(s)) - (Len(s) - 1) = k + 1
      BY <1>0
    <3> QED
      BY <2>5, <3>1, <3>2
  <2>7. s \in Routing!SubSeqs(t)
    BY <2>1, Found
  <2>8. Routing!erase_first(s, t) = Routing!ReplaceSubSeqAt(k + 1, <<>>, s, t)
    BY <2>6, <2>7 DEF Routing!erase_first, Routing!ReplaceFirstSubSeq
  <2> DEFINE front == SubSeq(t, 0 + 1, k)
  <2> DEFINE back == SubSeq(t, (k + Len(s)) + 1, Len(t))
  <2>9. /\ front \in Text /\ Len(front) = k /\ \A j \in 1 .. k : front[j] = t[j]
        /\ back \in Text /\ Len(back) = Len(t) - Len(s) - k
        /\ \A j \in 1 .. Len(t) - Len(s) - k : back[j] = t[k + Len(s) + j]
    <3>1. /\ front \in Text /\ Len(front) = k /\ \A j \in 1 .. k : front[j] = t[j]
      <4>1. 0 \in Nat /\ k \in Nat /\ k <= Len(t) /\ k - 0 = k /\ 0 <= k
        BY <1>0, <2>2
      <4>2. /\ front \in Text /\ Len(front) = IF 0 <= k THEN k - 0 ELSE 0
            /\ \A j \in 1 .. k - 0 : front[j] = t[0 + j]
        BY <4>1, PartOfText
      <4>3. \A j \in 1 .. k : 0 + j = j
        OBVIOUS
      <4> HIDE DEF front
      <4> QED
        BY <4>1, <4>2, <4>3
    <3>2. k + Len(s) \in Nat /\ Len(t) <= Len(t) /\ k + Len(s) <= Len(t)
      BY <1>0, <2>2
    <3>3. /\ back \in Text /\ Len(back) = Len(t) - (k + Len(s))
          /\ \A j \in 1 .. Len(t) - (k + Len(s)) : back[j] = t[(k + Len(s)) + j]
      BY <1>0, <3>2, PartOfText
    <3> HIDE DEF front, back
    <3>4. Len(t) - (k + Len(s)) = Len(t) - Len(s) - k
      BY <1>0
    <3> QED
      BY <3>1, <3>3, <3>4
  <2>10. Routing!ReplaceSubSeqAt(k + 1, <<>>, s, t) = front \o <<>> \o back
    <3>1. (k + 1) - 1 = k /\ (k + 1) + Len(s) = (k + Len(s)) + 1 /\ 0 + 1 = 1
      BY <1>0
    <3>2. Routing!ReplaceSubSeqAt(k + 1, <<>>, s, t) =
              SubSeq(t, 1, (k + 1) - 1) \o <<>> \o SubSeq(t, (k + 1) + Len(s), Len(t))
      BY DEF Routing!ReplaceSubSeqAt
    <3> QED
      BY <3>1, <3>2
  <2> HIDE DEF front, back
  <2>11. front \o <<>> = front
    BY <2>9 DEF Text
  <2>12. front \o back = Without(s, t, k)
    <3>1. /\ front \o back \in Text /\ Len(front \o back) = Len(t) - Len(s)
          /\ \A j \in 1 .. k : (front \o back)[j] = t[j]
          /\ \A j \in 1 .. Len(t) - Len(s) - k :
                 (front \o back)[k + j] = t[k + Len(s) + j]
      <4>1. /\ front \o back \in Text /\ Len(front \o back) = Len(front) + Len(back)
            /\ \A j \in 1 .. Len(front) : (front \o back)[j] = front[j]
            /\ \A j \in 1 .. Len(back) : (front \o back)[Len(front) + j] = back[j]
        BY <2>9, Joined
      <4>2. Len(front) = k /\ Len(back) = Len(t) - Len(s) - k
        BY <2>9
      <4>3. k + (Len(t) - Len(s) - k) = Len(t) - Len(s)
        BY <1>0
      <4> QED
        BY <2>9, <4>1, <4>2, <4>3
    <3>2. ASSUME NEW j \in 1 .. Len(t) - Len(s)
          PROVE  (front \o back)[j] = IF j <= k THEN t[j] ELSE t[j + Len(s)]
      <4>1. CASE j <= k
        BY <3>1, <4>1
      <4>2. CASE ~(j <= k)
        <5>1. /\ j - k \in 1 .. Len(t) - Len(s) - k /\ k + Len(s) + (j - k) = j + Len(s)
              /\ k + (j - k) = j
          BY <1>0, <4>2
        <5> QED
          BY <3>1, <4>2, <5>1
      <4> QED
        BY <4>1, <4>2
    <3>3. front \o back = [j \in 1 .. Len(t) - Len(s) |-> (front \o back)[j]]
      <4> DEFINE both == front \o back
      <4>1. both \in Text /\ Len(both) = Len(t) - Len(s)
        BY <3>1
      <4> HIDE DEF both
      <4>2. both = [j \in 1 .. Len(both) |-> both[j]]
        BY <4>1 DEF Text
      <4> QED
        BY <4>1, <4>2 DEF both
    <3> QED
      BY <3>2, <3>3 DEF Without
  <2> QED
    BY <2>1, <2>8, <2>10, <2>11, <2>12
<1> QED
  BY <1>1, <1>2

-----------------------------------------------------------------------------
(* erase_last works on the text from its end                               *)

LEMMA Backwards ==
    ASSUME NEW t \in Text
    PROVE  /\ Routing!Reverse(t) \in Text /\ Len(Routing!Reverse(t)) = Len(t)
           /\ \A j \in 1 .. Len(t) : Routing!Reverse(t)[j] = t[(Len(t) - j) + 1]
<1>1. Len(t) \in Nat /\ \A j \in 1 .. Len(t) : t[j] \in Tokens
  BY DEF Text
<1>2. Routing!Reverse(t) = [j \in 1 .. Len(t) |-> t[(Len(t) - j) + 1]]
  BY DEF Routing!Reverse
<1>3. \A j \in 1 .. Len(t) : (Len(t) - j) + 1 \in 1 .. Len(t)
  BY <1>1
<1>4. Routing!Reverse(t) \in [1 .. Len(t) -> Tokens]
  BY <1>1, <1>2, <1>3
<1> QED
  BY <1>1, <1>2, <1>4 DEF Text

LEMMA FoundBackwards ==
    ASSUME NEW s \in Text, NEW t \in Text, NEW k \in Nat, NEW m \in Nat,
           m = Len(t) - Len(s) - k
    PROVE  Occurs(Routing!Reverse(s), Routing!Reverse(t), k) <=> Occurs(s, t, m)
<1>0. Len(s) \in Nat /\ Len(t) \in Nat
  BY DEF Text
<1>1. /\ Len(Routing!Reverse(s)) = Len(s) /\ Len(Routing!Reverse(t)) = Len(t)
      /\ \A j \in 1 .. Len(s) : Routing!Reverse(s)[j] = s[(Len(s) - j) + 1]
      /\ \A j \in 1 .. Len(t) : Routing!Reverse(t)[j] = t[(Len(t) - j) + 1]
  BY Backwards
<1>2. ASSUME NEW j \in 1 .. Len(s)
      PROVE  /\ k + j \in 1 .. Len(t) /\ (Len(t) - (k + j)) + 1 = m + ((Len(s) - j) + 1)
             /\ (Len(s) - j) + 1 \in 1 .. Len(s) /\ (Len(s) - ((Len(s) - j) + 1)) + 1 = j
  BY <1>0
<1>3. k + Len(s) <= Len(t) /\ m + Len(s) <= Len(t)
  BY <1>0
<1>4. ASSUME Occurs(Routing!Reverse(s), Routing!Reverse(t), k), NEW j \in 1 .. Len(s)
      PROVE  t[m + j] = s[j]
  <2> DEFINE o == (Len(s) - j) + 1
  <2>1. /\ o \in 1 .. Len(s) /\ (Len(s) - o) + 1 = j
        /\ k + o \in 1 .. Len(t) /\ (Len(t) - (k + o)) + 1 = m + ((Len(s) - o) + 1)
    BY <1>2
  <2> HIDE DEF o
  <2>2. Routing!Reverse(t)[k + o] = Routing!Reverse(s)[o]
    BY <1>1, <1>4, <2>1 DEF Occurs
  <2>3. Routing!Reverse(s)[o] = s[j] /\ Routing!Reverse(t)[k + o] = t[(Len(t) - (k + o)) + 1]
    BY <1>1, <2>1
  <2> QED
    BY <2>1, <2>2, <2>3
<1>5. ASSUME Occurs(s, t, m), NEW j \in 1 .. Len(s)
      PROVE  Routing!Reverse(t)[k + j] = Routing!Reverse(s)[j]
  <2> DEFINE o == (Len(s) - j) + 1
  <2>1. o \in 1 .. Len(s) /\ k + j \in 1 .. Len(t) /\ (Len(t) - (k + j)) + 1 = m + o
    BY <1>2
  <2>2. Routing!Reverse(s)[j] = s[o] /\ Routing!Reverse(t)[k + j] = t[(Len(t) - (k + j)) + 1]
    BY <1>1, <2>1
  <2> HIDE DEF o
  <2>3. t[m + o] = s[o]
    BY <1>5, <2>1 DEF Occurs
  <2> QED
    BY <2>1, <2>2, <2>3
<1> QED
  BY <1>1, <1>3, <1>4, <1>5 DEF Occurs

LEMMA EraseLast ==
    ASSUME NEW s \in Text, NEW t \in Text, Len(s) > 0
    PROVE  \/ /\ \A k \in Nat : ~Occurs(s, t, k)
              /\ Routing!erase_last(s, t) = t
           \/ \E k \in Nat : Occurs(s, t, k) /\ Routing!erase_last(s, t) = Without(s, t, k)
<1>0. Len(s) \in Nat /\ Len(t) \in Nat
  BY DEF Text
<1> DEFINE rs == Routing!Reverse(s)
<1> DEFINE rt == Routing!Reverse(t)
<1>1. /\ rs \in Text /\ Len(rs) = Len(s) /\ rt \in Text /\ Len(rt) = Len(t)
      /\ \A j \in 1 .. Len(t) : rt[j] = t[(Len(t) - j) + 1]
  BY Backwards
<1>2. Routing!erase_last(s, t) = Routing!Reverse(Routing!erase_first(rs, rt))
  BY DEF Routing!erase_last
<1>3. \A k, m \in Nat : m = Len(t) - Len(s) - k => (Occurs(rs, rt, k) <=> Occurs(s, t, m))
  BY FoundBackwards
<1> HIDE DEF rs, rt
<1>4. CASE (\A k \in Nat : ~Occurs(rs, rt, k)) /\ Routing!erase_first(rs, rt) = rt
  <2>1. ASSUME NEW k \in Nat, Occurs(s, t, k)
        PROVE  FALSE
    <3> DEFINE m == Len(t) - Len(s) - k
    <3>1. m \in Nat /\ k = Len(t) - Len(s) - m
      BY <1>0, <2>1 DEF Occurs
    <3> HIDE DEF m
    <3> QED
      BY <1>3, <1>4, <2>1, <3>1
  <2>2. Routing!Reverse(rt) = t
    <3>1. /\ Routing!Reverse(rt) \in Text /\ Len(Routing!Reverse(rt)) = Len(t)
          /\ \A j \in 1 .. Len(t) : Routing!Reverse(rt)[j] = rt[(Len(t) - j) + 1]
      BY <1>1, Backwards
    <3>2. \A j \in 1 .. Len(t) :
              (Len(t) - j) + 1 \in 1 .. Len(t) /\ (Len(t) - ((Len(t) - j) + 1)) + 1 = j
      BY <1>0
    <3>3. \A j \in 1 .. Len(t) : Routing!Reverse(rt)[j] = t[j]
      BY <1>1, <3>1, <3>2
    <3> QED
      BY <3>1, <3>3, SameText
  <2> QED
    BY <1>2, <1>4, <2>1, <2>2
<1>5. ASSUME NEW k \in Nat, Occurs(rs, rt, k), Routing!erase_first(rs, rt) = Without(rs, rt, k)
      PROVE  \E m \in Nat : Occurs(s, t, m) /\ Routing!erase_last(s, t) = Without(s, t, m)
  <2> DEFINE m == Len(t) - Len(s) - k
  <2> DEFINE rest == Len(t) - Len(s)
  <2> DEFINE w == Without(rs, rt, k)
  <2>1. m \in Nat /\ rest \in Nat /\ m = rest - k /\ rest + Len(s) = Len(t)
    BY <1>0, <1>1, <1>5 DEF Occurs
  <2>2. Occurs(s, t, m)
    BY <1>3, <1>5, <2>1
  <2>3. w = [j \in 1 .. rest |-> IF j <= k THEN rt[j] ELSE rt[j + Len(s)]]
    BY <1>1 DEF Without
  <2> HIDE DEF m, rest, w
  <2>4. /\ w \in Text /\ Len(w) = rest
        /\ \A j \in 1 .. rest : w[j] = IF j <= k THEN rt[j] ELSE rt[j + Len(s)]
    <3>1. \A j \in 1 .. Len(t) : rt[j] \in Tokens
      BY <1>0, <1>1 DEF Text
    <3>2. ASSUME NEW j \in 1 .. rest
          PROVE  j \in 1 .. Len(t) /\ j + Len(s) \in 1 .. Len(t)
      BY <1>0, <2>1
    <3>3. w \in [1 .. rest -> Tokens]
      BY <2>3, <3>1, <3>2
    <3>4. w \in Text /\ Len(w) = rest
      BY <2>1, <3>3 DEF Text
    <3> QED
      BY <2>3, <3>4
  <2>5. /\ Routing!Reverse(w) \in Text /\ Len(Routing!Reverse(w)) = rest
        /\ \A j \in 1 .. rest : Routing!Reverse(w)[j] = w[(rest - j) + 1]
    BY <2>4, Backwards
  <2>6. ASSUME NEW j \in 1 .. rest
        PROVE  Routing!Reverse(w)[j] = IF j <= m THEN t[j] ELSE t[j + Len(s)]
    <3> DEFINE o == (rest - j) + 1
    <3>1. /\ o \in 1 .. rest /\ o \in 1 .. Len(t) /\ o + Len(s) \in 1 .. Len(t)
          /\ (Len(t) - o) + 1 = j + Len(s) /\ (Len(t) - (o + Len(s))) + 1 = j
          /\ (o <= k <=> ~(j <= m))
      BY <1>0, <2>1
    <3>2. Routing!Reverse(w)[j] = w[o]
      BY <2>5
    <3> HIDE DEF o
    <3>3. w[o] = IF o <= k THEN rt[o] ELSE rt[o + Len(s)]
      BY <2>4, <3>1
    <3>4. rt[o] = t[j + Len(s)] /\ rt[o + Len(s)] = t[j]
      BY <1>1, <3>1
    <3> QED
      BY <3>1, <3>2, <3>3, <3>4
  <2>7. Routing!Reverse(w) = Without(s, t, m)
    <3> DEFINE rw == Routing!Reverse(w)
    <3>1. rw \in Text /\ Len(rw) = rest
      BY <2>5
    <3> HIDE DEF rw
    <3>2. rw = [j \in 1 .. rest |-> rw[j]]
      BY <3>1 DEF Text
    <3>3. Without(s, t, m) = [j \in 1 .. rest |-> IF j <= m THEN t[j] ELSE t[j + Len(s)]]
      BY DEF Without, rest
    <3> QED
      BY <2>6, <3>2, <3>3 DEF rw
  <2> QED
    BY <1>2, <1>5, <2>1, <2>2, <2>7 DEF w
<1>6. \/ (\A k \in Nat : ~Occurs(rs, rt, k)) /\ Routing!erase_first(rs, rt) = rt
      \/ \E k \in Nat : Occurs(rs, rt, k) /\ Routing!erase_first(rs, rt) = Without(rs, rt, k)
  BY <1>0, <1>1, EraseFirst
<1> QED
  BY <1>4, <1>5, <1>6

-----------------------------------------------------------------------------
(* What a target looks like while prefixes are erased: a prefix or none, a *)
(* host with or without a port, and a path of some words                   *)

\* No "/" in it, and no ":" at its end.
HostAndPort(hp) ==
    /\ hp \in Text /\ \A j \in 1 .. Len(hp) : hp[j] # "/"
    /\ Len(hp) > 0 => hp[Len(hp)] # ":"

SchemeOrNone(p) ==
    p = <<>> \/ \E scheme \in Tokens \ Routing!Separators : p = Routing!Prefix(scheme)

\* t is p, host and port, and nothing or what begins with "/" and is made of words.
Looks(t, p, hp, words) ==
    /\ t \in Text /\ Len(p) + Len(hp) <= Len(t)
    /\ \A j \in 1 .. Len(p) : t[j] = p[j]
    /\ \A j \in 1 .. Len(hp) : t[Len(p) + j] = hp[j]
    /\ Len(p) + Len(hp) < Len(t) => t[Len(p) + Len(hp) + 1] = "/"
    /\ \A j \in Len(p) + Len(hp) + 1 .. Len(t) : t[j] \in words

LEMMA OfPrefix ==
    ASSUME NEW scheme \in Tokens
    PROVE  /\ Routing!Prefix(scheme) \in Text /\ Len(Routing!Prefix(scheme)) = 4
           /\ Routing!Prefix(scheme)[1] = scheme /\ Routing!Prefix(scheme)[2] = ":"
           /\ Routing!Prefix(scheme)[3] = "/" /\ Routing!Prefix(scheme)[4] = "/"
<1> DEFINE pr == <<scheme, ":", "/", "/">>
<1>1. Routing!Prefix(scheme) = pr
  BY DEF Routing!Prefix
<1>2. Len(pr) = 4 /\ pr[1] = scheme /\ pr[2] = ":" /\ pr[3] = "/" /\ pr[4] = "/"
  OBVIOUS
<1>3. ":" \in Tokens /\ "/" \in Tokens
  BY DEF Tokens
<1>4. pr \in [1 .. 4 -> Tokens]
  BY <1>3
<1>5. pr \in Text
  BY <1>4 DEF Text
<1> HIDE DEF pr
<1> QED
  BY <1>1, <1>2, <1>5

\* A prefix is found at the beginning, where it is the target's own, or in the path,
\* though not at its beginning.
LEMMA PlacesOfPrefix ==
    ASSUME NEW scheme \in Tokens \ Routing!Separators, NEW t, NEW p, NEW hp, NEW words,
           SchemeOrNone(p), HostAndPort(hp), Looks(t, p, hp, words),
           NEW k \in Nat, Occurs(Routing!Prefix(scheme), t, k)
    PROVE  \/ k = 0 /\ p = Routing!Prefix(scheme)
           \/ k > Len(p) + Len(hp) /\ scheme \in words
<1> DEFINE L == Len(p) + Len(hp)
<1>1. /\ t[k + 1] = scheme /\ t[k + 2] = ":" /\ t[k + 3] = "/" /\ t[k + 4] = "/"
      /\ k + 4 <= Len(t)
  <2> DEFINE pr == Routing!Prefix(scheme)
  <2>1. Len(pr) = 4 /\ pr[1] = scheme /\ pr[2] = ":" /\ pr[3] = "/" /\ pr[4] = "/"
    BY OfPrefix
  <2>2. k + Len(pr) <= Len(t) /\ \A j \in 1 .. Len(pr) : t[k + j] = pr[j]
    BY DEF Occurs
  <2> HIDE DEF pr
  <2>3. 1 \in 1 .. 4 /\ 2 \in 1 .. 4 /\ 3 \in 1 .. 4 /\ 4 \in 1 .. 4
    OBVIOUS
  <2> QED
    BY <2>1, <2>2, <2>3
<1>2. /\ Len(t) \in Nat /\ Len(hp) \in Nat /\ L <= Len(t)
      /\ \A j \in 1 .. Len(p) : t[j] = p[j]
      /\ \A j \in 1 .. Len(hp) : t[Len(p) + j] = hp[j]
      /\ L < Len(t) => t[L + 1] = "/"
      /\ \A j \in L + 1 .. Len(t) : t[j] \in words
  BY DEF Looks, HostAndPort, Text
<1>3. /\ Len(p) \in {0, 4}
      /\ Len(p) = 4 => p[1] \notin Routing!Separators /\ p[2] = ":" /\ p[3] = "/" /\ p[4] = "/"
      /\ Len(p) = 4 => p = Routing!Prefix(p[1])
  <2>1. CASE p = <<>>
    BY <2>1
  <2>2. ASSUME NEW own \in Tokens \ Routing!Separators, p = Routing!Prefix(own)
        PROVE  /\ Len(p) = 4 /\ p[1] = own /\ p[2] = ":" /\ p[3] = "/" /\ p[4] = "/"
               /\ p = Routing!Prefix(p[1])
    BY <2>2, OfPrefix
  <2> QED
    BY <2>1, <2>2 DEF SchemeOrNone
<1>4. ":" \in Routing!Separators /\ "/" \in Routing!Separators /\ ":" # "/"
  BY DEF Routing!Separators
<1>5. CASE k + 2 <= Len(p)
  <2>1. Len(p) = 4 /\ k + 2 \in {2, 3, 4} /\ p[k + 2] = ":"
    BY <1>1, <1>2, <1>3, <1>5
  <2>2. k + 2 = 2
    BY <1>3, <1>4, <2>1
  <2>3. k = 0
    BY <2>2
  <2>4. p[1] = scheme
    BY <1>1, <1>2, <2>1, <2>3
  <2> QED
    BY <1>3, <2>1, <2>3, <2>4
<1>6. CASE k + 2 > Len(p) /\ k + 2 <= L
  <2> DEFINE j == k + 2 - Len(p)
  <2>1. j \in 1 .. Len(hp) /\ Len(p) + j = k + 2
    BY <1>2, <1>3, <1>6
  <2>2. hp[j] = ":"
    BY <1>1, <1>2, <2>1
  <2>3. j + 1 \in 1 .. Len(hp) /\ Len(p) + (j + 1) = k + 3
    BY <1>2, <1>3, <1>4, <2>1, <2>2 DEF HostAndPort
  <2> HIDE DEF j
  <2>4. hp[j + 1] = t[k + 3]
    BY <1>2, <2>3
  <2> QED
    BY <1>1, <2>3, <2>4 DEF HostAndPort
<1>7. CASE k + 2 > L
  <2>1. L \in Nat /\ L < Len(t)
    BY <1>1, <1>2, <1>3, <1>7
  <2>2. k + 2 # L + 1
    BY <1>1, <1>2, <1>4, <2>1
  <2>3. k + 1 # L + 1
    BY <1>1, <1>2, <1>4, <2>1
  <2>4. k > L
    BY <1>7, <2>1, <2>2, <2>3
  <2>5. scheme \in words
    <3>1. k + 1 \in L + 1 .. Len(t)
      BY <1>1, <1>2, <2>1, <2>4
    <3> QED
      BY <1>1, <1>2, <3>1
  <2> QED
    BY <2>4, <2>5
<1> QED
  BY <1>2, <1>3, <1>5, <1>6, <1>7

LEMMA OwnPrefix ==
    ASSUME NEW t, NEW hp, NEW words, NEW scheme \in Tokens,
           Looks(t, Routing!Prefix(scheme), hp, words), hp \in Text
    PROVE  Occurs(Routing!Prefix(scheme), t, 0)
<1>1. Len(Routing!Prefix(scheme)) = 4 /\ Len(hp) \in Nat /\ Len(t) \in Nat
  BY OfPrefix DEF Looks, Text
<1>2. /\ 0 + Len(Routing!Prefix(scheme)) <= Len(t)
      /\ \A j \in 1 .. Len(Routing!Prefix(scheme)) : t[j] = Routing!Prefix(scheme)[j]
  BY <1>1 DEF Looks
<1>3. \A j \in 1 .. 4 : 0 + j = j
  OBVIOUS
<1> QED
  BY <1>1, <1>2, <1>3 DEF Occurs

\* The text that is left when a prefix goes.
LEMMA WithoutPrefix ==
    ASSUME NEW scheme \in Tokens, NEW t \in Text, NEW k \in Nat,
           Occurs(Routing!Prefix(scheme), t, k)
    PROVE  LET u == Without(Routing!Prefix(scheme), t, k)
           IN  /\ u \in Text /\ Len(u) = Len(t) - 4 /\ k + 4 <= Len(t)
               /\ \A j \in 1 .. Len(t) - 4 : u[j] = IF j <= k THEN t[j] ELSE t[j + 4]
<1> DEFINE u == Without(Routing!Prefix(scheme), t, k)
<1>1. Len(Routing!Prefix(scheme)) = 4 /\ Len(t) \in Nat /\ \A j \in 1 .. Len(t) : t[j] \in Tokens
  BY OfPrefix DEF Text
<1>2. k + 4 <= Len(t)
  BY <1>1 DEF Occurs
<1>3. u = [j \in 1 .. Len(t) - 4 |-> IF j <= k THEN t[j] ELSE t[j + 4]]
  BY <1>1 DEF Without
<1> HIDE DEF u
<1>4. ASSUME NEW j \in 1 .. Len(t) - 4
      PROVE  j \in 1 .. Len(t) /\ j + 4 \in 1 .. Len(t)
  BY <1>1
<1>5. u \in [1 .. Len(t) - 4 -> Tokens]
  BY <1>1, <1>3, <1>4
<1>6. u \in Text /\ Len(u) = Len(t) - 4
  BY <1>1, <1>2, <1>5 DEF Text
<1> QED
  BY <1>2, <1>3, <1>6 DEF u

LEMMA ErasedInPath ==
    ASSUME NEW scheme \in Tokens, NEW t, NEW p \in Text, NEW hp \in Text, NEW words,
           Looks(t, p, hp, words), NEW k \in Nat,
           Occurs(Routing!Prefix(scheme), t, k), k > Len(p) + Len(hp)
    PROVE  Looks(Without(Routing!Prefix(scheme), t, k), p, hp, words)
<1> DEFINE u == Without(Routing!Prefix(scheme), t, k)
<1> DEFINE L == Len(p) + Len(hp)
<1>1. /\ t \in Text /\ Len(t) \in Nat /\ Len(p) \in Nat /\ Len(hp) \in Nat /\ L <= Len(t)
      /\ \A j \in 1 .. Len(p) : t[j] = p[j]
      /\ \A j \in 1 .. Len(hp) : t[Len(p) + j] = hp[j]
      /\ L < Len(t) => t[L + 1] = "/"
      /\ \A j \in L + 1 .. Len(t) : t[j] \in words
  BY DEF Looks, Text
<1>2. /\ u \in Text /\ Len(u) = Len(t) - 4 /\ k + 4 <= Len(t)
      /\ \A j \in 1 .. Len(t) - 4 : u[j] = IF j <= k THEN t[j] ELSE t[j + 4]
  BY <1>1, WithoutPrefix
<1> HIDE DEF u
<1>3. \A j \in 1 .. L + 1 : j \in 1 .. Len(t) - 4 /\ j <= k
  BY <1>1, <1>2
<1>4. \A j \in 1 .. L + 1 : u[j] = t[j]
  BY <1>2, <1>3
<1>5. \A j \in 1 .. Len(p) : u[j] = p[j]
  BY <1>1, <1>4
<1>6. \A j \in 1 .. Len(hp) : u[Len(p) + j] = hp[j]
  BY <1>1, <1>4
<1>7. u[L + 1] = "/" /\ L < Len(u)
  <2>1. L + 1 \in 1 .. L + 1 /\ L < Len(t) /\ L < Len(u)
    BY <1>1, <1>2
  <2> QED
    BY <1>1, <1>4, <2>1
<1>8. ASSUME NEW j \in L + 1 .. Len(u)
      PROVE  u[j] \in words
  <2>1. j \in 1 .. Len(t) - 4 /\ j \in L + 1 .. Len(t) /\ j + 4 \in L + 1 .. Len(t)
    BY <1>1, <1>2
  <2> QED
    BY <1>1, <1>2, <2>1
<1> QED
  BY <1>1, <1>2, <1>5, <1>6, <1>7, <1>8 DEF Looks, u

LEMMA ErasedOwn ==
    ASSUME NEW scheme \in Tokens, NEW t, NEW hp \in Text, NEW words,
           Looks(t, Routing!Prefix(scheme), hp, words)
    PROVE  Looks(Without(Routing!Prefix(scheme), t, 0), <<>>, hp, words)
<1> DEFINE u == Without(Routing!Prefix(scheme), t, 0)
<1>1. Len(Routing!Prefix(scheme)) = 4
  BY OfPrefix
<1>2. /\ t \in Text /\ Len(t) \in Nat /\ Len(hp) \in Nat /\ 4 + Len(hp) <= Len(t)
      /\ \A j \in 1 .. Len(hp) : t[4 + j] = hp[j]
      /\ 4 + Len(hp) < Len(t) => t[4 + Len(hp) + 1] = "/"
      /\ \A j \in 4 + Len(hp) + 1 .. Len(t) : t[j] \in words
  BY <1>1 DEF Looks, Text
<1>3. /\ u \in Text /\ Len(u) = Len(t) - 4
      /\ \A j \in 1 .. Len(t) - 4 : u[j] = t[j + 4]
  <2>1. 0 \in Nat /\ Occurs(Routing!Prefix(scheme), t, 0)
    BY OwnPrefix
  <2>2. /\ u \in Text /\ Len(u) = Len(t) - 4
        /\ \A j \in 1 .. Len(t) - 4 : u[j] = IF j <= 0 THEN t[j] ELSE t[j + 4]
    BY <1>2, <2>1, WithoutPrefix
  <2>3. \A j \in 1 .. Len(t) - 4 : ~(j <= 0)
    BY <1>2
  <2> HIDE DEF u
  <2> QED
    BY <2>2, <2>3
<1> HIDE DEF u
<1>4. <<>> \in Text /\ Len(<<>>) = 0
  BY DEF Text
<1>5. \A j \in 1 .. Len(hp) : u[0 + j] = hp[j]
  <2>1. ASSUME NEW j \in 1 .. Len(hp)
        PROVE  j \in 1 .. Len(t) - 4 /\ 0 + j = j /\ j + 4 = 4 + j
    BY <1>2
  <2> QED
    BY <1>2, <1>3, <2>1
<1>6. 0 + Len(hp) < Len(u) => u[0 + Len(hp) + 1] = "/"
  <2>1. ASSUME Len(hp) < Len(u)
        PROVE  u[Len(hp) + 1] = "/"
    <3>1. /\ Len(hp) + 1 \in 1 .. Len(t) - 4
          /\ (Len(hp) + 1) + 4 = 4 + Len(hp) + 1 /\ 4 + Len(hp) < Len(t)
      BY <1>2, <1>3, <2>1
    <3> QED
      BY <1>2, <1>3, <3>1
  <2>2. 0 + Len(hp) = Len(hp)
    BY <1>2
  <2> QED
    BY <2>1, <2>2
<1>7. ASSUME NEW j \in 0 + Len(hp) + 1 .. Len(u)
      PROVE  u[j] \in words
  <2>1. j \in 1 .. Len(t) - 4 /\ j + 4 \in 4 + Len(hp) + 1 .. Len(t)
    BY <1>2, <1>3
  <2> QED
    BY <1>2, <1>3, <2>1
<1>8. 0 + Len(hp) <= Len(u)
  BY <1>2, <1>3
<1> QED
  BY <1>3, <1>4, <1>5, <1>6, <1>7, <1>8 DEF Looks, u

-----------------------------------------------------------------------------
(* All four prefixes in turn                                               *)

\* What is left of the target's own prefix when the scheme's is erased.
Left(p, scheme) == IF p = Routing!Prefix(scheme) THEN <<>> ELSE p

LEMMA SchemesDiffer ==
    ASSUME NEW a \in Tokens, NEW b \in Tokens, Routing!Prefix(a) = Routing!Prefix(b)
    PROVE  a = b
  BY OfPrefix

LEMMA PrefixOfNone ==
    ASSUME NEW a \in Tokens
    PROVE  Routing!Prefix(a) # <<>>
  BY OfPrefix

LEMMA LooksText ==
    ASSUME NEW t, NEW p, NEW hp, NEW words, Looks(t, p, hp, words)
    PROVE  t \in Text
  BY DEF Looks

LEMMA ErasedFirst ==
    ASSUME NEW scheme \in Tokens \ Routing!Separators, NEW t, NEW p \in Text, NEW hp, NEW words,
           SchemeOrNone(p), HostAndPort(hp), Looks(t, p, hp, words)
    PROVE  Looks(Routing!erase_first(Routing!Prefix(scheme), t), Left(p, scheme), hp, words)
<1> DEFINE pr == Routing!Prefix(scheme)
<1>1. pr \in Text /\ Len(pr) > 0
  BY OfPrefix
<1>2. hp \in Text /\ t \in Text
  BY LooksText DEF HostAndPort
<1>3. p = pr => Occurs(pr, t, 0)
  BY <1>2, OwnPrefix
<1>4. \A k \in Nat : Occurs(pr, t, k) =>
          (k = 0 /\ p = pr) \/ (k > Len(p) + Len(hp) /\ scheme \in words)
  BY PlacesOfPrefix
<1>5. CASE (\A k \in Nat : ~Occurs(pr, t, k)) /\ Routing!erase_first(pr, t) = t
  BY <1>3, <1>5 DEF Left
<1>6. ASSUME NEW k \in Nat, Occurs(pr, t, k), \A j \in 0 .. k - 1 : ~Occurs(pr, t, j),
             Routing!erase_first(pr, t) = Without(pr, t, k)
      PROVE  Looks(Routing!erase_first(pr, t), Left(p, scheme), hp, words)
  <2>1. CASE p = pr
    <3>1. k = 0
      BY <1>3, <1>6, <2>1
    <3> QED
      BY <1>2, <1>6, <2>1, <3>1, ErasedOwn DEF Left
  <2>2. CASE p # pr
    <3>1. k > Len(p) + Len(hp)
      BY <1>4, <1>6, <2>2
    <3> QED
      BY <1>2, <1>6, <2>2, <3>1, ErasedInPath DEF Left
  <2> QED
    BY <2>1, <2>2
<1>7. \/ (\A k \in Nat : ~Occurs(pr, t, k)) /\ Routing!erase_first(pr, t) = t
      \/ \E k \in Nat : /\ Occurs(pr, t, k) /\ \A j \in 0 .. k - 1 : ~Occurs(pr, t, j)
                        /\ Routing!erase_first(pr, t) = Without(pr, t, k)
  BY <1>1, <1>2, EraseFirst
<1> QED
  BY <1>5, <1>6, <1>7

\* From the end the same goes, unless the path has the scheme as well.
LEMMA ErasedLast ==
    ASSUME NEW scheme \in Tokens \ Routing!Separators, NEW t, NEW p \in Text, NEW hp, NEW words,
           SchemeOrNone(p), HostAndPort(hp), Looks(t, p, hp, words),
           p = Routing!Prefix(scheme) => scheme \notin words
    PROVE  Looks(Routing!erase_last(Routing!Prefix(scheme), t), Left(p, scheme), hp, words)
<1> DEFINE pr == Routing!Prefix(scheme)
<1>1. pr \in Text /\ Len(pr) > 0
  BY OfPrefix
<1>2. hp \in Text /\ t \in Text
  BY LooksText DEF HostAndPort
<1>3. p = pr => Occurs(pr, t, 0)
  BY <1>2, OwnPrefix
<1>4. \A k \in Nat : Occurs(pr, t, k) =>
          (k = 0 /\ p = pr) \/ (k > Len(p) + Len(hp) /\ scheme \in words)
  BY PlacesOfPrefix
<1>5. CASE (\A k \in Nat : ~Occurs(pr, t, k)) /\ Routing!erase_last(pr, t) = t
  BY <1>3, <1>5 DEF Left
<1>6. ASSUME NEW k \in Nat, Occurs(pr, t, k), Routing!erase_last(pr, t) = Without(pr, t, k)
      PROVE  Looks(Routing!erase_last(pr, t), Left(p, scheme), hp, words)
  <2>1. CASE p = pr
    <3>1. k = 0
      BY <1>4, <1>6, <2>1
    <3> QED
      BY <1>2, <1>6, <2>1, <3>1, ErasedOwn DEF Left
  <2>2. CASE p # pr
    <3>1. k > Len(p) + Len(hp)
      BY <1>4, <1>6, <2>2
    <3> QED
      BY <1>2, <1>6, <2>2, <3>1, ErasedInPath DEF Left
  <2> QED
    BY <2>1, <2>2
<1>7. \/ (\A k \in Nat : ~Occurs(pr, t, k)) /\ Routing!erase_last(pr, t) = t
      \/ \E k \in Nat : Occurs(pr, t, k) /\ Routing!erase_last(pr, t) = Without(pr, t, k)
  BY <1>1, <1>2, EraseLast
<1> QED
  BY <1>5, <1>6, <1>7

LEMMA LeftOfPrefix ==
    ASSUME NEW p \in Text, SchemeOrNone(p), NEW scheme \in Tokens
    PROVE  /\ Left(p, scheme) \in Text /\ SchemeOrNone(Left(p, scheme))
           /\ Left(p, scheme) \in {p, <<>>}
<1>1. <<>> \in Text
  BY DEF Text
<1> QED
  BY <1>1 DEF Left, SchemeOrNone

\* A fold chooses a function on sets of places, which takes each set by its last.
Turns(F, base, h) == \A s \in SUBSET (1 .. 4) :
    h[s] = IF s = {} THEN base ELSE F[<<Routing!Max(s), h[s \ {Routing!Max(s)}]>>]

LEMMA FoldExists ==
    ASSUME NEW A, NEW base \in A, NEW F \in [(1 .. 4) \X A -> A]
    PROVE  \E h \in [SUBSET (1 .. 4) -> A] : Turns(F, base, h)
<1>1. 4 \in Nat
  OBVIOUS
<1>2. \A s : Routing!Max(s) = Tools!Max(s)
  BY DEF Routing!Max, Tools!Max
<1>3. PICK h \in [SUBSET (1 .. 4) -> A] : Tools!TakesLast(F, base, h, 4)
  BY <1>1, Tools!TakesLastExists
<1>4. Turns(F, base, h)
  BY <1>2, <1>3 DEF Tools!TakesLast, Turns
<1> QED
  BY <1>4

LEMMA LastPlace ==
    /\ \A s \in SUBSET (1 .. 4) : s # {} => Routing!Max(s) \in s
    /\ \A k \in 0 .. 3, m \in 1 .. 4 : m = k + 1 =>
           Routing!Max(1 .. m) = m /\ (1 .. m) \ {m} = 1 .. k
<1>1. \A s : Routing!Max(s) = Tools!Max(s)
  BY DEF Routing!Max, Tools!Max
<1>2. ASSUME NEW s \in SUBSET (1 .. 4), s # {}
      PROVE  Routing!Max(s) \in s /\ \A k \in s : k <= Routing!Max(s)
  <2>1. 4 \in Nat /\ s \in SUBSET (0 .. 4)
    OBVIOUS
  <2> QED
    BY <1>1, <1>2, <2>1, Tools!MaxOfNumbers
<1>3. ASSUME NEW k \in 0 .. 3, NEW m \in 1 .. 4, m = k + 1
      PROVE  Routing!Max(1 .. m) = m /\ (1 .. m) \ {m} = 1 .. k
  <2>1. 1 .. m \in SUBSET (1 .. 4) /\ m \in 1 .. m
    OBVIOUS
  <2>2. Routing!Max(1 .. m) \in 1 .. m /\ \A j \in 1 .. m : j <= Routing!Max(1 .. m)
    BY <1>2, <2>1
  <2>3. (1 .. m) \ {m} = 1 .. k
    BY <1>3
  <2> QED
    BY <2>1, <2>2, <2>3
<1> QED
  BY <1>2, <1>3

LEMMA ErasedText ==
    ASSUME NEW s \in Text, NEW t \in Text, Len(s) > 0
    PROVE  Routing!erase_first(s, t) \in Text /\ Routing!erase_last(s, t) \in Text
<1>1. Len(s) \in Nat /\ Len(t) \in Nat /\ \A j \in 1 .. Len(t) : t[j] \in Tokens
  BY DEF Text
<1>2. ASSUME NEW k \in Nat, Occurs(s, t, k)
      PROVE  Without(s, t, k) \in Text
  <2>1. Len(t) - Len(s) \in Nat
    BY <1>1, <1>2 DEF Occurs
  <2>2. ASSUME NEW j \in 1 .. Len(t) - Len(s)
        PROVE  (IF j <= k THEN t[j] ELSE t[j + Len(s)]) \in Tokens
    <3>1. j \in 1 .. Len(t) /\ j + Len(s) \in 1 .. Len(t)
      BY <1>1
    <3> QED
      BY <1>1, <3>1
  <2>3. Without(s, t, k) \in [1 .. Len(t) - Len(s) -> Tokens]
    BY <2>2 DEF Without
  <2> QED
    BY <2>1, <2>3 DEF Text
<1> QED
  BY <1>2, EraseFirst, EraseLast

LEMMA FourSchemes ==
    /\ Len(Routing!Schemes) = 4 /\ DOMAIN Routing!Schemes = 1 .. 4
    /\ \A k \in 1 .. 4 : Routing!Schemes[k] \in Tokens \ Routing!Separators
    /\ \A k \in 1 .. 4, m \in 1 .. 4 : Routing!Schemes[k] = Routing!Schemes[m] => k = m
<1> DEFINE ss == <<"http", "https", "ws", "wss">>
<1>1. Routing!Schemes = ss
  BY DEF Routing!Schemes
<1>2. /\ DOMAIN ss = 1 .. 4 /\ Len(ss) = 4
      /\ ss[1] = "http" /\ ss[2] = "https" /\ ss[3] = "ws" /\ ss[4] = "wss"
  OBVIOUS
<1> HIDE DEF ss
<1>3. \A k \in 1 .. 4 : k = 1 \/ k = 2 \/ k = 3 \/ k = 4
  OBVIOUS
<1>4. \A k \in 1 .. 4 : ss[k] \in Tokens \ Routing!Separators
  BY <1>2, <1>3 DEF Tokens, Routing!Separators
<1>5. \A k \in 1 .. 4, m \in 1 .. 4 : ss[k] = ss[m] => k = m
  BY <1>2, <1>3
<1> QED
  BY <1>1, <1>2, <1>4, <1>5

ErasedAtFirst(k, t) == Routing!erase_first(Routing!Prefix(Routing!Schemes[k]), t)

ErasedAtLast(k, t) == Routing!erase_last(Routing!Prefix(Routing!Schemes[k]), t)

LEMMA TurnsOfClient ==
    ASSUME NEW target \in Text
    PROVE  Routing!FoldLeft(LAMBDA t, s : Routing!erase_first(Routing!Prefix(s), t), target,
                            Routing!Schemes) =
           ErasedAtFirst(4, ErasedAtFirst(3, ErasedAtFirst(2, ErasedAtFirst(1, target))))
<1> DEFINE Is(h) == h = [s \in SUBSET (1 .. 4) |->
               IF s = {} THEN target
               ELSE ErasedAtFirst(Routing!Max(s), h[s \ {Routing!Max(s)}])]
<1> DEFINE g == CHOOSE h : Is(h)
<1>1. Routing!FoldLeft(LAMBDA t, s : Routing!erase_first(Routing!Prefix(s), t), target,
                       Routing!Schemes) = g[1 .. 4]
  <2>1. DOMAIN Routing!Schemes = 1 .. 4
    BY FourSchemes
  <2> QED
    BY <2>1 DEF Routing!FoldLeft, Routing!MapThenFoldSet, ErasedAtFirst
<1>2. \A k \in 1 .. 4 : \A t \in Text : ErasedAtFirst(k, t) \in Text
  BY FourSchemes, OfPrefix, ErasedText DEF ErasedAtFirst
<1> DEFINE F == [q \in (1 .. 4) \X Text |-> ErasedAtFirst(q[1], q[2])]
<1>3. F \in [(1 .. 4) \X Text -> Text]
  BY <1>2
<1>4. \A k \in 1 .. 4 : \A t \in Text : F[<<k, t>>] = ErasedAtFirst(k, t)
  OBVIOUS
<1> HIDE DEF F
<1>5. PICK h \in [SUBSET (1 .. 4) -> Text] : Turns(F, target, h)
  BY <1>3, FoldExists
<1>6. ASSUME NEW s \in SUBSET (1 .. 4), s # {}
      PROVE  h[s] = ErasedAtFirst(Routing!Max(s), h[s \ {Routing!Max(s)}])
  <2>1. Routing!Max(s) \in 1 .. 4
    BY <1>6, LastPlace
  <2>2. s \ {Routing!Max(s)} \in SUBSET (1 .. 4)
    OBVIOUS
  <2>3. h[s \ {Routing!Max(s)}] \in Text
    BY <1>5, <2>2
  <2> QED
    BY <1>4, <1>5, <1>6, <2>1, <2>3 DEF Turns
<1>7. Is(h)
  BY <1>5, <1>6 DEF Turns
<1>8. Is(g)
  BY <1>7
<1> HIDE DEF g
<1>9. \A s \in SUBSET (1 .. 4) :
          g[s] = IF s = {} THEN target ELSE ErasedAtFirst(Routing!Max(s), g[s \ {Routing!Max(s)}])
  BY <1>8
<1> DEFINE G(m) == g[1 .. m]
<1>10. G(0) = target
  <2>1. 1 .. 0 = {} /\ {} \in SUBSET (1 .. 4)
    OBVIOUS
  <2> QED
    BY <1>9, <2>1
<1>11. ASSUME NEW k \in 0 .. 3, NEW m \in 1 .. 4, m = k + 1
       PROVE  G(m) = ErasedAtFirst(m, G(k))
  <2>1. Routing!Max(1 .. m) = m /\ (1 .. m) \ {m} = 1 .. k
    BY <1>11, LastPlace
  <2>2. 1 .. m # {} /\ 1 .. m \in SUBSET (1 .. 4)
    OBVIOUS
  <2>3. G(m) = ErasedAtFirst(Routing!Max(1 .. m), g[(1 .. m) \ {Routing!Max(1 .. m)}])
    BY <1>9, <2>2
  <2> QED
    BY <2>1, <2>3
<1> HIDE DEF G
<1>12. /\ G(1) = ErasedAtFirst(1, G(0)) /\ G(2) = ErasedAtFirst(2, G(1))
       /\ G(3) = ErasedAtFirst(3, G(2)) /\ G(4) = ErasedAtFirst(4, G(3))
  BY <1>11
<1>13. G(4) = ErasedAtFirst(4, ErasedAtFirst(3, ErasedAtFirst(2, ErasedAtFirst(1, target))))
  BY <1>10, <1>12
<1> QED
  BY <1>1, <1>13 DEF G

LEMMA TurnsOfServer ==
    ASSUME NEW target \in Text
    PROVE  Routing!FoldLeft(LAMBDA t, s : Routing!erase_last(Routing!Prefix(s), t), target,
                            Routing!Schemes) =
           ErasedAtLast(4, ErasedAtLast(3, ErasedAtLast(2, ErasedAtLast(1, target))))
<1> DEFINE Is(h) == h = [s \in SUBSET (1 .. 4) |->
               IF s = {} THEN target
               ELSE ErasedAtLast(Routing!Max(s), h[s \ {Routing!Max(s)}])]
<1> DEFINE g == CHOOSE h : Is(h)
<1>1. Routing!FoldLeft(LAMBDA t, s : Routing!erase_last(Routing!Prefix(s), t), target,
                       Routing!Schemes) = g[1 .. 4]
  <2>1. DOMAIN Routing!Schemes = 1 .. 4
    BY FourSchemes
  <2> QED
    BY <2>1 DEF Routing!FoldLeft, Routing!MapThenFoldSet, ErasedAtLast
<1>2. \A k \in 1 .. 4 : \A t \in Text : ErasedAtLast(k, t) \in Text
  BY FourSchemes, OfPrefix, ErasedText DEF ErasedAtLast
<1> DEFINE F == [q \in (1 .. 4) \X Text |-> ErasedAtLast(q[1], q[2])]
<1>3. F \in [(1 .. 4) \X Text -> Text]
  BY <1>2
<1>4. \A k \in 1 .. 4 : \A t \in Text : F[<<k, t>>] = ErasedAtLast(k, t)
  OBVIOUS
<1> HIDE DEF F
<1>5. PICK h \in [SUBSET (1 .. 4) -> Text] : Turns(F, target, h)
  BY <1>3, FoldExists
<1>6. ASSUME NEW s \in SUBSET (1 .. 4), s # {}
      PROVE  h[s] = ErasedAtLast(Routing!Max(s), h[s \ {Routing!Max(s)}])
  <2>1. Routing!Max(s) \in 1 .. 4
    BY <1>6, LastPlace
  <2>2. s \ {Routing!Max(s)} \in SUBSET (1 .. 4)
    OBVIOUS
  <2>3. h[s \ {Routing!Max(s)}] \in Text
    BY <1>5, <2>2
  <2> QED
    BY <1>4, <1>5, <1>6, <2>1, <2>3 DEF Turns
<1>7. Is(h)
  BY <1>5, <1>6 DEF Turns
<1>8. Is(g)
  BY <1>7
<1> HIDE DEF g
<1>9. \A s \in SUBSET (1 .. 4) :
          g[s] = IF s = {} THEN target ELSE ErasedAtLast(Routing!Max(s), g[s \ {Routing!Max(s)}])
  BY <1>8
<1> DEFINE G(m) == g[1 .. m]
<1>10. G(0) = target
  <2>1. 1 .. 0 = {} /\ {} \in SUBSET (1 .. 4)
    OBVIOUS
  <2> QED
    BY <1>9, <2>1
<1>11. ASSUME NEW k \in 0 .. 3, NEW m \in 1 .. 4, m = k + 1
       PROVE  G(m) = ErasedAtLast(m, G(k))
  <2>1. Routing!Max(1 .. m) = m /\ (1 .. m) \ {m} = 1 .. k
    BY <1>11, LastPlace
  <2>2. 1 .. m # {} /\ 1 .. m \in SUBSET (1 .. 4)
    OBVIOUS
  <2>3. G(m) = ErasedAtLast(Routing!Max(1 .. m), g[(1 .. m) \ {Routing!Max(1 .. m)}])
    BY <1>9, <2>2
  <2> QED
    BY <2>1, <2>3
<1> HIDE DEF G
<1>12. /\ G(1) = ErasedAtLast(1, G(0)) /\ G(2) = ErasedAtLast(2, G(1))
       /\ G(3) = ErasedAtLast(3, G(2)) /\ G(4) = ErasedAtLast(4, G(3))
  BY <1>11
<1>13. G(4) = ErasedAtLast(4, ErasedAtLast(3, ErasedAtLast(2, ErasedAtLast(1, target))))
  BY <1>10, <1>12
<1> QED
  BY <1>1, <1>13 DEF G

\* A prefix that may be the target's: none, or one of the schemes, and for the server
\* none that the path has too.
OwnOrNone(p, words) ==
    /\ p \in Text
    /\ p = <<>> \/ \E k \in 1 .. 4 : /\ p = Routing!Prefix(Routing!Schemes[k])
                                    /\ Routing!Schemes[k] \notin words

LEMMA OwnPrefixGoes ==
    ASSUME NEW p \in Text, p = <<>> \/ \E k \in 1 .. 4 : p = Routing!Prefix(Routing!Schemes[k])
    PROVE  /\ SchemeOrNone(p)
           /\ \A k \in 1 .. 4 : /\ Left(p, Routing!Schemes[k]) \in Text
                                /\ Left(p, Routing!Schemes[k]) \in {p, <<>>}
           /\ Left(Left(Left(Left(p, Routing!Schemes[1]), Routing!Schemes[2]),
                        Routing!Schemes[3]), Routing!Schemes[4]) = <<>>
<1>1. SchemeOrNone(p)
  BY FourSchemes DEF SchemeOrNone
<1>2. \A k \in 1 .. 4 : /\ Left(p, Routing!Schemes[k]) \in Text
                       /\ Left(p, Routing!Schemes[k]) \in {p, <<>>}
  BY <1>1, FourSchemes, LeftOfPrefix
<1>3. \A k \in 1 .. 4 : Left(<<>>, Routing!Schemes[k]) = <<>>
  BY DEF Left
<1>4. \A k \in 1 .. 4 : Left(p, Routing!Schemes[k]) = <<>> \/ Left(p, Routing!Schemes[k]) = p
  BY DEF Left
<1>5. \A k \in 1 .. 4 : p = Routing!Prefix(Routing!Schemes[k]) => Left(p, Routing!Schemes[k]) = <<>>
  BY DEF Left
<1>6. 1 \in 1 .. 4 /\ 2 \in 1 .. 4 /\ 3 \in 1 .. 4 /\ 4 \in 1 .. 4
  OBVIOUS
<1>7. \A k \in 1 .. 4 : k = 1 \/ k = 2 \/ k = 3 \/ k = 4
  OBVIOUS
<1>8. Left(Left(Left(Left(p, Routing!Schemes[1]), Routing!Schemes[2]),
                Routing!Schemes[3]), Routing!Schemes[4]) = <<>>
  BY <1>3, <1>4, <1>5, <1>6, <1>7
<1> QED
  BY <1>1, <1>2, <1>8

LEMMA TurnAtClient ==
    ASSUME NEW k \in 1 .. 4, NEW t, NEW p, NEW hp, NEW words,
           OwnOrNone(p, {}), HostAndPort(hp), Looks(t, p, hp, words)
    PROVE  /\ Looks(ErasedAtFirst(k, t), Left(p, Routing!Schemes[k]), hp, words)
           /\ OwnOrNone(Left(p, Routing!Schemes[k]), {})
<1>1. p \in Text /\ SchemeOrNone(p)
  BY OwnPrefixGoes DEF OwnOrNone
<1>2. Looks(ErasedAtFirst(k, t), Left(p, Routing!Schemes[k]), hp, words)
  BY <1>1, FourSchemes, ErasedFirst DEF ErasedAtFirst
<1>3. Left(p, Routing!Schemes[k]) \in Text /\ Left(p, Routing!Schemes[k]) \in {p, <<>>}
  BY OwnPrefixGoes DEF OwnOrNone
<1> QED
  BY <1>2, <1>3 DEF OwnOrNone

LEMMA TurnAtServer ==
    ASSUME NEW k \in 1 .. 4, NEW t, NEW p, NEW hp, NEW words,
           OwnOrNone(p, words), HostAndPort(hp), Looks(t, p, hp, words)
    PROVE  /\ Looks(ErasedAtLast(k, t), Left(p, Routing!Schemes[k]), hp, words)
           /\ OwnOrNone(Left(p, Routing!Schemes[k]), words)
<1>1. p \in Text /\ SchemeOrNone(p)
  BY OwnPrefixGoes DEF OwnOrNone
<1>2. p = Routing!Prefix(Routing!Schemes[k]) => Routing!Schemes[k] \notin words
  <2>1. Routing!Prefix(Routing!Schemes[k]) # <<>>
    BY FourSchemes, PrefixOfNone
  <2>2. \A m \in 1 .. 4 : Routing!Prefix(Routing!Schemes[m]) = Routing!Prefix(Routing!Schemes[k])
            => Routing!Schemes[m] = Routing!Schemes[k]
    BY FourSchemes, SchemesDiffer
  <2> QED
    BY <2>1, <2>2 DEF OwnOrNone
<1>3. Looks(ErasedAtLast(k, t), Left(p, Routing!Schemes[k]), hp, words)
  BY <1>1, <1>2, FourSchemes, ErasedLast DEF ErasedAtLast
<1>4. Left(p, Routing!Schemes[k]) \in Text /\ Left(p, Routing!Schemes[k]) \in {p, <<>>}
  BY OwnPrefixGoes DEF OwnOrNone
<1> QED
  BY <1>3, <1>4 DEF OwnOrNone

LEMMA BareAtClient ==
    ASSUME NEW t, NEW p, NEW hp, NEW words,
           OwnOrNone(p, {}), HostAndPort(hp), Looks(t, p, hp, words)
    PROVE  Looks(Routing!FoldLeft(LAMBDA u, s : Routing!erase_first(Routing!Prefix(s), u), t,
                                  Routing!Schemes), <<>>, hp, words)
<1> DEFINE t1 == ErasedAtFirst(1, t)
<1> DEFINE t2 == ErasedAtFirst(2, t1)
<1> DEFINE t3 == ErasedAtFirst(3, t2)
<1> DEFINE t4 == ErasedAtFirst(4, t3)
<1> DEFINE p1 == Left(p, Routing!Schemes[1])
<1> DEFINE p2 == Left(p1, Routing!Schemes[2])
<1> DEFINE p3 == Left(p2, Routing!Schemes[3])
<1> DEFINE p4 == Left(p3, Routing!Schemes[4])
<1>0. 1 \in 1 .. 4 /\ 2 \in 1 .. 4 /\ 3 \in 1 .. 4 /\ 4 \in 1 .. 4
  OBVIOUS
<1>1. Looks(t1, p1, hp, words) /\ OwnOrNone(p1, {})
  BY <1>0, TurnAtClient
<1>2. Looks(t2, p2, hp, words) /\ OwnOrNone(p2, {})
  <2> HIDE DEF t1, p1
  <2> QED
    BY <1>0, <1>1, TurnAtClient
<1>3. Looks(t3, p3, hp, words) /\ OwnOrNone(p3, {})
  <2> HIDE DEF t2, p2
  <2> QED
    BY <1>0, <1>2, TurnAtClient
<1>4. Looks(t4, p4, hp, words)
  <2> HIDE DEF t3, p3
  <2> QED
    BY <1>0, <1>3, TurnAtClient
<1>5. p4 = <<>>
  <2>1. p \in Text /\ (p = <<>> \/ \E k \in 1 .. 4 : p = Routing!Prefix(Routing!Schemes[k]))
    BY DEF OwnOrNone
  <2> QED
    BY <2>1, OwnPrefixGoes
<1>6. t \in Text
  BY LooksText
<1>7. Routing!FoldLeft(LAMBDA u, s : Routing!erase_first(Routing!Prefix(s), u), t,
                       Routing!Schemes) = t4
  BY <1>6, TurnsOfClient
<1> HIDE DEF t4, p4
<1> QED
  BY <1>4, <1>5, <1>7

LEMMA BareAtServer ==
    ASSUME NEW t, NEW p, NEW hp, NEW words,
           OwnOrNone(p, words), HostAndPort(hp), Looks(t, p, hp, words)
    PROVE  Looks(Routing!FoldLeft(LAMBDA u, s : Routing!erase_last(Routing!Prefix(s), u), t,
                                  Routing!Schemes), <<>>, hp, words)
<1> DEFINE t1 == ErasedAtLast(1, t)
<1> DEFINE t2 == ErasedAtLast(2, t1)
<1> DEFINE t3 == ErasedAtLast(3, t2)
<1> DEFINE t4 == ErasedAtLast(4, t3)
<1> DEFINE p1 == Left(p, Routing!Schemes[1])
<1> DEFINE p2 == Left(p1, Routing!Schemes[2])
<1> DEFINE p3 == Left(p2, Routing!Schemes[3])
<1> DEFINE p4 == Left(p3, Routing!Schemes[4])
<1>0. 1 \in 1 .. 4 /\ 2 \in 1 .. 4 /\ 3 \in 1 .. 4 /\ 4 \in 1 .. 4
  OBVIOUS
<1>1. Looks(t1, p1, hp, words) /\ OwnOrNone(p1, words)
  BY <1>0, TurnAtServer
<1>2. Looks(t2, p2, hp, words) /\ OwnOrNone(p2, words)
  <2> HIDE DEF t1, p1
  <2> QED
    BY <1>0, <1>1, TurnAtServer
<1>3. Looks(t3, p3, hp, words) /\ OwnOrNone(p3, words)
  <2> HIDE DEF t2, p2
  <2> QED
    BY <1>0, <1>2, TurnAtServer
<1>4. Looks(t4, p4, hp, words)
  <2> HIDE DEF t3, p3
  <2> QED
    BY <1>0, <1>3, TurnAtServer
<1>5. p4 = <<>>
  <2>1. p \in Text /\ (p = <<>> \/ \E k \in 1 .. 4 : p = Routing!Prefix(Routing!Schemes[k]))
    BY DEF OwnOrNone
  <2> QED
    BY <2>1, OwnPrefixGoes
<1>6. t \in Text
  BY LooksText
<1>7. Routing!FoldLeft(LAMBDA u, s : Routing!erase_last(Routing!Prefix(s), u), t,
                       Routing!Schemes) = t4
  BY <1>6, TurnsOfServer
<1> HIDE DEF t4, p4
<1> QED
  BY <1>4, <1>5, <1>7

-----------------------------------------------------------------------------
(* What is cut off, and what the requests have                             *)

LEMMA TextLength ==
    ASSUME NEW t \in Text
    PROVE  Len(t) \in Nat
  BY DEF Text

LEMMA Rest ==
    ASSUME NEW m \in Nat, NEW n \in Nat, NEW j \in 1 .. m + n, ~(j <= m)
    PROVE  j - m \in 1 .. n /\ m + (j - m) = j
  OBVIOUS

LEMMA Above ==
    ASSUME NEW m \in Nat, NEW n \in Nat, NEW j \in m + 1 .. n
    PROVE  j \in 1 .. n /\ ~(j <= m)
  OBVIOUS

LEMMA LongerBy ==
    ASSUME NEW m \in Nat, NEW n \in Nat
    PROVE  m <= m + n /\ (m < m + n => n > 0)
  OBVIOUS

LEMMA Moved ==
    ASSUME NEW k \in Nat, NEW m \in Nat, NEW j \in Int
    PROVE  (k + m) + j = k + (m + j)
  OBVIOUS

LEMMA WholeText ==
    ASSUME NEW t \in Text
    PROVE  SubSeq(t, 1, Len(t)) = t
<1>1. Len(t) \in Nat /\ 0 \in Nat /\ Len(t) <= Len(t) /\ 0 <= Len(t) /\ Len(t) - 0 = Len(t)
  BY DEF Text
<1> DEFINE u == SubSeq(t, 0 + 1, Len(t))
<1>2. u \in Text /\ Len(u) = Len(t) /\ \A j \in 1 .. Len(t) : u[j] = t[0 + j]
  BY <1>1, PartOfText
<1>3. \A j \in 1 .. Len(t) : 0 + j = j
  OBVIOUS
<1>4. SubSeq(t, 1, Len(t)) = u
  OBVIOUS
<1> HIDE DEF u
<1>5. u = t
  BY <1>2, <1>3, SameText
<1> QED
  BY <1>4, <1>5

LEMMA CutOff ==
    ASSUME NEW t \in Text, NEW c, NEW m \in 0 .. Len(t), \A j \in 1 .. m : t[j] # c,
           m < Len(t) => t[m + 1] = c
    PROVE  /\ Routing!Contains(t, c) <=> m < Len(t)
           /\ Routing!Before(t, c) = SubSeq(t, 1, m)
           /\ m < Len(t) => Routing!After(t, c) = SubSeq(t, (m + 1) + 1, Len(t))
<1>0. Len(t) \in Nat /\ m \in Nat
  BY DEF Text
<1>1. Routing!Contains(t, c) <=> m < Len(t)
  <2>1. m < Len(t) => m + 1 \in 1 .. Len(t)
    BY <1>0
  <2>2. ASSUME NEW j \in 1 .. Len(t), t[j] = c
        PROVE  m < Len(t)
    <3>1. j \notin 1 .. m
      BY <2>2
    <3> QED
      BY <1>0, <3>1
  <2> QED
    BY <2>1, <2>2 DEF Routing!Contains
<1>2. CASE ~(m < Len(t))
  <2>1. m = Len(t)
    BY <1>0, <1>2
  <2> QED
    BY <1>1, <1>2, <2>1, WholeText DEF Routing!Before
<1>3. CASE m < Len(t)
  <2> DEFINE I == {j \in 1 .. Len(t) : t[j] = c}
  <2>1. Routing!SelectInSeq(t, LAMBDA x : x = c) = IF I # {} THEN Routing!Min(I) ELSE 0
    BY DEF Routing!SelectInSeq
  <2>2. m + 1 \in I
    BY <1>0, <1>3
  <2>3. ASSUME NEW j \in I
        PROVE  m + 1 <= j
    <3>1. j \in 1 .. Len(t) /\ j \notin 1 .. m
      OBVIOUS
    <3> QED
      BY <1>0, <3>1
  <2>4. I \subseteq Int
    BY <1>0
  <2> HIDE DEF I
  <2>5. Routing!Min(I) = m + 1
    <3>1. ASSUME NEW x \in I, \A y \in I : x <= y
          PROVE  x = m + 1
      <4>1. x \in Int /\ x <= m + 1 /\ m + 1 <= x
        BY <2>2, <2>3, <2>4, <3>1
      <4> QED
        BY <1>0, <4>1
    <3>2. m + 1 \in I /\ \A y \in I : m + 1 <= y
      BY <2>2, <2>3
    <3> QED
      BY <3>1, <3>2 DEF Routing!Min
  <2>6. Routing!SelectInSeq(t, LAMBDA x : x = c) = m + 1
    BY <2>1, <2>2, <2>5
  <2>7. (m + 1) - 1 = m
    BY <1>0
  <2>8. Routing!Before(t, c) = SubSeq(t, 1, (m + 1) - 1)
    BY <1>1, <1>3, <2>6 DEF Routing!Before
  <2>9. Routing!After(t, c) = SubSeq(t, (m + 1) + 1, Len(t))
    BY <1>1, <1>3, <2>6 DEF Routing!After
  <2> QED
    BY <1>1, <1>3, <2>7, <2>8, <2>9
<1> QED
  BY <1>2, <1>3

\* Any request: a host and a port without separators, a path that begins with one.
AnyRequest(r) ==
    /\ r.scheme \in 0 .. 4 /\ r.host \in Text /\ r.path \in Text
    /\ \A k \in 1 .. Len(r.host) : r.host[k] \notin Routing!Separators
    /\ r.port = Null \/ r.port \in Tokens \ Routing!Separators
    /\ r.path # <<>> => r.path[1] = "/"

OwnPrefixOf(r) == IF r.scheme = 0 THEN <<>> ELSE Routing!Prefix(Routing!Schemes[r.scheme])
PortOf(r) == IF r.port = Null THEN <<>> ELSE <<":", r.port>>
HostAndPortOf(r) == r.host \o PortOf(r)

LEMMA OfPort ==
    ASSUME NEW r, AnyRequest(r)
    PROVE  /\ PortOf(r) \in Text
           /\ r.port = Null => Len(PortOf(r)) = 0
           /\ r.port # Null => /\ Len(PortOf(r)) = 2 /\ PortOf(r)[1] = ":"
                               /\ PortOf(r)[2] = r.port /\ r.port \notin Routing!Separators
<1>1. CASE r.port = Null
  BY <1>1 DEF PortOf, Text
<1>2. CASE r.port # Null
  <2> DEFINE q == <<":", r.port>>
  <2>1. r.port \in Tokens /\ ":" \in Tokens /\ r.port \notin Routing!Separators
    BY <1>2 DEF AnyRequest, Tokens
  <2>2. q \in [1 .. 2 -> Tokens] /\ Len(q) = 2 /\ q[1] = ":" /\ q[2] = r.port
    BY <2>1
  <2> HIDE DEF q
  <2>3. q \in Text
    BY <2>1 DEF Text, q
  <2>4. PortOf(r) = q
    BY <1>2 DEF PortOf, q
  <2> QED
    BY <1>2, <2>1, <2>2, <2>3, <2>4
<1> QED
  BY <1>1, <1>2

LEMMA OfHostAndPort ==
    ASSUME NEW r, AnyRequest(r)
    PROVE  /\ HostAndPort(HostAndPortOf(r))
           /\ Len(HostAndPortOf(r)) = Len(r.host) + Len(PortOf(r))
           /\ \A j \in 1 .. Len(r.host) : HostAndPortOf(r)[j] = r.host[j]
           /\ \A j \in 1 .. Len(PortOf(r)) : HostAndPortOf(r)[Len(r.host) + j] = PortOf(r)[j]
<1> DEFINE hp == HostAndPortOf(r)
<1> DEFINE q == PortOf(r)
<1>1. r.host \in Text /\ \A k \in 1 .. Len(r.host) : r.host[k] \notin Routing!Separators
  BY DEF AnyRequest
<1>2. /\ q \in Text
      /\ r.port = Null => Len(q) = 0
      /\ r.port # Null => /\ Len(q) = 2 /\ q[1] = ":" /\ q[2] = r.port
                          /\ r.port \notin Routing!Separators
  BY OfPort
<1>3. /\ hp \in Text /\ Len(hp) = Len(r.host) + Len(q)
      /\ \A j \in 1 .. Len(r.host) : hp[j] = r.host[j]
      /\ \A j \in 1 .. Len(q) : hp[Len(r.host) + j] = q[j]
  BY <1>1, <1>2, Joined DEF HostAndPortOf
<1>4. Len(r.host) \in Nat /\ ":" \in Routing!Separators /\ "/" \in Routing!Separators /\ ":" # "/"
  BY <1>1 DEF Text, Routing!Separators
<1> HIDE DEF hp, q
<1>5. ASSUME NEW j \in 1 .. Len(hp)
      PROVE  hp[j] # "/"
  <2>1. CASE j <= Len(r.host)
    BY <1>1, <1>3, <1>4, <2>1
  <2>2. CASE ~(j <= Len(r.host))
    <3> DEFINE o == j - Len(r.host)
    <3>0. Len(q) \in Nat
      BY <1>2, TextLength
    <3>1. o \in 1 .. Len(q) /\ Len(r.host) + o = j
      BY <1>3, <1>4, <2>2, <3>0, Rest
    <3> HIDE DEF o
    <3>2. r.port # Null /\ o \in {1, 2}
      <4>1. Len(q) # 0
        BY <3>1
      <4>2. r.port # Null
        BY <1>2, <4>1
      <4>3. Len(q) = 2
        BY <1>2, <4>2
      <4> QED
        BY <3>1, <4>2, <4>3
    <3>3. hp[j] = q[o] /\ q[o] # "/"
      BY <1>2, <1>3, <1>4, <3>1, <3>2
    <3> QED
      BY <3>3
  <2> QED
    BY <2>1, <2>2
<1>6. ASSUME Len(hp) > 0
      PROVE  hp[Len(hp)] # ":"
  <2>1. CASE r.port = Null
    <3>1. Len(hp) = Len(r.host) /\ Len(hp) \in 1 .. Len(r.host)
      BY <1>2, <1>3, <1>4, <1>6, <2>1
    <3> QED
      BY <1>1, <1>3, <1>4, <3>1
  <2>2. CASE r.port # Null
    <3>1. Len(q) = 2 /\ Len(hp) = Len(r.host) + 2
      BY <1>2, <1>3, <2>2
    <3>2. hp[Len(r.host) + 2] = q[2]
      BY <1>3, <3>1
    <3> QED
      BY <1>2, <1>4, <2>2, <3>1, <3>2
  <2> QED
    BY <2>1, <2>2
<1> QED
  BY <1>3, <1>5, <1>6 DEF HostAndPort, hp, q

LEMMA OfOwnPrefix ==
    ASSUME NEW r, AnyRequest(r)
    PROVE  /\ OwnPrefixOf(r) \in Text /\ OwnOrNone(OwnPrefixOf(r), {})
           /\ ~Routing!NamesItselfAgain(r) => OwnOrNone(OwnPrefixOf(r), Routing!ToSet(r.path))
<1>1. CASE r.scheme = 0
  BY <1>1 DEF OwnPrefixOf, OwnOrNone, Text
<1>2. CASE r.scheme # 0
  <2>1. r.scheme \in 1 .. 4
    BY <1>2 DEF AnyRequest
  <2>2. OwnPrefixOf(r) = Routing!Prefix(Routing!Schemes[r.scheme]) /\ OwnPrefixOf(r) \in Text
    BY <1>2, <2>1, FourSchemes, OfPrefix DEF OwnPrefixOf
  <2> QED
    BY <1>2, <2>1, <2>2 DEF OwnOrNone, Routing!NamesItselfAgain
<1> QED
  BY <1>1, <1>2

LEMMA TargetLooks ==
    ASSUME NEW r, AnyRequest(r)
    PROVE  Looks(Routing!TargetOf(r), OwnPrefixOf(r), HostAndPortOf(r), Routing!ToSet(r.path))
<1> DEFINE p == OwnPrefixOf(r)
<1> DEFINE q == PortOf(r)
<1> DEFINE hp == HostAndPortOf(r)
<1> DEFINE a == p \o r.host
<1> DEFINE b == a \o q
<1> DEFINE t == b \o r.path
<1>1. Routing!TargetOf(r) = t
  BY DEF Routing!TargetOf, OwnPrefixOf, PortOf
<1>2. p \in Text /\ r.host \in Text /\ q \in Text /\ r.path \in Text
  BY OfOwnPrefix, OfPort DEF AnyRequest
<1>3. /\ Len(p) \in Nat /\ Len(r.host) \in Nat /\ Len(q) \in Nat /\ Len(r.path) \in Nat
  BY <1>2 DEF Text
<1>4. /\ Len(hp) = Len(r.host) + Len(q)
      /\ \A j \in 1 .. Len(r.host) : hp[j] = r.host[j]
      /\ \A j \in 1 .. Len(q) : hp[Len(r.host) + j] = q[j]
  BY OfHostAndPort
<1>5. /\ a \in Text /\ Len(a) = Len(p) + Len(r.host)
      /\ \A j \in 1 .. Len(p) : a[j] = p[j]
      /\ \A j \in 1 .. Len(r.host) : a[Len(p) + j] = r.host[j]
  BY <1>2, Joined
<1> HIDE DEF a, p, q, hp
<1>6. /\ b \in Text /\ Len(b) = Len(a) + Len(q)
      /\ \A j \in 1 .. Len(a) : b[j] = a[j]
      /\ \A j \in 1 .. Len(q) : b[Len(a) + j] = q[j]
  BY <1>2, <1>5, Joined
<1> HIDE DEF b
<1>7. /\ t \in Text /\ Len(t) = Len(b) + Len(r.path)
      /\ \A j \in 1 .. Len(b) : t[j] = b[j]
      /\ \A j \in 1 .. Len(r.path) : t[Len(b) + j] = r.path[j]
  BY <1>2, <1>6, Joined
<1> HIDE DEF t
<1>8. Len(b) = Len(p) + Len(hp)
  BY <1>3, <1>4, <1>5, <1>6
<1>9. ASSUME NEW j \in 1 .. Len(p)
      PROVE  t[j] = p[j]
  <2>1. j \in 1 .. Len(a) /\ j \in 1 .. Len(b)
    BY <1>3, <1>5, <1>6
  <2> QED
    BY <1>5, <1>6, <1>7, <2>1
<1>10. ASSUME NEW j \in 1 .. Len(hp)
       PROVE  t[Len(p) + j] = hp[j]
  <2>0. Len(p) + j \in 1 .. Len(b)
    BY <1>3, <1>4, <1>8
  <2>1. CASE j <= Len(r.host)
    <3>1. j \in 1 .. Len(r.host) /\ Len(p) + j \in 1 .. Len(a)
      BY <1>3, <1>5, <2>1
    <3> QED
      BY <1>4, <1>5, <1>6, <1>7, <2>0, <3>1
  <2>2. CASE ~(j <= Len(r.host))
    <3> DEFINE o == j - Len(r.host)
    <3>1. o \in 1 .. Len(q) /\ o \in Int /\ Len(r.host) + o = j
      BY <1>3, <1>4, <2>2, Rest
    <3> HIDE DEF o
    <3>2. Len(a) + o = Len(p) + j
      <4>1. (Len(p) + Len(r.host)) + o = Len(p) + (Len(r.host) + o)
        BY <1>3, <3>1, Moved
      <4>2. Len(a) = Len(p) + Len(r.host) /\ Len(r.host) + o = j
        BY <1>5, <3>1
      <4> QED
        BY <4>1, <4>2, Zenon
    <3>3. b[Len(a) + o] = q[o] /\ hp[Len(r.host) + o] = q[o]
      BY <1>4, <1>6, <3>1
    <3> QED
      BY <1>7, <2>0, <3>1, <3>2, <3>3
  <2> QED
    BY <2>1, <2>2
<1>11. ASSUME NEW j \in Len(b) + 1 .. Len(t)
       PROVE  t[j] = r.path[j - Len(b)] /\ j - Len(b) \in 1 .. Len(r.path)
  <2>1. Len(b) \in Nat /\ j \in 1 .. Len(t) /\ ~(j <= Len(b))
    BY <1>6, <1>7, TextLength, Above
  <2>2. j - Len(b) \in 1 .. Len(r.path) /\ Len(b) + (j - Len(b)) = j
    BY <1>3, <1>7, <2>1, Rest
  <2> QED
    BY <1>7, <2>2
<1>12. ASSUME NEW j \in Len(b) + 1 .. Len(t)
       PROVE  t[j] \in Routing!ToSet(r.path)
  <2>1. DOMAIN r.path = 1 .. Len(r.path)
    BY <1>2 DEF Text
  <2> QED
    BY <1>11, <2>1 DEF Routing!ToSet
<1>13. ASSUME Len(b) < Len(t)
       PROVE  t[Len(b) + 1] = "/"
  <2>0. Len(b) \in Nat
    BY <1>6, TextLength
  <2>1. Len(r.path) > 0
    BY <1>3, <1>7, <1>13, <2>0, LongerBy
  <2>2. 1 \in 1 .. Len(r.path) /\ r.path # <<>>
    BY <1>3, <2>1
  <2> QED
    BY <1>7, <2>2 DEF AnyRequest
<1>14. Len(b) <= Len(t)
  <2>1. Len(b) \in Nat
    BY <1>6, TextLength
  <2> QED
    BY <1>3, <1>7, <2>1, LongerBy
<1> QED
  BY <1>1, <1>7, <1>8, <1>9, <1>10, <1>12, <1>13, <1>14 DEF Looks, p, hp

LEMMA CutPath ==
    ASSUME NEW u, NEW hp, NEW words, HostAndPort(hp), Looks(u, <<>>, hp, words)
    PROVE  Routing!Before(u, "/") = hp
<1> DEFINE n1 == Len(hp)
<1> DEFINE v1 == SubSeq(u, 0 + 1, n1)
<1>1. hp \in Text /\ \A j \in 1 .. Len(hp) : hp[j] # "/"
  BY DEF HostAndPort
<1>2. u \in Text /\ Len(u) \in Nat /\ n1 \in Nat
  BY <1>1, TextLength DEF Looks
<1>3. Len(<<>>) = 0 /\ 0 + n1 = n1 /\ n1 - 0 = n1 /\ 0 \in Nat /\ 0 <= n1
  BY <1>2
<1>4. /\ n1 <= Len(u)
      /\ \A j \in 1 .. n1 : u[0 + j] = hp[j]
      /\ n1 < Len(u) => u[n1 + 1] = "/"
  BY <1>3 DEF Looks
<1>5. \A j \in 1 .. n1 : 0 + j = j
  OBVIOUS
<1>6. v1 \in Text /\ Len(v1) = n1 /\ \A j \in 1 .. n1 : v1[j] = u[0 + j]
  BY <1>2, <1>3, <1>4, PartOfText
<1>7. SubSeq(u, 1, n1) = v1
  OBVIOUS
<1> HIDE DEF v1
<1>8. v1 = hp
  BY <1>1, <1>4, <1>6, SameText
<1>9. n1 \in 0 .. Len(u) /\ \A j \in 1 .. n1 : u[j] # "/"
  BY <1>1, <1>2, <1>4, <1>5
<1> HIDE DEF n1
<1> QED
  BY <1>2, <1>4, <1>7, <1>8, <1>9, CutOff

LEMMA CutPort ==
    ASSUME NEW r, AnyRequest(r)
    PROVE  /\ Routing!Before(HostAndPortOf(r), ":") = r.host
           /\ Routing!Contains(HostAndPortOf(r), ":") <=> r.port # Null
           /\ r.port # Null =>
                  Routing!Before(Routing!After(HostAndPortOf(r), ":"), ":") = <<r.port>>
<1> DEFINE hp == HostAndPortOf(r)
<1> DEFINE q == PortOf(r)
<1> DEFINE m == Len(r.host)
<1> DEFINE v1 == SubSeq(hp, 0 + 1, m)
<1>1. r.host \in Text /\ \A k \in 1 .. m : r.host[k] # ":"
  BY DEF AnyRequest, Routing!Separators
<1>2. /\ r.port = Null => Len(q) = 0
      /\ r.port # Null => /\ Len(q) = 2 /\ q[1] = ":" /\ q[2] = r.port
                          /\ r.port \in Tokens /\ r.port # ":"
  BY OfPort DEF AnyRequest, Routing!Separators
<1>3. /\ hp \in Text /\ Len(hp) = m + Len(q)
      /\ \A j \in 1 .. m : hp[j] = r.host[j]
      /\ \A j \in 1 .. Len(q) : hp[m + j] = q[j]
  BY OfHostAndPort DEF HostAndPort
<1>4. m \in Nat /\ 0 \in Nat /\ Len(hp) \in Nat
  BY <1>1, <1>3, TextLength
<1>5. SubSeq(hp, 1, m) = v1
  OBVIOUS
<1> HIDE DEF hp, q, m
<1>6. Len(hp) = IF r.port = Null THEN m ELSE m + 2
  BY <1>2, <1>3, <1>4
<1>7. m <= Len(hp) /\ 0 <= m /\ m - 0 = m /\ (m < Len(hp) <=> r.port # Null)
  BY <1>4, <1>6
<1>8. v1 \in Text /\ Len(v1) = m /\ \A j \in 1 .. m : v1[j] = hp[0 + j]
  BY <1>3, <1>4, <1>7, PartOfText
<1>9. \A j \in 1 .. m : 0 + j = j
  OBVIOUS
<1> HIDE DEF v1
<1>10. v1 = r.host
  BY <1>1, <1>3, <1>8, <1>9, SameText DEF m
<1>11. m \in 0 .. Len(hp) /\ \A j \in 1 .. m : hp[j] # ":"
  BY <1>1, <1>3, <1>4, <1>7
<1>12. ASSUME r.port # Null
       PROVE  hp[m + 1] = ":" /\ hp[m + 2] = r.port
  BY <1>2, <1>3, <1>12
<1>13. /\ Routing!Contains(hp, ":") <=> m < Len(hp)
       /\ Routing!Before(hp, ":") = SubSeq(hp, 1, m)
       /\ m < Len(hp) => Routing!After(hp, ":") = SubSeq(hp, (m + 1) + 1, Len(hp))
  BY <1>3, <1>7, <1>11, <1>12, CutOff
<1>14. ASSUME r.port # Null
       PROVE  Routing!Before(Routing!After(hp, ":"), ":") = <<r.port>>
  <2> DEFINE k == m + 1
  <2> DEFINE a == SubSeq(hp, k + 1, Len(hp))
  <2>0. Routing!After(hp, ":") = a
    BY <1>7, <1>13, <1>14
  <2>1. k \in Nat /\ k <= Len(hp) /\ Len(hp) - k = 1 /\ k + 1 = m + 2
    BY <1>4, <1>6, <1>14
  <2> HIDE DEF k
  <2>2. a \in Text /\ Len(a) = 1 /\ \A j \in 1 .. 1 : a[j] = hp[k + j]
    <3>1. /\ a \in Text /\ Len(a) = IF k <= Len(hp) THEN Len(hp) - k ELSE 0
          /\ \A j \in 1 .. Len(hp) - k : a[j] = hp[k + j]
      BY <1>3, <1>4, <2>1, PartOfText
    <3> HIDE DEF a
    <3> QED
      BY <2>1, <3>1
  <2> HIDE DEF a
  <2>3. a[1] = r.port
    BY <1>12, <1>14, <2>1, <2>2
  <2> DEFINE b == <<r.port>>
  <2>5. b \in Text /\ Len(b) = 1 /\ b[1] = r.port
    BY <1>2, <1>14 DEF Text
  <2> HIDE DEF b
  <2>6. a = b
    BY <2>2, <2>3, <2>5, SameText
  <2>7. 1 \in 0 .. Len(a) /\ \A j \in 1 .. 1 : a[j] # ":"
    BY <1>2, <1>14, <2>2, <2>3
  <2>8. ~(1 < Len(a))
    BY <2>2
  <2>9. Routing!Before(a, ":") = SubSeq(a, 1, 1)
    BY <2>2, <2>7, <2>8, CutOff
  <2>10. SubSeq(a, 1, 1) = a
    BY <2>2, WholeText
  <2> QED
    BY <2>0, <2>6, <2>9, <2>10 DEF b
<1> QED
  BY <1>5, <1>7, <1>10, <1>13, <1>14 DEF hp

-----------------------------------------------------------------------------
(* What the two ends make of a request                                     *)

\* The host the client takes out of any request line is the one the browser means,
\* whatever its scheme, its port and its path.
THEOREM ClientTakesTheHost ==
    ASSUME NEW r, AnyRequest(r)
    PROVE  Routing!ClientHost(Routing!TargetOf(r)) = r.host
<1>1. /\ Looks(Routing!TargetOf(r), OwnPrefixOf(r), HostAndPortOf(r), Routing!ToSet(r.path))
      /\ OwnOrNone(OwnPrefixOf(r), {}) /\ HostAndPort(HostAndPortOf(r))
  BY TargetLooks, OfOwnPrefix, OfHostAndPort
<1> DEFINE bare == Routing!FoldLeft(LAMBDA u, s : Routing!erase_first(Routing!Prefix(s), u),
                                    Routing!TargetOf(r), Routing!Schemes)
<1>2. Looks(bare, <<>>, HostAndPortOf(r), Routing!ToSet(r.path))
  BY <1>1, BareAtClient
<1>3. Routing!ClientHost(Routing!TargetOf(r)) = Routing!Before(Routing!Before(bare, "/"), ":")
  BY DEF Routing!ClientHost
<1> HIDE DEF bare
<1> QED
  BY <1>1, <1>2, <1>3, CutPath, CutPort

\* The server dials the host and the port of the same line, port 80 where it has none,
\* unless the path has the scheme's own name in it.
THEOREM ServerDialsTheSame ==
    ASSUME NEW r, AnyRequest(r), ~Routing!NamesItselfAgain(r)
    PROVE  Routing!Dialled(Routing!TargetOf(r)) =
               [host |-> r.host, port |-> IF r.port = Null THEN <<"80">> ELSE <<r.port>>]
<1>1. /\ Looks(Routing!TargetOf(r), OwnPrefixOf(r), HostAndPortOf(r), Routing!ToSet(r.path))
      /\ OwnOrNone(OwnPrefixOf(r), Routing!ToSet(r.path)) /\ HostAndPort(HostAndPortOf(r))
  BY TargetLooks, OfOwnPrefix, OfHostAndPort
<1> DEFINE bare == Routing!FoldLeft(LAMBDA u, s : Routing!erase_last(Routing!Prefix(s), u),
                                    Routing!TargetOf(r), Routing!Schemes)
<1>2. Looks(bare, <<>>, HostAndPortOf(r), Routing!ToSet(r.path))
  BY <1>1, BareAtServer
<1>3. Routing!ServerTarget(Routing!TargetOf(r)) = Routing!Before(bare, "/")
  BY DEF Routing!ServerTarget
<1> HIDE DEF bare
<1>4. Routing!ServerTarget(Routing!TargetOf(r)) = HostAndPortOf(r)
  BY <1>1, <1>2, <1>3, CutPath
<1> QED
  BY <1>4, CutPort DEF Routing!Dialled

-----------------------------------------------------------------------------
(* The domain of a host                                                    *)

LEMMA Suffix ==
    ASSUME NEW s \in Text, NEW t \in Text
    PROVE  /\ Routing!IsSuffix(s, t) => Len(s) <= Len(t)
           /\ \A k \in Nat : k = Len(t) - Len(s) => (Routing!IsSuffix(s, t) <=> Occurs(s, t, k))
<1> DEFINE a == Routing!Reverse(s)
<1> DEFINE b == Routing!Reverse(t)
<1> DEFINE v1 == SubSeq(b, 0 + 1, Len(a))
<1>1. Len(s) \in Nat /\ Len(t) \in Nat
  BY TextLength
<1>2. a \in Text /\ b \in Text /\ Len(a) = Len(s) /\ Len(b) = Len(t)
  BY Backwards
<1>3. Routing!IsSuffix(s, t) <=> Len(a) <= Len(b) /\ SubSeq(a, 1, Len(a)) = SubSeq(b, 1, Len(a))
  BY DEF Routing!IsSuffix, Routing!IsPrefix
<1>4. ASSUME NEW k \in Nat, k = Len(t) - Len(s)
      PROVE  Occurs(a, b, 0) <=> Occurs(s, t, k)
  <2>1. k = Len(t) - Len(s) - 0
    BY <1>1, <1>4
  <2> QED
    BY <2>1, FoundBackwards
<1>5. SubSeq(b, 1, Len(a)) = v1
  OBVIOUS
<1> HIDE DEF a, b
<1>6. SubSeq(a, 1, Len(a)) = a
  BY <1>2, WholeText
<1>7. ASSUME NEW k \in Nat, k = Len(t) - Len(s)
      PROVE  a = v1 <=> Occurs(a, b, 0)
  <2>1. Len(a) \in Nat /\ 0 \in Nat /\ Len(a) <= Len(b) /\ Len(a) - 0 = Len(a) /\ 0 <= Len(a)
        /\ 0 + Len(a) = Len(a)
    BY <1>1, <1>2, <1>7
  <2>2. v1 \in Text /\ Len(v1) = Len(a) /\ \A j \in 1 .. Len(a) : v1[j] = b[0 + j]
    <3>1. /\ v1 \in Text /\ Len(v1) = IF 0 <= Len(a) THEN Len(a) - 0 ELSE 0
          /\ \A j \in 1 .. Len(a) - 0 : v1[j] = b[0 + j]
      BY <1>2, <2>1, PartOfText
    <3> HIDE DEF v1
    <3> QED
      BY <2>1, <3>1
  <2> HIDE DEF v1
  <2>3. ASSUME Occurs(a, b, 0)
        PROVE  a = v1
    BY <1>2, <2>2, <2>3, SameText DEF Occurs
  <2>4. ASSUME a = v1
        PROVE  Occurs(a, b, 0)
    BY <2>1, <2>2, <2>4 DEF Occurs
  <2> QED
    BY <2>3, <2>4
<1>8. ASSUME NEW k \in Nat, k = Len(t) - Len(s)
      PROVE  Len(s) <= Len(t)
  BY <1>1, <1>8
<1> HIDE DEF v1
<1>9. ASSUME NEW k \in Nat, k = Len(t) - Len(s)
      PROVE  Routing!IsSuffix(s, t) <=> Occurs(s, t, k)
  <2>1. Len(a) <= Len(b)
    BY <1>2, <1>8, <1>9
  <2> QED
    BY <1>3, <1>4, <1>5, <1>6, <1>7, <1>9, <2>1
<1> QED
  BY <1>2, <1>3, <1>9

\* What a domain has to be: with one dot, and the host itself or behind a dot of it.
DomainOf(host, domain) ==
    Cardinality(Routing!Dots(domain)) = 1 /\ Routing!Within(host, domain)

\* The same by the places of the dots: the domain is what is behind m, with a dot or
\* the beginning of the host at m and one dot behind it.
BehindOneDot(host, domain, m, d) ==
    /\ m \in Nat /\ d \in Nat /\ m < d /\ d <= Len(host) /\ Len(domain) = Len(host) - m
    /\ Occurs(domain, host, m)
    /\ host[d] = "." /\ (m = 0 \/ host[m] = ".")
    /\ \A k \in 1 .. Len(host) : m < k /\ host[k] = "." => k = d

LEMMA DotsOf ==
    ASSUME NEW t \in Text
    PROVE  Routing!Dots(t) = {k \in 1 .. Len(t) : t[k] = "."}
  BY DEF Text, Routing!Dots

LEMMA OneDot ==
    ASSUME NEW host \in Text, NEW domain \in Text
    PROVE  DomainOf(host, domain) <=> \E m, d \in Nat : BehindOneDot(host, domain, m, d)
<1>0. Len(host) \in Nat /\ Len(domain) \in Nat
  BY TextLength
<1>1. ASSUME DomainOf(host, domain)
      PROVE  \E m, d \in Nat : BehindOneDot(host, domain, m, d)
  <2>1. PICK e : Routing!Dots(domain) = {e}
    <3>1. IsFiniteSet(Routing!Dots(domain))
      <4>1. Routing!Dots(domain) \subseteq 1 .. Len(domain) /\ IsFiniteSet(1 .. Len(domain))
        BY <1>0, DotsOf, FS_Interval
      <4> QED
        BY <4>1, FS_Subset
    <3> QED
      BY <1>1, <3>1, FS_Singleton DEF DomainOf
  <2> DEFINE m == Len(host) - Len(domain)
  <2>2. Len(domain) <= Len(host) /\ Routing!IsSuffix(domain, host)
    BY <1>1, Suffix DEF DomainOf, Routing!Within
  <2>3. m \in Nat /\ Len(domain) = Len(host) - m /\ m + Len(domain) = Len(host)
    BY <1>0, <2>2
  <2>4. m = 0 \/ host[m] = "."
    <3>1. host = domain \/ host[m] = "."
      BY <1>1 DEF DomainOf, Routing!Within
    <3> QED
      BY <1>0, <3>1
  <2>5. Occurs(domain, host, m)
    BY <2>2, <2>3, Suffix
  <2> HIDE DEF m
  <2> DEFINE d == m + e
  <2>6. e \in 1 .. Len(domain) /\ domain[e] = "."
    BY <2>1, DotsOf
  <2>7. host[d] = "."
    BY <2>5, <2>6 DEF Occurs
  <2>8. d \in Nat /\ m < d /\ d <= Len(host)
    BY <1>0, <2>3, <2>6
  <2>9. ASSUME NEW k \in 1 .. Len(host), m < k, host[k] = "."
        PROVE  k = d
    <3> DEFINE j == k - m
    <3>1. j \in 1 .. Len(domain) /\ m + j = k
      BY <1>0, <2>3, <2>9
    <3> HIDE DEF j
    <3>2. domain[j] = "."
      BY <2>5, <2>9, <3>1 DEF Occurs
    <3>3. j = e
      BY <2>1, <3>1, <3>2, DotsOf
    <3> QED
      BY <3>1, <3>3
  <2> HIDE DEF d
  <2> QED
    BY <2>3, <2>4, <2>5, <2>7, <2>8, <2>9 DEF BehindOneDot
<1>2. ASSUME NEW m \in Nat, NEW d \in Nat, BehindOneDot(host, domain, m, d)
      PROVE  DomainOf(host, domain)
  <2>1. /\ m < d /\ d <= Len(host) /\ Len(domain) = Len(host) - m
        /\ Occurs(domain, host, m) /\ host[d] = "." /\ (m = 0 \/ host[m] = ".")
        /\ \A k \in 1 .. Len(host) : m < k /\ host[k] = "." => k = d
    BY <1>2 DEF BehindOneDot
  <2>2. m = Len(host) - Len(domain) /\ m <= Len(host)
    BY <1>0, <2>1
  <2>3. Routing!IsSuffix(domain, host)
    BY <2>1, <2>2, Suffix
  <2>4. host = domain \/ host[Len(host) - Len(domain)] = "."
    <3>1. ASSUME m = 0
          PROVE  host = domain
      <4>1. Len(domain) = Len(host) /\ \A j \in 1 .. Len(domain) : 0 + j = j
        BY <1>0, <2>1, <3>1
      <4>2. \A j \in 1 .. Len(domain) : host[j] = domain[j]
        BY <2>1, <3>1, <4>1 DEF Occurs
      <4> QED
        BY <4>1, <4>2, SameText
    <3> QED
      BY <2>1, <2>2, <3>1
  <2> DEFINE e == d - m
  <2>5. e \in 1 .. Len(domain) /\ m + e = d
    BY <1>0, <2>1
  <2> HIDE DEF e
  <2>6. domain[e] = "."
    BY <2>1, <2>5 DEF Occurs
  <2>7. ASSUME NEW j \in 1 .. Len(domain), domain[j] = "."
        PROVE  j = e
    <3>1. host[m + j] = "."
      BY <2>1, <2>7 DEF Occurs
    <3>2. m + j \in 1 .. Len(host) /\ m < m + j
      BY <1>0, <2>1
    <3>3. m + j = d
      BY <2>1, <3>1, <3>2
    <3> QED
      BY <1>0, <2>5, <3>3
  <2>8. Routing!Dots(domain) = {e}
    BY <2>5, <2>6, <2>7, DotsOf
  <2> QED
    BY <2>3, <2>4, <2>8, FS_Singleton DEF DomainOf, Routing!Within
<1> QED
  BY <1>1, <1>2

LEMMA TwoLabels ==
    ASSUME NEW host \in Text, Routing!Dots(host) # {}
    PROVE  /\ Routing!LastTwoLabels(host) \in Text
           /\ \A domain \in Text : DomainOf(host, domain) <=> domain = Routing!LastTwoLabels(host)
<1> DEFINE dots == Routing!Dots(host)
<1> DEFINE cuts == {k \in dots : \E d \in dots : k < d}
<1> DEFINE m == Routing!Max(cuts \cup {0})
<1> DEFINE l == SubSeq(host, m + 1, Len(host))
<1>1. Len(host) \in Nat /\ dots = {k \in 1 .. Len(host) : host[k] = "."}
  BY TextLength, DotsOf
<1>2. Routing!LastTwoLabels(host) = SubSeq(host, 1 + m, Len(host))
  BY DEF Routing!LastTwoLabels
<1> HIDE DEF dots
<1>3. \A s : Routing!Max(s) = Tools!Max(s)
  BY DEF Routing!Max, Tools!Max
<1>4. m \in cuts \cup {0} /\ \A k \in cuts \cup {0} : k <= m
  <2>1. cuts \cup {0} \in SUBSET (0 .. Len(host)) /\ cuts \cup {0} # {}
    BY <1>1
  <2> HIDE DEF cuts
  <2> QED
    BY <1>1, <1>3, <2>1, Tools!MaxOfNumbers
<1>5. PICK d \in dots : \A k \in dots : k <= d
  <2>1. dots \in SUBSET (0 .. Len(host)) /\ dots # {}
    BY <1>1 DEF dots
  <2> QED
    BY <1>1, <2>1, Tools!MaxOfNumbers
<1> HIDE DEF m
<1>6. m \in Nat /\ m < d /\ (m = 0 \/ host[m] = ".")
  <2>1. CASE m \in cuts
    <3>1. m \in dots /\ \E k \in dots : m < k
      BY <2>1
    <3>2. PICK k \in dots : m < k
      BY <3>1
    <3>3. m \in 1 .. Len(host) /\ host[m] = "." /\ k \in 1 .. Len(host) /\ k <= d
          /\ d \in 1 .. Len(host)
      BY <1>1, <1>5, <3>1, <3>2
    <3> QED
      BY <1>1, <3>2, <3>3
  <2>2. CASE m = 0
    BY <1>1, <2>2
  <2> QED
    BY <1>4, <2>1, <2>2
<1>7. ASSUME NEW k \in 1 .. Len(host), m < k, host[k] = "."
      PROVE  k = d
  <2>1. k \in dots /\ k <= d
    BY <1>1, <1>5, <1>7
  <2>2. ASSUME k < d
        PROVE  FALSE
    <3>1. k \in cuts
      BY <2>1, <2>2
    <3>2. k <= m
      BY <1>4, <3>1
    <3> QED
      BY <1>1, <1>6, <1>7, <3>2
  <2> QED
    BY <1>1, <2>1, <2>2
<1>8. d \in Nat /\ d \in 1 .. Len(host) /\ host[d] = "." /\ m <= Len(host)
  BY <1>1, <1>6
<1>9. l \in Text /\ Len(l) = Len(host) - m /\ \A j \in 1 .. Len(host) - m : l[j] = host[m + j]
  BY <1>1, <1>6, <1>8, PartOfText
<1>10. Routing!LastTwoLabels(host) = l
  <2>1. 1 + m = m + 1
    BY <1>6
  <2> QED
    BY <1>2, <2>1
<1> HIDE DEF cuts, l
<1>11. BehindOneDot(host, l, m, d)
  <2>1. Occurs(l, host, m)
    BY <1>1, <1>6, <1>9 DEF Occurs
  <2> QED
    BY <1>6, <1>7, <1>8, <1>9, <2>1 DEF BehindOneDot
<1>12. ASSUME NEW domain \in Text, NEW m1 \in Nat, NEW d1 \in Nat,
              BehindOneDot(host, domain, m1, d1)
       PROVE  domain = l
  <2>1. /\ m1 < d1 /\ d1 <= Len(host) /\ Len(domain) = Len(host) - m1
        /\ Occurs(domain, host, m1) /\ host[d1] = "." /\ (m1 = 0 \/ host[m1] = ".")
        /\ \A k \in 1 .. Len(host) : m1 < k /\ host[k] = "." => k = d1
    BY <1>12 DEF BehindOneDot
  <2>2. m1 = m
    <3>1. ASSUME m1 < m
          PROVE  FALSE
      <4>1. m \in 1 .. Len(host) /\ host[m] = "."
        BY <1>1, <1>6, <1>8, <3>1
      <4>2. m = d1 /\ d = d1
        BY <1>1, <1>6, <1>8, <2>1, <3>1, <4>1
      <4> QED
        BY <1>6, <1>8, <4>2
    <3>2. ASSUME m < m1
          PROVE  FALSE
      <4>1. m1 \in 1 .. Len(host) /\ host[m1] = "."
        BY <1>1, <1>6, <2>1, <3>2
      <4>2. m1 = d /\ d1 \in 1 .. Len(host) /\ m < d1
        BY <1>1, <1>6, <1>7, <2>1, <3>2, <4>1
      <4>3. d1 = d
        BY <1>7, <2>1, <4>2
      <4> QED
        BY <1>8, <2>1, <4>2, <4>3
    <3> QED
      BY <1>6, <3>1, <3>2
  <2>3. Len(domain) = Len(l) /\ Len(l) \in Nat
    BY <1>9, <2>1, <2>2, TextLength
  <2>4. \A j \in 1 .. Len(domain) : domain[j] = l[j]
    BY <1>9, <2>1, <2>2 DEF Occurs
  <2> QED
    BY <1>9, <2>3, <2>4, SameText
<1> QED
  BY <1>6, <1>8, <1>9, <1>10, <1>11, <1>12, OneDot

LEMMA StringsAreText ==
    ASSUME NEW s \in Seq(STRING)
    PROVE  s \in Text
<1>1. Len(s) \in Nat /\ s \in [1 .. Len(s) -> STRING]
  OBVIOUS
<1>2. s \in [1 .. Len(s) -> Tokens]
  BY <1>1 DEF Tokens
<1> QED
  BY <1>1, <1>2 DEF Text

\* A host with a dot is sent to the remote exactly when it lies in a domain of two
\* labels of the list, whatever the list.
THEOREM RouteIsByDomain ==
    ASSUME NEW r, AnyRequest(r), NEW list \in SUBSET Text, Routing!Dots(r.host) # {}
    PROVE  Routing!LastTwoLabels(Routing!ClientHost(Routing!TargetOf(r))) \in list <=>
               \E domain \in list : DomainOf(r.host, domain)
<1>1. Routing!ClientHost(Routing!TargetOf(r)) = r.host /\ r.host \in Text
  BY ClientTakesTheHost DEF AnyRequest
<1> QED
  BY <1>1, TwoLabels

-----------------------------------------------------------------------------
(* A behaviour stays in its part. *)

\* The temporal steps need the part behind an operator.
In(p) == part = p

LEMMA PartStays ==
    ASSUME NEW p
    PROVE  /\ In(p) /\ [Next]_vars => In(p)'
           /\ ~In(p) /\ [Next]_vars => ~In(p)'
  BY DEF In, Next, vars

-----------------------------------------------------------------------------
(* The routing part of the specification                                   *)

\* The route and the dialled target are what the two ends make of the request.
RequestsInv ==
    /\ x1 \in Routing!Request \cup {Null}
    /\ x2 /\ x3 # "none" =>
           x3 = IF x1 = Null THEN "error" ELSE Routing!Route(Routing!TargetOf(x1))
    /\ x4 # Routing!Nothing => x1 # Null /\ x4 = Routing!Dialled(Routing!TargetOf(x1))

LEMMA OfRequest ==
    ASSUME NEW r \in Routing!Request
    PROVE  AnyRequest(r)
<1>1. /\ Hosts \subseteq Seq(STRING) /\ Paths \subseteq Seq(STRING)
      /\ {"443"} \subseteq STRING \ Routing!Separators
      /\ \A host \in Hosts : \A k \in DOMAIN host : host[k] \notin Routing!Separators
      /\ \A path \in Paths : path # <<>> => path[1] = "/"
  BY PartsAssumption DEF PartsAssumption, Routing!TextsAssumption
<1>2. Len(Routing!Schemes) = 4
  BY DEF Routing!Schemes
<1>3. /\ r.scheme \in 0 .. 4 /\ r.host \in Hosts /\ r.port \in {"443"} \cup {Null}
      /\ r.path \in Paths
  BY <1>2 DEF Routing!Request
<1>4. r.host \in Text /\ r.path \in Text
  BY <1>1, <1>3, StringsAreText
<1>5. DOMAIN r.host = 1 .. Len(r.host)
  BY <1>4 DEF Text
<1>6. r.port = Null \/ r.port \in Tokens \ Routing!Separators
  BY <1>1, <1>3 DEF Tokens
<1> QED
  BY <1>1, <1>3, <1>4, <1>5, <1>6 DEF AnyRequest

LEMMA ListIsText == Pac \subseteq Text
<1>1. Pac \subseteq Seq(STRING)
  BY PartsAssumption DEF PartsAssumption, Routing!TextsAssumption
<1> QED
  BY <1>1, StringsAreText

LEMMA RequestsInvInit == Init => (In("routing") => RequestsInv)
<1> SUFFICES ASSUME Init, In("routing")
             PROVE  RequestsInv
  OBVIOUS
<1>1. Routing!Init
  BY DEF Init, RoutingInit, In
<1> QED
  BY <1>1 DEF Routing!Init, RequestsInv

LEMMA RequestsInvNext ==
    (In("routing") => RequestsInv) /\ [Next]_vars => (In("routing")' => RequestsInv')
<1> SUFFICES ASSUME In("routing") => RequestsInv, [Next]_vars, In("routing")'
             PROVE  RequestsInv'
  OBVIOUS
<1>1. In("routing") /\ RequestsInv
  BY DEF In, Next, vars
<1>2. CASE UNCHANGED vars
  BY <1>1, <1>2 DEF vars, RequestsInv
<1>3. CASE Routing!SocketThreadFunc
  BY <1>1, <1>3 DEF Routing!SocketThreadFunc, RequestsInv
<1>4. CASE Routing!Decode
  BY <1>1, <1>4 DEF Routing!Decode, RequestsInv
<1> QED
  BY <1>1, <1>2, <1>3, <1>4 DEF Next, In, Routing!Next

LEMMA RequestsInvSays == (In("routing") => RequestsInv) => RequestsMeanTheSame
<1> SUFFICES ASSUME RequestsInv
             PROVE  Routing!DialsWhatWasAsked /\ Routing!RoutedByDomain
  BY DEF In, RequestsMeanTheSame
<1>1. ASSUME x4 # Routing!Nothing, ~Routing!NamesItselfAgain(x1)
      PROVE  /\ x4.host = x1.host
             /\ x4.port = IF x1.port = Null THEN <<"80">> ELSE <<x1.port>>
  <2>1. x1 \in Routing!Request /\ x4 = Routing!Dialled(Routing!TargetOf(x1))
    BY <1>1 DEF RequestsInv
  <2>2. AnyRequest(x1)
    BY <2>1, OfRequest
  <2> QED
    BY <1>1, <2>1, <2>2, ServerDialsTheSame
<1>2. ASSUME x2, x3 \in {"remote", "direct"}
      PROVE  x3 = "remote" <=> \E domain \in Pac :
                 Cardinality(Routing!Dots(domain)) = 1 /\ Routing!Within(x1.host, domain)
  <2>1. x3 # "none" /\ x3 # "error"
    BY <1>2
  <2>2. x1 \in Routing!Request /\ x3 = Routing!Route(Routing!TargetOf(x1))
    BY <1>2, <2>1 DEF RequestsInv
  <2>3. AnyRequest(x1)
    BY <2>2, OfRequest
  <2> DEFINE host == Routing!ClientHost(Routing!TargetOf(x1))
  <2>4. x3 = IF Routing!Dots(host) = {} THEN "error"
             ELSE IF Routing!LastTwoLabels(host) \in Pac THEN "remote" ELSE "direct"
    BY <2>2 DEF Routing!Route
  <2>5. host = x1.host
    BY <2>3, ClientTakesTheHost
  <2> HIDE DEF host
  <2>6. Routing!Dots(x1.host) # {} /\ (x3 = "remote" <=> Routing!LastTwoLabels(host) \in Pac)
    BY <2>1, <2>4, <2>5
  <2>7. Routing!LastTwoLabels(host) \in Pac <=> \E domain \in Pac : DomainOf(x1.host, domain)
    BY <2>3, <2>6, ListIsText, RouteIsByDomain DEF host
  <2> QED
    BY <2>6, <2>7 DEF DomainOf
<1>3. Routing!DialsWhatWasAsked
  BY <1>1 DEF Routing!DialsWhatWasAsked
<1>4. Routing!RoutedByDomain
  <2>1. \A s : Routing!Cardinality(s) = Cardinality(s)
    BY DEF Routing!Cardinality, Cardinality
  <2> QED
    BY <1>2, <2>1 DEF Routing!RoutedByDomain
<1> QED
  BY <1>3, <1>4

\* Client and server mean the same request, and it is tunnelled exactly when its host is
\* in a domain of two labels of the list.
THEOREM RequestsTakenApart == Spec => []RequestsMeanTheSame
<1>1. Init => (In("routing") => RequestsInv)
  BY RequestsInvInit
<1>2. (In("routing") => RequestsInv) /\ [Next]_vars => (In("routing")' => RequestsInv')
  BY RequestsInvNext
<1>3. (In("routing") => RequestsInv) => RequestsMeanTheSame
  BY RequestsInvSays
<1> QED
  BY <1>1, <1>2, <1>3, PTL DEF Spec

-----------------------------------------------------------------------------
(* The frames *)

LEMMA SameEncode ==
    /\ \A s : Tools!AesEncode(s) = Framing!AesEncode(s)
    /\ \A s : Tools!AesDecode(s) = Framing!AesDecode(s)
    /\ Tools!Zeros(2) = Framing!Zeros(2)
<1>1. ASSUME NEW s
      PROVE  Tools!CBCEncrypt(s) = Framing!CBCEncrypt(s)
  BY DEF
     Tools!CBCEncrypt, Framing!CBCEncrypt, Tools!Padded, Framing!Padded, Tools!XorBlock,
     Framing!XorBlock, Tools!BlockOf, Framing!BlockOf, Tools!FlattenSeq,
     Framing!FlattenSeq
<1>2. ASSUME NEW s
      PROVE  Tools!CBCDecrypt(s) = Framing!CBCDecrypt(s)
  BY DEF
     Tools!CBCDecrypt, Framing!CBCDecrypt, Tools!WellPadded, Framing!WellPadded,
     Tools!XorBlock, Framing!XorBlock, Tools!BlockOf, Framing!BlockOf, Tools!FlattenSeq,
     Framing!FlattenSeq, Tools!Last, Framing!Last
<1>3. \A k : Tools!Zeros(k) = Framing!Zeros(k)
  BY DEF Tools!Zeros, Framing!Zeros
<1> QED
  BY <1>1, <1>2, <1>3 DEF Tools!AesEncode, Framing!AesEncode, Tools!AesDecode, Framing!AesDecode

LEMMA FramesAssumed ==
    /\ Tools!SizeAssumption /\ Tools!XorAssumption /\ Tools!CipherAssumption
    /\ Tools!ZerosAssumption
<1>1. /\ Framing!SizeAssumption /\ Framing!XorAssumption /\ Framing!CipherAssumption
      /\ Framing!ZerosAssumption
  BY PartsAssumption DEF PartsAssumption
<1>2. Tools!Byte = Framing!Byte /\ Tools!Block = Framing!Block
  BY DEF Tools!Byte, Framing!Byte, Tools!Block, Framing!Block
<1>3. Tools!SizeAssumption
  BY <1>1, <1>2 DEF Tools!SizeAssumption, Framing!SizeAssumption
<1>4. Tools!XorAssumption
  BY <1>1, <1>2 DEF Tools!XorAssumption, Framing!XorAssumption
<1>5. Tools!CipherAssumption
  BY <1>1, <1>2 DEF Tools!CipherAssumption, Framing!CipherAssumption
<1>6. Tools!ZerosAssumption
  BY <1>1, SameEncode DEF Tools!ZerosAssumption, Framing!ZerosAssumption
<1> QED
  BY <1>3, <1>4, <1>5, <1>6

LEMMA FrameSteps ==
    /\ Init /\ In("framing") => Tools!MessageInit
    /\ [Next]_vars /\ In("framing") => [Tools!MessageNext]_(Tools!messageVars)
<1>1. Init /\ In("framing") => Framing!MessageInit
  BY DEF Init, RoutingInit, In
<1>2. Framing!MessageInit => Tools!MessageInit
  BY DEF Framing!MessageInit, Tools!MessageInit, Framing!Bytes, Tools!Bytes, Framing!Byte, Tools!Byte
<1>3. [Next]_vars /\ In("framing") => Framing!MessageNext \/ UNCHANGED Tools!messageVars
  BY DEF Next, In, vars, Tools!messageVars
<1>4. Framing!MessageNext => Tools!MessageNext
  BY SameEncode DEF Framing!MessageNext, Tools!MessageNext, Framing!WebSocketWrite, Tools!WebSocketWrite,
     Framing!WebSocketRead, Tools!WebSocketRead
<1> QED
  BY <1>1, <1>2, <1>3, <1>4

LEMMA NoOtherFrames == ~In("framing") => FramesMeanTheSame
  BY DEF In, FramesMeanTheSame

LEMMA FramesSay == Tools!RoundTrip /\ Tools!OnlyFramesAccepted => FramesMeanTheSame
  BY SameEncode DEF FramesMeanTheSame, Tools!RoundTrip, Framing!RoundTrip,
     Tools!OnlyFramesAccepted, Framing!OnlyFramesAccepted

\* What frames of any cipher do, those of the run's do.
THEOREM FramesOfTheRun == Spec => []FramesMeanTheSame
<1>1. Tools!MessageSpec => [](Tools!RoundTrip /\ Tools!OnlyFramesAccepted)
  BY FramesAssumed, Tools!ForwardedAsRead
<1>2. /\ Init /\ In("framing") => Tools!MessageInit
      /\ [Next]_vars /\ In("framing") => [Tools!MessageNext]_(Tools!messageVars)
  BY FrameSteps
<1>3. /\ In("framing") /\ [Next]_vars => In("framing")'
      /\ ~In("framing") /\ [Next]_vars => ~In("framing")'
  BY PartStays
<1>4. Init /\ [][Next]_vars /\ In("framing") => Tools!MessageSpec
  BY <1>2, <1>3, PTL DEF Tools!MessageSpec
<1>5. Tools!RoundTrip /\ Tools!OnlyFramesAccepted => FramesMeanTheSame
  BY FramesSay
<1>6. Init /\ [][Next]_vars /\ In("framing") => []FramesMeanTheSame
  BY <1>1, <1>4, <1>5, PTL
<1>7. Init /\ [][Next]_vars /\ ~In("framing") => []FramesMeanTheSame
  BY <1>3, NoOtherFrames, PTL
<1> QED
  BY <1>6, <1>7, PTL DEF Spec

-----------------------------------------------------------------------------
(* The batches of points *)

LEMMA SameNumbers ==
    /\ Tools!PIPPENGER_MAX_BUCKET_WINDOW = Batches!PIPPENGER_MAX_BUCKET_WINDOW
    /\ Tools!ECMULT_PIPPENGER_THRESHOLD = Batches!ECMULT_PIPPENGER_THRESHOLD
    /\ Tools!bucket_window_inv = Batches!bucket_window_inv
    /\ Tools!strauss_point_size = Batches!strauss_point_size
    /\ \A a, b : Tools!Least(a, b) = Batches!Least(a, b)
    /\ \A m, q : Tools!batch_size_helper(m, q) = Batches!batch_size_helper(m, q)
  BY DEF
     Tools!batch_size_helper, Batches!batch_size_helper, Tools!Least, Batches!Least,
     Tools!ECMULT_MAX_POINTS_PER_BATCH, Batches!ECMULT_MAX_POINTS_PER_BATCH,
     Tools!PIPPENGER_MAX_BUCKET_WINDOW, Batches!PIPPENGER_MAX_BUCKET_WINDOW,
     Tools!ECMULT_PIPPENGER_THRESHOLD, Batches!ECMULT_PIPPENGER_THRESHOLD,
     Tools!bucket_window_inv, Batches!bucket_window_inv, Tools!SIZE_MAX, Batches!SIZE_MAX,
     Tools!strauss_point_size, Batches!strauss_point_size, Tools!ge_size, Batches!ge_size,
     Tools!gej_size, Batches!gej_size, Tools!fe_size, Batches!fe_size, Tools!scalar_size,
     Batches!scalar_size, Tools!strauss_ps_size, Batches!strauss_ps_size

LEMMA SameFrames ==
    /\ \A m, fs : Tools!max_allocation(m, fs) = Batches!max_allocation(m, fs)
    /\ \A q : Tools!Frame(q) = Batches!Frame(q)
<1>1. ASSUME NEW fs
      PROVE  Tools!Allocated(fs) = Batches!Allocated(fs)
  BY DEF Tools!Allocated, Batches!Allocated, Tools!FoldLeft, Batches!FoldLeft,
         Tools!MapThenFoldSet, Batches!MapThenFoldSet, Tools!Max, Batches!Max
<1>2. Tools!OBJECTS = Batches!OBJECTS /\ Tools!ALIGNMENT = Batches!ALIGNMENT
  BY DEF Tools!OBJECTS, Batches!OBJECTS, Tools!ALIGNMENT, Batches!ALIGNMENT
<1> QED
  BY <1>1, <1>2 DEF Tools!max_allocation, Batches!max_allocation, Tools!Frame, Batches!Frame

LEMMA SameFits ==
    \A m, fs, q : Tools!FrameFits(m, fs, q) <=> Batches!FrameFits(m, fs, q)
  BY SameFrames DEF Tools!FrameFits, Batches!FrameFits

LEMMA SameRoom ==
    /\ \A a, k : Tools!Room(a, k) = Batches!Room(a, k)
    /\ \A s : Tools!Max(s) = Batches!Max(s)
  BY DEF
     Tools!Room, Batches!Room, Tools!Max, Batches!Max, Tools!Least, Batches!Least,
     Tools!bucket_window_inv, Batches!bucket_window_inv, Tools!SIZE_MAX, Batches!SIZE_MAX,
     Tools!gej_size, Batches!gej_size, Tools!entry_size, Batches!entry_size,
     Tools!ge_size, Batches!ge_size, Tools!scalar_size, Batches!scalar_size,
     Tools!pippenger_ps_size, Batches!pippenger_ps_size, Tools!pippenger_state_size,
     Batches!pippenger_state_size, Tools!WNAF_SIZE, Batches!WNAF_SIZE, Tools!int_size,
     Batches!int_size

LEMMA SameMost ==
    \A m, fs : /\ Tools!pippenger_max_points(m, fs) = Batches!pippenger_max_points(m, fs)
               /\ Tools!strauss_max_points(m, fs) = Batches!strauss_max_points(m, fs)
<1> TAKE m, fs
<1>1. Tools!strauss_max_points(m, fs) = Batches!strauss_max_points(m, fs)
  BY SameFrames, SameNumbers DEF Tools!strauss_max_points, Batches!strauss_max_points
<1> DEFINE a == Batches!max_allocation(m, fs)
<1>2. \A k : Tools!WindowTried(a, k) <=> Batches!WindowTried(a, k)
  BY SameRoom, SameNumbers DEF Tools!WindowTried, Batches!WindowTried
<1> DEFINE windows == {k \in 1 .. Batches!PIPPENGER_MAX_BUCKET_WINDOW : Batches!WindowTried(a, k)}
<1>3. {k \in 1 .. Tools!PIPPENGER_MAX_BUCKET_WINDOW : Tools!WindowTried(a, k)} = windows
  BY <1>2, SameNumbers
<1>4. /\ Tools!max_allocation(m, fs) = a
      /\ Tools!pippenger_max_points(m, fs) =
             Tools!Max({0} \cup {Tools!Room(a, k) : k \in windows})
      /\ Batches!pippenger_max_points(m, fs) =
             Batches!Max({0} \cup {Batches!Room(a, k) : k \in windows})
  BY <1>3, SameFrames DEF Tools!pippenger_max_points, Batches!pippenger_max_points
<1> HIDE DEF windows, a
<1>5. {Tools!Room(a, k) : k \in windows} = {Batches!Room(a, k) : k \in windows}
  BY SameRoom
<1> QED
  BY <1>1, <1>4, <1>5, SameRoom

LEMMA SameBatchInit == Batches!Init => Tools!Init
<1> SUFFICES ASSUME Batches!Init
             PROVE  Tools!Init
  OBVIOUS
<1> DEFINE held(s) == {<<Batches!Frame(o)>> : o \in s}
<1> DEFINE fit == {b \in {1, 3200} : Batches!FrameFits(x1, <<>>, b)}
<1> DEFINE fit1 == {b \in {1, 3200} : Tools!FrameFits(x1, <<>>, b)}
<1>1. fit1 = fit
  BY SameFits
<1>2. \A s : {<<Tools!Frame(o)>> : o \in s} = held(s)
  BY SameFrames
<1>3. x2 \in {<<>>} \cup (IF x1 = Null THEN {} ELSE held(fit))
  BY DEF Batches!Init
<1>4. {<<Tools!Frame(o)>> : o \in fit1} = held(fit)
  <2> HIDE DEF fit, fit1, held
  <2> QED
    BY <1>1, <1>2
<1>5. x2 \in {<<>>} \cup (IF x1 = Null THEN {} ELSE {<<Tools!Frame(o)>> : o \in fit1})
  <2> HIDE DEF fit, fit1, held
  <2> QED
    BY <1>3, <1>4
<1> QED
  BY <1>5 DEF Tools!Init, Batches!Init

LEMMA SameCall == Batches!Call => Tools!Call
<1>1. /\ \A v : Tools!Return(v) <=> Batches!Return(v)
      /\ \A c : Tools!Simple(c) <=> Batches!Simple(c)
  BY SameNumbers DEF Tools!Return, Batches!Return, Tools!Simple, Batches!Simple
<1>2. \A c, p, s : Tools!InBatches(c, p, s) <=> Batches!InBatches(c, p, s)
  BY <1>1, SameNumbers DEF Tools!InBatches, Batches!InBatches
<1> QED
  BY <1>1, <1>2, SameMost DEF Tools!Call, Batches!Call

LEMMA SameNeeds ==
    /\ Tools!nbp = Batches!nbp /\ Tools!offset = Batches!offset
    /\ Tools!GOfBatch = Batches!GOfBatch
    /\ Tools!Needed = Batches!Needed
    /\ Tools!Objects = Batches!Objects
  BY DEF
     Tools!nbp, Batches!nbp, Tools!offset, Batches!offset, Tools!GOfBatch,
     Batches!GOfBatch, Tools!Needed, Batches!Needed, Tools!Objects, Batches!Objects,
     Tools!Least, Batches!Least, Tools!strauss_point_size, Batches!strauss_point_size,
     Tools!strauss_objects, Batches!strauss_objects, Tools!bucket_window,
     Batches!bucket_window, Tools!bucket_window_inv, Batches!bucket_window_inv,
     Tools!SIZE_MAX, Batches!SIZE_MAX, Tools!PIPPENGER_MAX_BUCKET_WINDOW,
     Batches!PIPPENGER_MAX_BUCKET_WINDOW, Tools!pippenger_scratch_size,
     Batches!pippenger_scratch_size, Tools!pippenger_objects, Batches!pippenger_objects,
     Tools!entries, Batches!entries, Tools!entry_size, Batches!entry_size,
     Tools!WNAF_SIZE, Batches!WNAF_SIZE, Tools!ge_size, Batches!ge_size, Tools!gej_size,
     Batches!gej_size, Tools!fe_size, Batches!fe_size, Tools!scalar_size,
     Batches!scalar_size, Tools!int_size, Batches!int_size, Tools!pippenger_ps_size,
     Batches!pippenger_ps_size, Tools!pippenger_state_size, Batches!pippenger_state_size,
     Tools!strauss_ps_size, Batches!strauss_ps_size

LEMMA SameOpenBatch == Batches!OpenBatch => Tools!OpenBatch
<1>1. \A v : Tools!Return(v) <=> Batches!Return(v)
  BY DEF Tools!Return, Batches!Return
<1>2. ASSUME NEW q, NEW s
      PROVE  Tools!FoldLeft(Tools!alloc, q, s) = Batches!FoldLeft(Batches!alloc, q, s)
  BY DEF Tools!FoldLeft, Batches!FoldLeft, Tools!alloc, Batches!alloc, Tools!ALIGNMENT,
         Batches!ALIGNMENT, Tools!MapThenFoldSet, Batches!MapThenFoldSet, Tools!Max, Batches!Max
<1> QED
  BY <1>1, <1>2, SameFits, SameFrames, SameNeeds DEF Tools!OpenBatch, Batches!OpenBatch

LEMMA SameEnd ==
    /\ Batches!CallbackFails => Tools!CallbackFails
    /\ Batches!CloseBatch => Tools!CloseBatch
    /\ Batches!Done => Tools!Done
  BY DEF
     Tools!CallbackFails, Batches!CallbackFails, Tools!CloseBatch, Batches!CloseBatch,
     Tools!Done, Batches!Done, Tools!nbp, Batches!nbp, Tools!offset, Batches!offset,
     Tools!Least, Batches!Least, Tools!GOfBatch, Batches!GOfBatch, Tools!AfterFailure,
     Batches!AfterFailure, Tools!Front, Batches!Front, Tools!Return, Batches!Return

LEMMA SameSums ==
    /\ Tools!SumIsWhole => Batches!SumIsWhole
    /\ Tools!RoomForEveryBatch => Batches!RoomForEveryBatch
    /\ Tools!ObjectsHaveRoom => Batches!ObjectsHaveRoom
    /\ Tools!WithinMaxSize => Batches!WithinMaxSize
    /\ Tools!FramesGivenBack => Batches!FramesGivenBack
  BY DEF
     Tools!SumIsWhole, Batches!SumIsWhole, Tools!RoomForEveryBatch,
     Batches!RoomForEveryBatch, Tools!ObjectsHaveRoom, Batches!ObjectsHaveRoom,
     Tools!WithinMaxSize, Batches!WithinMaxSize, Tools!FramesGivenBack,
     Batches!FramesGivenBack, Tools!Covered, Batches!Covered, Tools!ge_size,
     Batches!ge_size, Tools!gej_size, Batches!gej_size, Tools!fe_size, Batches!fe_size,
     Tools!scalar_size, Batches!scalar_size, Tools!int_size, Batches!int_size,
     Tools!pippenger_ps_size, Batches!pippenger_ps_size, Tools!pippenger_state_size,
     Batches!pippenger_state_size, Tools!strauss_ps_size, Batches!strauss_ps_size,
     Tools!ALIGNMENT, Batches!ALIGNMENT, Tools!OBJECTS, Batches!OBJECTS,
     Tools!PIPPENGER_MAX_BUCKET_WINDOW, Batches!PIPPENGER_MAX_BUCKET_WINDOW,
     Tools!ECMULT_PIPPENGER_THRESHOLD, Batches!ECMULT_PIPPENGER_THRESHOLD,
     Tools!ECMULT_MAX_POINTS_PER_BATCH, Batches!ECMULT_MAX_POINTS_PER_BATCH,
     Tools!SIZE_MAX, Batches!SIZE_MAX, Tools!Least, Batches!Least, Tools!WNAF_SIZE,
     Batches!WNAF_SIZE, Tools!Allocated, Batches!Allocated, Tools!max_allocation,
     Batches!max_allocation, Tools!FrameFits, Batches!FrameFits, Tools!Frame,
     Batches!Frame, Tools!alloc, Batches!alloc, Tools!strauss_point_size,
     Batches!strauss_point_size, Tools!strauss_max_points, Batches!strauss_max_points,
     Tools!strauss_objects, Batches!strauss_objects, Tools!bucket_window_inv,
     Batches!bucket_window_inv, Tools!bucket_window, Batches!bucket_window,
     Tools!entry_size, Batches!entry_size, Tools!entries, Batches!entries,
     Tools!pippenger_scratch_size, Batches!pippenger_scratch_size,
     Tools!pippenger_objects, Batches!pippenger_objects, Tools!Room, Batches!Room,
     Tools!WindowTried, Batches!WindowTried, Tools!pippenger_max_points,
     Batches!pippenger_max_points, Tools!batch_size_helper, Batches!batch_size_helper,
     Tools!nbp, Batches!nbp, Tools!offset, Batches!offset, Tools!GOfBatch,
     Batches!GOfBatch, Tools!Needed, Batches!Needed, Tools!Objects, Batches!Objects,
     Tools!AfterFailure, Batches!AfterFailure, Tools!Return, Batches!Return,
     Tools!Simple, Batches!Simple, Tools!InBatches, Batches!InBatches, Tools!FoldLeft,
     Batches!FoldLeft, Tools!MapThenFoldSet, Batches!MapThenFoldSet, Tools!Max,
     Batches!Max, Tools!Front, Batches!Front, Tools!Last, Batches!Last

LEMMA BatchSteps ==
    /\ Init /\ In("batches") => Tools!Init
    /\ [Next]_vars /\ In("batches") => [Tools!Next]_(Tools!vars)
<1>1. Init /\ In("batches") => Batches!Init
  BY DEF Init, RoutingInit, In
<1>2. [Next]_vars /\ In("batches") => Batches!Next \/ UNCHANGED Tools!vars
  BY DEF Next, In, vars, Tools!vars
<1>3. Batches!Next => Tools!Next
  BY SameCall, SameOpenBatch, SameEnd DEF Batches!Next, Tools!Next
<1> QED
  BY <1>1, <1>2, <1>3, SameBatchInit

LEMMA NoOtherBatches == ~In("batches") => BatchesFit
  BY DEF In, BatchesFit

LEMMA BatchesSay ==
    Tools!SumIsWhole /\ Tools!RoomForEveryBatch /\ Tools!ObjectsHaveRoom
    /\ Tools!WithinMaxSize /\ Tools!FramesGivenBack => BatchesFit
  BY SameSums DEF BatchesFit

\* What the batches of any scratch space do, those of the run's sizes do.
THEOREM BatchesOfTheRun == Spec => []BatchesFit
<1>1. Tools!SizesAssumption
  BY PartsAssumption DEF PartsAssumption, Tools!SizesAssumption, Batches!SizesAssumption
<1>2. Tools!Spec => [](Tools!SumIsWhole /\ Tools!RoomForEveryBatch /\ Tools!ObjectsHaveRoom
                       /\ Tools!WithinMaxSize /\ Tools!FramesGivenBack)
  BY <1>1, Tools!BatchesFitTheSpace
<1>3. /\ Init /\ In("batches") => Tools!Init
      /\ [Next]_vars /\ In("batches") => [Tools!Next]_(Tools!vars)
  BY BatchSteps
<1>4. /\ In("batches") /\ [Next]_vars => In("batches")'
      /\ ~In("batches") /\ [Next]_vars => ~In("batches")'
  BY PartStays
<1>5. Init /\ [][Next]_vars /\ In("batches") => Tools!Spec
  BY <1>3, <1>4, PTL DEF Tools!Spec
<1>6. Tools!SumIsWhole /\ Tools!RoomForEveryBatch /\ Tools!ObjectsHaveRoom
      /\ Tools!WithinMaxSize /\ Tools!FramesGivenBack => BatchesFit
  BY BatchesSay
<1>7. Init /\ [][Next]_vars /\ In("batches") => []BatchesFit
  BY <1>2, <1>5, <1>6, PTL
<1>8. Init /\ [][Next]_vars /\ ~In("batches") => []BatchesFit
  BY <1>4, NoOtherBatches, PTL
<1> QED
  BY <1>7, <1>8, PTL DEF Spec

================================================================================
