---------------------------- MODULE CryptoToolsProofs ----------------------------
(***************************************************************************)
(* Two parts of src/crypto_tools that share no state.                      *)
(*                                                                         *)
(* A call's batches fit the scratch space, and the space is given back,    *)
(* for every number of points, size of the space and failure (module       *)
(* MultiMul).                                                              *)
(*                                                                         *)
(* What is encrypted comes out as it went in, and nothing else comes out,  *)
(* for messages and frames of any length, any size of a block and any      *)
(* cipher that can be undone (module AesCbc).                              *)
(***************************************************************************)
EXTENDS MultiMul, AesCbc, FiniteSetTheorems, SequenceTheorems, WellFoundedInduction, TLAPS

(* Counting and dividing                                                   *)

\* A set of numbers that has 0, and with each its successor, has them all.
LEMMA CountingUp ==
    ASSUME NEW T, 0 \in T, \A j \in Nat : j \in T => j + 1 \in T
    PROVE  \A j \in Nat : j \in T
<1> SUFFICES ASSUME Nat \ T # {} PROVE FALSE
  OBVIOUS
<1> DEFINE R == {ss \in Nat \X Nat : ss[1] < ss[2]}
<1>1. IsWellFoundedOn(R, Nat)
  BY NatLessThanWellFounded DEF OpToRel
<1>2. PICK m \in Nat \ T : \A k \in Nat \ T : <<k, m>> \notin R
  BY <1>1, WFMin, Zenon
<1>3. m # 0
  OBVIOUS
<1>4. m - 1 \in Nat /\ m - 1 < m
  BY <1>3
<1>5. m - 1 \in T
  BY <1>2, <1>4
<1>6. (m - 1) + 1 \in T /\ (m - 1) + 1 = m
  BY <1>4, <1>5
<1> QED
  BY <1>6

LEMMA DivExact ==
    ASSUME NEW j \in Nat, NEW d \in Nat \ {0}
    PROVE  j \div d \in Nat /\ j % d \in 0 .. d - 1 /\ j = (j \div d) * d + (j % d)
  OBVIOUS

LEMMA TimesGrows ==
    ASSUME NEW j \in Nat, NEW m \in Nat, NEW d \in Nat, j <= m
    PROVE  j * d \in Nat /\ m * d \in Nat /\ j * d <= m * d
<1> DEFINE e == m - j
<1>1. e \in Nat /\ m = j + e
  OBVIOUS
<1> HIDE DEF e
<1>2. m * d = j * d + e * d /\ e * d \in Nat /\ j * d \in Nat
  BY <1>1
<1> QED
  BY <1>2

-----------------------------------------------------------------------------
(* FoldLeft of the community modules chooses a function on the subsets of  *)
(* the places that takes each by its last.                                 *)

TakesLast(F, base, g, m) ==
    \A t \in SUBSET (1 .. m) : g[t] = IF t = {} THEN base ELSE F[<<Max(t), g[t \ {Max(t)}]>>]

LEMMA MaxOfNumbers ==
    ASSUME NEW m \in Nat, NEW t \in SUBSET (0 .. m), t # {}
    PROVE  Max(t) \in t /\ \A k \in t : k <= Max(t)
<1> DEFINE T == {j \in Nat : \A u \in SUBSET (0 .. j) : u # {} => \E x \in u : \A y \in u : x >= y}
<1>1. 0 \in T
  <2>1. ASSUME NEW u \in SUBSET (0 .. 0), u # {}
        PROVE  \E x \in u : \A y \in u : x >= y
    <3>1. \A y \in u : y = 0
      OBVIOUS
    <3>2. PICK x \in u : TRUE
      BY <2>1
    <3>3. \A y \in u : x >= y
      <4>1. x = 0 /\ 0 >= 0
        BY <3>1
      <4> QED
        BY ONLY <3>1, <4>1
    <3> QED
      BY <3>3
  <2> QED
    BY <2>1
<1>2. ASSUME NEW j \in Nat, j \in T
      PROVE  j + 1 \in T
  <2>1. ASSUME NEW u \in SUBSET (0 .. j + 1), u # {}
        PROVE  \E x \in u : \A y \in u : x >= y
    <3>1. CASE j + 1 \in u
      BY <3>1
    <3>2. CASE j + 1 \notin u
      <4>1. u \in SUBSET (0 .. j)
        BY <3>2
      <4> QED
        BY <1>2, <2>1, <4>1
    <3> QED
      BY <3>1, <3>2
  <2> QED
    BY <2>1
<1> HIDE DEF T
<1>3. m \in T
  BY <1>1, <1>2, CountingUp
<1>4. \E x \in t : \A y \in t : x >= y
  BY <1>3 DEF T
<1>5. Max(t) \in t /\ \A y \in t : Max(t) >= y
  BY <1>4 DEF Max
<1>6. \A y \in t : y \in Int
  OBVIOUS
<1> QED
  BY <1>5, <1>6

LEMMA MaxOfSubset ==
    ASSUME NEW m \in Nat, NEW t \in SUBSET (1 .. m), t # {}
    PROVE  Max(t) \in t /\ \A k \in t : k <= Max(t)
<1>1. \A k \in 1 .. m : k \in 0 .. m
  OBVIOUS
<1>2. t \in SUBSET (0 .. m)
  BY <1>1
<1> QED
  BY <1>2, MaxOfNumbers

LEMMA FirstPlaces ==
    ASSUME NEW m \in Nat, NEW k \in 1 .. m
    PROVE  /\ 1 .. k \in SUBSET (1 .. m) /\ 1 .. k # {}
           /\ Max(1 .. k) = k /\ (1 .. k) \ {k} = 1 .. k - 1
<1>1. 1 .. k # {} /\ k \in 1 .. k /\ k \in Nat
  OBVIOUS
<1>2. Max(1 .. k) \in 1 .. k /\ \A y \in 1 .. k : y <= Max(1 .. k)
  BY <1>1, MaxOfSubset
<1>3. Max(1 .. k) = k
  BY <1>1, <1>2
<1>4. 1 .. k \in SUBSET (1 .. m)
  OBVIOUS
<1> QED
  BY <1>1, <1>3, <1>4

LEMMA WithoutLast ==
    ASSUME NEW j \in Nat, NEW t \in SUBSET (1 .. j + 1)
    PROVE  /\ t \ {j + 1} \in SUBSET (1 .. j) /\ t \ {j + 1} \in SUBSET (1 .. j + 1)
           /\ j + 1 \notin t => t \in SUBSET (1 .. j)
<1>1. \A x \in 1 .. j + 1 : x # j + 1 => x \in 1 .. j
  OBVIOUS
<1>2. \A x \in t \ {j + 1} : x \in 1 .. j /\ x \in 1 .. j + 1
  BY <1>1
<1>3. j + 1 \notin t => \A x \in t : x \in 1 .. j
  BY <1>1
<1> QED
  BY ONLY <1>2, <1>3

LEMMA TakesLastExists ==
    ASSUME NEW A, NEW base \in A, NEW m \in Nat, NEW F \in [(1 .. m) \X A -> A]
    PROVE  \E g \in [SUBSET (1 .. m) -> A] : TakesLast(F, base, g, m)
<1> DEFINE Has(j) == \E g \in [SUBSET (1 .. j) -> A] : TakesLast(F, base, g, j)
<1> DEFINE T == {j \in Nat : j <= m => Has(j)}
<1>1. 0 \in T
  <2> DEFINE g == [t \in SUBSET (1 .. 0) |-> base]
  <2>1. g \in [SUBSET (1 .. 0) -> A]
    OBVIOUS
  <2>2. \A t \in SUBSET (1 .. 0) : t = {} /\ g[t] = base
    OBVIOUS
  <2> HIDE DEF g
  <2>3. TakesLast(F, base, g, 0)
    BY <2>2 DEF TakesLast
  <2>4. Has(0)
    BY <2>1, <2>3
  <2> HIDE DEF Has
  <2> QED
    BY <2>4
<1>2. ASSUME NEW j \in Nat, j \in T
      PROVE  j + 1 \in T
  <2>1. ASSUME j + 1 <= m
        PROVE  Has(j + 1)
    <3>1. j <= m /\ j + 1 \in 1 .. m
      BY <2>1
    <3>2. PICK h \in [SUBSET (1 .. j) -> A] : TakesLast(F, base, h, j)
      BY <1>2, <3>1
    <3>3. \A t \in SUBSET (1 .. j + 1) : t \ {j + 1} \in SUBSET (1 .. j)
      BY WithoutLast
    <3> DEFINE g == [t \in SUBSET (1 .. j + 1) |->
                        IF j + 1 \in t THEN F[<<j + 1, h[t \ {j + 1}]>>] ELSE h[t]]
    <3>4. \A t \in SUBSET (1 .. j + 1) : j + 1 \notin t => t \in SUBSET (1 .. j)
      BY WithoutLast
    <3>5. ASSUME NEW t \in SUBSET (1 .. j + 1)
          PROVE  (IF j + 1 \in t THEN F[<<j + 1, h[t \ {j + 1}]>>] ELSE h[t]) \in A
      <4>1. CASE j + 1 \in t
        <5>1. h[t \ {j + 1}] \in A
          BY <3>3
        <5> QED
          BY <3>1, <4>1, <5>1
      <4>2. CASE j + 1 \notin t
        BY <3>4, <4>2
      <4> QED
        BY <4>1, <4>2
    <3>6. g \in [SUBSET (1 .. j + 1) -> A]
      BY <3>5
    <3>7. \A t \in SUBSET (1 .. j + 1) :
              g[t] = IF j + 1 \in t THEN F[<<j + 1, h[t \ {j + 1}]>>] ELSE h[t]
      OBVIOUS
    <3> HIDE DEF g
    <3>8. ASSUME NEW t \in SUBSET (1 .. j + 1)
          PROVE  g[t] = IF t = {} THEN base ELSE F[<<Max(t), g[t \ {Max(t)}]>>]
      <4>1. CASE j + 1 \in t
        <5>1. t # {} /\ Max(t) \in t /\ \A k \in t : k <= Max(t)
          <6>1. j + 1 \in Nat
            OBVIOUS
          <6> QED
            BY <4>1, <6>1, MaxOfSubset
        <5>2. Max(t) = j + 1
          <6>1. Max(t) \in 1 .. j + 1 /\ j + 1 <= Max(t)
            BY <4>1, <5>1
          <6> QED
            BY <6>1
        <5> DEFINE u == t \ {j + 1}
        <5>3. u \in SUBSET (1 .. j) /\ u \in SUBSET (1 .. j + 1) /\ j + 1 \notin u
          BY WithoutLast
        <5>4. g[u] = h[u]
          BY <3>7, <5>3
        <5>5. g[t] = F[<<j + 1, h[u]>>]
          BY <3>7, <4>1
        <5> HIDE DEF u
        <5>6. g[t] = F[<<j + 1, g[u]>>]
          BY <5>4, <5>5
        <5> QED
          BY <5>1, <5>2, <5>6 DEF u
      <4>2. CASE j + 1 \notin t
        <5>1. t \in SUBSET (1 .. j)
          BY <3>4, <4>2
        <5>2. g[t] = h[t]
          BY <3>7, <4>2
        <5>3. h[t] = IF t = {} THEN base ELSE F[<<Max(t), h[t \ {Max(t)}]>>]
          BY <3>2, <5>1 DEF TakesLast
        <5> DEFINE u == t \ {Max(t)}
        <5>4. u \in SUBSET (1 .. j + 1) /\ j + 1 \notin u
          BY <4>2
        <5>5. g[u] = h[u]
          BY <3>7, <5>4
        <5> QED
          BY <5>2, <5>3, <5>5
      <4> QED
        BY <4>1, <4>2
    <3>9. TakesLast(F, base, g, j + 1)
      BY <3>8 DEF TakesLast
    <3> QED
      BY <3>6, <3>9
  <2> HIDE DEF Has
  <2> QED
    BY <2>1
<1> HIDE DEF T, Has
<1>3. m \in T
  BY <1>1, <1>2, CountingUp
<1>4. Has(m)
  BY <1>3 DEF T
<1> QED
  BY <1>4 DEF Has

\* Values that follow from the ones before are the same when they begin the same.
LEMMA SameSteps ==
    ASSUME NEW m \in Nat, NEW a, NEW b, a[0] = b[0],
           \A k \in 1 .. m : a[k - 1] = b[k - 1] => a[k] = b[k]
    PROVE  a[m] = b[m]
<1> DEFINE T == {k \in Nat : k <= m => a[k] = b[k]}
<1>1. 0 \in T
  OBVIOUS
<1>2. ASSUME NEW k \in Nat, k \in T
      PROVE  k + 1 \in T
  <2>1. ASSUME k + 1 <= m
        PROVE  a[k + 1] = b[k + 1]
    <3>1. k <= m /\ k + 1 \in 1 .. m /\ (k + 1) - 1 = k
      BY <2>1
    <3>2. a[k] = b[k]
      BY <1>2, <3>1
    <3> QED
      BY <3>1, <3>2
  <2> QED
    BY <2>1
<1> HIDE DEF T
<1>3. \A k \in Nat : k \in T
  BY <1>1, <1>2, CountingUp
<1> QED
  BY <1>3 DEF T

-----------------------------------------------------------------------------
(* How much of the space frames take                                       *)

FrameType == [size : Nat, offset : Nat, nulls : Nat]

\* The sum is made frame by frame.
LEMMA AllocatedSteps ==
    ASSUME NEW m \in Nat, NEW fs \in [1 .. m -> FrameType]
    PROVE  \E acc : /\ acc[0] = 0 /\ Allocated(fs) = acc[m]
                    /\ \A k \in 1 .. m : acc[k] = acc[k - 1] + fs[k].size
<1> DEFINE S == 1 .. m
<1> DEFINE IsIter(h) == h = [t \in SUBSET S |->
                IF t = {} THEN 0 ELSE h[t \ {Max(t)}] + fs[Max(t)].size]
<1> DEFINE iter == CHOOSE h : IsIter(h)
<1>1. DOMAIN fs = S
  OBVIOUS
<1>2. Allocated(fs) = iter[S]
  BY <1>1 DEF Allocated, FoldLeft, MapThenFoldSet
<1>3. \E h : IsIter(h)
  <2> DEFINE F == [p \in (1 .. m) \X Nat |-> p[2] + fs[p[1]].size]
  <2>1. F \in [(1 .. m) \X Nat -> Nat]
    <3>1. \A k \in 1 .. m : fs[k].size \in Nat
      BY DEF FrameType
    <3>2. \A p \in (1 .. m) \X Nat : p[1] \in 1 .. m /\ p[2] \in Nat
      OBVIOUS
    <3>3. \A p \in (1 .. m) \X Nat : p[2] + fs[p[1]].size \in Nat
      BY <3>1, <3>2
    <3> QED
      BY <3>3
  <2>2. \A k \in 1 .. m, x \in Nat : F[<<k, x>>] = x + fs[k].size
    OBVIOUS
  <2> HIDE DEF F
  <2>3. PICK h \in [SUBSET (1 .. m) -> Nat] : TakesLast(F, 0, h, m)
    BY <2>1, TakesLastExists
  <2>4. ASSUME NEW t \in SUBSET (1 .. m)
        PROVE  h[t] = IF t = {} THEN 0 ELSE h[t \ {Max(t)}] + fs[Max(t)].size
    <3>1. CASE t = {}
      BY <2>3, <3>1 DEF TakesLast
    <3>2. CASE t # {}
      <4>1. Max(t) \in 1 .. m /\ t \ {Max(t)} \in SUBSET (1 .. m)
        BY <3>2, MaxOfSubset
      <4>2. h[t] = F[<<Max(t), h[t \ {Max(t)}]>>]
        BY <2>3, <3>2 DEF TakesLast
      <4> QED
        BY <2>2, <3>2, <4>1, <4>2
    <3> QED
      BY <3>1, <3>2
  <2> QED
    BY <2>4
<1>4. IsIter(iter)
  BY <1>3
<1> HIDE DEF iter
<1> DEFINE acc == [k \in 0 .. m |-> iter[1 .. k]]
<1>5. acc[0] = 0
  <2>1. 0 \in 0 .. m /\ 1 .. 0 = {}
    OBVIOUS
  <2> QED
    BY <1>4, <2>1
<1>6. ASSUME NEW k \in 1 .. m
      PROVE  acc[k] = acc[k - 1] + fs[k].size
  <2>1. /\ 1 .. k \in SUBSET S /\ 1 .. k # {}
        /\ Max(1 .. k) = k /\ (1 .. k) \ {k} = 1 .. k - 1
    BY FirstPlaces
  <2>2. iter[1 .. k] = iter[(1 .. k) \ {Max(1 .. k)}] + fs[Max(1 .. k)].size
    BY <1>4, <2>1
  <2>3. k \in 0 .. m /\ k - 1 \in 0 .. m
    OBVIOUS
  <2> QED
    BY <2>1, <2>2, <2>3
<1>7. acc[m] = Allocated(fs)
  <2>1. m \in 0 .. m
    OBVIOUS
  <2> QED
    BY <1>2, <2>1
<1> HIDE DEF acc
<1> QED
  BY <1>5, <1>6, <1>7

LEMMA AllocatedOfNone == Allocated(<<>>) = 0
<1>1. 0 \in Nat /\ <<>> \in [1 .. 0 -> FrameType]
  OBVIOUS
<1> QED
  BY <1>1, AllocatedSteps

\* One frame more takes its size more.
LEMMA AllocatedAppend ==
    ASSUME NEW s \in Seq(FrameType), NEW fr \in FrameType
    PROVE  Allocated(Append(s, fr)) = Allocated(s) + fr.size
<1> DEFINE m == Len(s)
<1> DEFINE u == Append(s, fr)
<1>1. m \in Nat /\ m + 1 \in Nat /\ s \in [1 .. m -> FrameType]
  OBVIOUS
<1>2. u \in [1 .. m + 1 -> FrameType]
  <2>1. u \in Seq(FrameType) /\ Len(u) = m + 1
    OBVIOUS
  <2> HIDE DEF u, m
  <2> QED
    BY <2>1
<1>3. u[m + 1] = fr /\ \A k \in 1 .. m : u[k] = s[k]
  OBVIOUS
<1> HIDE DEF m, u
<1>4. PICK a : /\ a[0] = 0 /\ Allocated(s) = a[m]
               /\ \A k \in 1 .. m : a[k] = a[k - 1] + s[k].size
  BY <1>1, AllocatedSteps
<1>5. PICK b : /\ b[0] = 0 /\ Allocated(u) = b[m + 1]
               /\ \A k \in 1 .. m + 1 : b[k] = b[k - 1] + u[k].size
  BY <1>2, <1>1, AllocatedSteps
<1>6. ASSUME NEW k \in 1 .. m, a[k - 1] = b[k - 1]
      PROVE  a[k] = b[k]
  <2>1. k \in 1 .. m + 1
    BY <1>1
  <2>2. a[k] = a[k - 1] + s[k].size /\ b[k] = b[k - 1] + u[k].size
    BY <1>4, <1>5, <2>1
  <2>3. u[k] = s[k]
    BY <1>3
  <2> QED
    BY <1>6, <2>2, <2>3
<1>7. a[m] = b[m]
  BY <1>1, <1>4, <1>5, <1>6, SameSteps
<1>8. m + 1 \in 1 .. m + 1 /\ (m + 1) - 1 = m
  BY <1>1
<1>9. b[m + 1] = b[m] + fr.size
  BY <1>3, <1>5, <1>8
<1> QED
  BY <1>4, <1>5, <1>7, <1>9 DEF u

-----------------------------------------------------------------------------
(* What is put into a frame                                                *)

\* An object takes at most fifteen bytes more than its size, and no more than there are.
LEMMA AllocType ==
    ASSUME NEW fr \in FrameType, NEW size \in Nat
    PROVE  /\ alloc(fr, size) \in FrameType
           /\ fr.offset + size + 15 <= fr.size =>
                /\ alloc(fr, size).nulls = fr.nulls
                /\ alloc(fr, size).offset <= fr.offset + size + 15
                /\ alloc(fr, size).size = fr.size
<1> DEFINE whole == ((size + ALIGNMENT - 1) \div ALIGNMENT) * ALIGNMENT
<1>1. whole \in Nat /\ whole <= size + 15
  BY DEF ALIGNMENT
<1>2. alloc(fr, size) = IF whole + fr.offset > fr.size THEN [fr EXCEPT !.nulls = @ + 1]
                        ELSE [fr EXCEPT !.offset = @ + whole]
  BY DEF alloc
<1> HIDE DEF whole
<1>3. fr.size \in Nat /\ fr.offset \in Nat /\ fr.nulls \in Nat
  BY DEF FrameType
<1>4. alloc(fr, size) \in FrameType
  BY <1>1, <1>2, <1>3 DEF FrameType
<1>5. ASSUME fr.offset + size + 15 <= fr.size
      PROVE  alloc(fr, size) = [fr EXCEPT !.offset = @ + whole]
  BY <1>1, <1>2, <1>3, <1>5
<1> QED
  BY <1>1, <1>3, <1>4, <1>5 DEF FrameType

LEMMA PlacedSteps ==
    ASSUME NEW m \in Nat, NEW objs \in [1 .. m -> Nat], NEW first \in FrameType
    PROVE  \E acc : /\ acc[0] = first /\ FoldLeft(alloc, first, objs) = acc[m]
                    /\ \A k \in 1 .. m : acc[k] = alloc(acc[k - 1], objs[k])
<1> DEFINE S == 1 .. m
<1> DEFINE IsIter(h) == h = [t \in SUBSET S |->
                IF t = {} THEN first ELSE alloc(h[t \ {Max(t)}], objs[Max(t)])]
<1> DEFINE iter == CHOOSE h : IsIter(h)
<1>1. DOMAIN objs = S
  OBVIOUS
<1>2. FoldLeft(alloc, first, objs) = iter[S]
  BY <1>1 DEF FoldLeft, MapThenFoldSet
<1>3. \E h : IsIter(h)
  <2> DEFINE F == [p \in (1 .. m) \X FrameType |-> alloc(p[2], objs[p[1]])]
  <2>1. F \in [(1 .. m) \X FrameType -> FrameType]
    <3>1. \A p \in (1 .. m) \X FrameType : p[2] \in FrameType /\ objs[p[1]] \in Nat
      OBVIOUS
    <3>2. \A p \in (1 .. m) \X FrameType : alloc(p[2], objs[p[1]]) \in FrameType
      BY <3>1, AllocType
    <3> QED
      BY <3>2
  <2>2. \A k \in 1 .. m, x \in FrameType : F[<<k, x>>] = alloc(x, objs[k])
    OBVIOUS
  <2> HIDE DEF F
  <2>3. PICK h \in [SUBSET (1 .. m) -> FrameType] : TakesLast(F, first, h, m)
    BY <2>1, TakesLastExists
  <2>4. ASSUME NEW t \in SUBSET (1 .. m)
        PROVE  h[t] = IF t = {} THEN first ELSE alloc(h[t \ {Max(t)}], objs[Max(t)])
    <3>1. CASE t = {}
      BY <2>3, <3>1 DEF TakesLast
    <3>2. CASE t # {}
      <4>1. Max(t) \in 1 .. m /\ t \ {Max(t)} \in SUBSET (1 .. m)
        BY <3>2, MaxOfSubset
      <4>2. h[t] = F[<<Max(t), h[t \ {Max(t)}]>>]
        BY <2>3, <3>2 DEF TakesLast
      <4> QED
        BY <2>2, <3>2, <4>1, <4>2
    <3> QED
      BY <3>1, <3>2
  <2> QED
    BY <2>4
<1>4. IsIter(iter)
  BY <1>3
<1> HIDE DEF iter
<1> DEFINE acc == [k \in 0 .. m |-> iter[1 .. k]]
<1>5. acc[0] = first
  <2>1. 0 \in 0 .. m /\ 1 .. 0 = {}
    OBVIOUS
  <2> QED
    BY <1>4, <2>1
<1>6. ASSUME NEW k \in 1 .. m
      PROVE  acc[k] = alloc(acc[k - 1], objs[k])
  <2>1. /\ 1 .. k \in SUBSET S /\ 1 .. k # {}
        /\ Max(1 .. k) = k /\ (1 .. k) \ {k} = 1 .. k - 1
    BY FirstPlaces
  <2>2. iter[1 .. k] = alloc(iter[(1 .. k) \ {Max(1 .. k)}], objs[Max(1 .. k)])
    BY <1>4, <2>1
  <2>3. k \in 0 .. m /\ k - 1 \in 0 .. m
    OBVIOUS
  <2> QED
    BY <2>1, <2>2, <2>3
<1>7. acc[m] = FoldLeft(alloc, first, objs)
  <2>1. m \in 0 .. m
    OBVIOUS
  <2> QED
    BY <1>2, <2>1
<1> HIDE DEF acc
<1> QED
  BY <1>5, <1>6, <1>7

\* The sum so far is no more than the whole.
LEMMA SumsInOrder ==
    ASSUME NEW s1 \in Nat, NEW s2 \in Nat, NEW s3 \in Nat, NEW s4 \in Nat, NEW s5 \in Nat,
           NEW s6 \in Nat, NEW bytes \in Nat, s1 + s2 + s3 + s4 + s5 + s6 <= bytes
    PROVE  LET one == 0 + s1 + 15 two == one + s2 + 15 three == two + s3 + 15
               four == three + s4 + 15 five == four + s5 + 15 six == five + s6 + 15
           IN  /\ one \in Nat /\ two \in Nat /\ three \in Nat /\ four \in Nat
               /\ five \in Nat
               /\ one <= bytes + 96 /\ two <= bytes + 96 /\ three <= bytes + 96
               /\ four <= bytes + 96 /\ five <= bytes + 96 /\ six <= bytes + 96
  OBVIOUS

\* A new frame that the objects are put into.
Filled(bytes, objs) == FoldLeft(alloc, Frame(bytes), objs)

\* Six sizes, no more than there are bytes.
Within(s1, s2, s3, s4, s5, s6, bytes) ==
    /\ s1 \in Nat /\ s2 \in Nat /\ s3 \in Nat /\ s4 \in Nat /\ s5 \in Nat /\ s6 \in Nat
    /\ bytes \in Nat /\ s1 + s2 + s3 + s4 + s5 + s6 <= bytes

\* Six objects have their places when there are fifteen bytes for each beside its own.
LEMMA ObjectsPlaced ==
    ASSUME NEW s1, NEW s2, NEW s3, NEW s4, NEW s5, NEW s6, NEW bytes,
           Within(s1, s2, s3, s4, s5, s6, bytes)
    PROVE  LET fr == Filled(bytes, <<s1, s2, s3, s4, s5, s6>>)
           IN  fr \in FrameType /\ fr.nulls = 0 /\ fr.size = bytes + OBJECTS * ALIGNMENT
<1> USE DEF Within
<1> DEFINE objs == <<s1, s2, s3, s4, s5, s6>>
<1>1. /\ Frame(bytes) \in FrameType /\ Frame(bytes).size = bytes + 96
      /\ Frame(bytes).offset = 0 /\ Frame(bytes).nulls = 0
  BY DEF Frame, FrameType, OBJECTS, ALIGNMENT
<1>2. /\ objs \in [1 .. 6 -> Nat] /\ 6 \in Nat
      /\ objs[1] = s1 /\ objs[2] = s2 /\ objs[3] = s3
      /\ objs[4] = s4 /\ objs[5] = s5 /\ objs[6] = s6
  OBVIOUS
<1> HIDE DEF objs
<1>3. PICK a : /\ a[0] = Frame(bytes) /\ Filled(bytes, objs) = a[6]
               /\ \A k \in 1 .. 6 : a[k] = alloc(a[k - 1], objs[k])
  BY <1>1, <1>2, PlacedSteps DEF Filled
<1>4. /\ a[1] = alloc(a[0], s1) /\ a[2] = alloc(a[1], s2)
      /\ a[3] = alloc(a[2], s3) /\ a[4] = alloc(a[3], s4)
      /\ a[5] = alloc(a[4], s5) /\ a[6] = alloc(a[5], s6)
  <2>1. /\ a[1] = alloc(a[1 - 1], s1) /\ a[2] = alloc(a[2 - 1], s2)
        /\ a[3] = alloc(a[3 - 1], s3) /\ a[4] = alloc(a[4 - 1], s4)
        /\ a[5] = alloc(a[5 - 1], s5) /\ a[6] = alloc(a[6 - 1], s6)
    BY <1>2, <1>3
  <2>2. 1 - 1 = 0 /\ 2 - 1 = 1 /\ 3 - 1 = 2 /\ 4 - 1 = 3 /\ 5 - 1 = 4 /\ 6 - 1 = 5
    OBVIOUS
  <2> QED
    BY <2>1, <2>2
<1> DEFINE Placed(fr, used) == /\ fr \in FrameType /\ fr.nulls = 0
                               /\ fr.size = bytes + 96 /\ fr.offset <= used
<1>5. ASSUME NEW fr, NEW used \in Nat, NEW size \in Nat, Placed(fr, used),
             used + size + 15 <= bytes + 96
      PROVE  Placed(alloc(fr, size), used + size + 15)
  <2>1. fr.offset \in Nat
    BY <1>5 DEF FrameType
  <2>2. fr.offset + size + 15 <= fr.size
    BY <1>5, <2>1
  <2>3. /\ alloc(fr, size) \in FrameType /\ alloc(fr, size).nulls = 0
        /\ alloc(fr, size).size = bytes + 96
        /\ alloc(fr, size).offset <= fr.offset + size + 15
    BY <1>5, <2>1, <2>2, AllocType
  <2>4. alloc(fr, size).offset \in Nat
    BY <2>3 DEF FrameType
  <2> QED
    BY <1>5, <2>1, <2>3, <2>4
<1>6. Placed(a[0], 0)
  BY <1>1, <1>3
<1> HIDE DEF Placed
<1> DEFINE one == 0 + s1 + 15
<1> DEFINE two == one + s2 + 15
<1> DEFINE three == two + s3 + 15
<1> DEFINE four == three + s4 + 15
<1> DEFINE five == four + s5 + 15
<1> DEFINE six == five + s6 + 15
<1>7. /\ one \in Nat /\ two \in Nat /\ three \in Nat /\ four \in Nat /\ five \in Nat
      /\ one <= bytes + 96 /\ two <= bytes + 96 /\ three <= bytes + 96
      /\ four <= bytes + 96 /\ five <= bytes + 96 /\ six <= bytes + 96
  BY SumsInOrder
<1>8. Placed(a[1], one)
  BY <1>4, <1>5, <1>6, <1>7
<1>9. Placed(a[2], two)
  <2> HIDE DEF one
  <2> QED
    BY <1>4, <1>5, <1>7, <1>8
<1>10. Placed(a[3], three)
  <2> HIDE DEF two
  <2> QED
    BY <1>4, <1>5, <1>7, <1>9
<1>11. Placed(a[4], four)
  <2> HIDE DEF three
  <2> QED
    BY <1>4, <1>5, <1>7, <1>10
<1>12. Placed(a[5], five)
  <2> HIDE DEF four
  <2> QED
    BY <1>4, <1>5, <1>7, <1>11
<1>13. Placed(a[6], six)
  <2> HIDE DEF five
  <2> QED
    BY <1>4, <1>5, <1>7, <1>12
<1> QED
  BY <1>3, <1>13 DEF Placed, objs, OBJECTS, ALIGNMENT

-----------------------------------------------------------------------------
(* How far ranges go                                                       *)

GoesOn(range, upto) == IF range[1] = upto THEN range[2] ELSE -1

LEMMA CoveredSteps ==
    ASSUME NEW m \in Nat, NEW rs \in [1 .. m -> Nat \X Nat]
    PROVE  \E acc : /\ acc[0] = 0 /\ Covered(rs) = acc[m]
                    /\ \A k \in 1 .. m : acc[k] = GoesOn(rs[k], acc[k - 1])
<1> DEFINE S == 1 .. m
<1> DEFINE IsIter(h) == h = [t \in SUBSET S |->
                IF t = {} THEN 0 ELSE GoesOn(rs[Max(t)], h[t \ {Max(t)}])]
<1> DEFINE iter == CHOOSE h : IsIter(h)
<1>1. DOMAIN rs = S
  OBVIOUS
<1>2. Covered(rs) = iter[S]
  BY <1>1 DEF Covered, GoesOn, FoldLeft, MapThenFoldSet
<1>3. \E h : IsIter(h)
  <2> DEFINE F == [p \in (1 .. m) \X Int |-> GoesOn(rs[p[1]], p[2])]
  <2>1. F \in [(1 .. m) \X Int -> Int]
    <3>1. \A k \in 1 .. m : rs[k] \in Nat \X Nat /\ rs[k][2] \in Int
      OBVIOUS
    <3>2. \A p \in (1 .. m) \X Int : p[1] \in 1 .. m /\ p[2] \in Int
      OBVIOUS
    <3>3. \A p \in (1 .. m) \X Int : GoesOn(rs[p[1]], p[2]) \in Int
      BY <3>1, <3>2 DEF GoesOn
    <3> QED
      BY <3>3
  <2>2. \A k \in 1 .. m, x \in Int : F[<<k, x>>] = GoesOn(rs[k], x)
    OBVIOUS
  <2> HIDE DEF F
  <2>3. PICK h \in [SUBSET (1 .. m) -> Int] : TakesLast(F, 0, h, m)
    <3>1. 0 \in Int
      OBVIOUS
    <3> QED
      BY ONLY m \in Nat, <2>1, <3>1, TakesLastExists
  <2>4. ASSUME NEW t \in SUBSET (1 .. m)
        PROVE  h[t] = IF t = {} THEN 0 ELSE GoesOn(rs[Max(t)], h[t \ {Max(t)}])
    <3>1. CASE t = {}
      BY <2>3, <3>1 DEF TakesLast
    <3>2. CASE t # {}
      <4>1. Max(t) \in 1 .. m /\ t \ {Max(t)} \in SUBSET (1 .. m)
        BY <3>2, MaxOfSubset
      <4>2. h[t] = F[<<Max(t), h[t \ {Max(t)}]>>]
        BY <2>3, <3>2 DEF TakesLast
      <4> QED
        BY <2>2, <3>2, <4>1, <4>2
    <3> QED
      BY <3>1, <3>2
  <2> QED
    BY <2>4
<1>4. IsIter(iter)
  BY <1>3
<1> HIDE DEF iter
<1> DEFINE acc == [k \in 0 .. m |-> iter[1 .. k]]
<1>5. acc[0] = 0
  <2>1. 0 \in 0 .. m /\ 1 .. 0 = {}
    OBVIOUS
  <2> QED
    BY <1>4, <2>1
<1>6. ASSUME NEW k \in 1 .. m
      PROVE  acc[k] = GoesOn(rs[k], acc[k - 1])
  <2>1. /\ 1 .. k \in SUBSET S /\ 1 .. k # {}
        /\ Max(1 .. k) = k /\ (1 .. k) \ {k} = 1 .. k - 1
    BY FirstPlaces
  <2>2. iter[1 .. k] = GoesOn(rs[Max(1 .. k)], iter[(1 .. k) \ {Max(1 .. k)}])
    BY <1>4, <2>1
  <2>3. k \in 0 .. m /\ k - 1 \in 0 .. m
    OBVIOUS
  <2> QED
    BY <2>1, <2>2, <2>3
<1>7. acc[m] = Covered(rs)
  <2>1. m \in 0 .. m
    OBVIOUS
  <2> QED
    BY <1>2, <2>1
<1> HIDE DEF acc
<1> QED
  BY <1>5, <1>6, <1>7

LEMMA CoveredOfNone == Covered(<<>>) = 0
<1>1. 0 \in Nat /\ <<>> \in [1 .. 0 -> Nat \X Nat]
  OBVIOUS
<1> QED
  BY <1>1, CoveredSteps

LEMMA CoveredAppend ==
    ASSUME NEW s \in Seq(Nat \X Nat), NEW range \in Nat \X Nat
    PROVE  Covered(Append(s, range)) = GoesOn(range, Covered(s))
<1> DEFINE m == Len(s)
<1> DEFINE u == Append(s, range)
<1>1. m \in Nat /\ m + 1 \in Nat /\ s \in [1 .. m -> Nat \X Nat]
  OBVIOUS
<1>2. u \in [1 .. m + 1 -> Nat \X Nat]
  <2>1. u \in Seq(Nat \X Nat) /\ Len(u) = m + 1
    OBVIOUS
  <2> HIDE DEF u, m
  <2> QED
    BY <2>1
<1>3. u[m + 1] = range /\ \A k \in 1 .. m : u[k] = s[k]
  OBVIOUS
<1> HIDE DEF m, u
<1>4. PICK a : /\ a[0] = 0 /\ Covered(s) = a[m]
               /\ \A k \in 1 .. m : a[k] = GoesOn(s[k], a[k - 1])
  BY <1>1, CoveredSteps
<1>5. PICK b : /\ b[0] = 0 /\ Covered(u) = b[m + 1]
               /\ \A k \in 1 .. m + 1 : b[k] = GoesOn(u[k], b[k - 1])
  BY <1>2, <1>1, CoveredSteps
<1>6. ASSUME NEW k \in 1 .. m, a[k - 1] = b[k - 1]
      PROVE  a[k] = b[k]
  <2>1. k \in 1 .. m + 1
    BY <1>1
  <2>2. a[k] = GoesOn(s[k], a[k - 1]) /\ b[k] = GoesOn(u[k], b[k - 1])
    BY <1>4, <1>5, <2>1
  <2>3. u[k] = s[k]
    BY <1>3
  <2> QED
    BY <1>6, <2>2, <2>3
<1>7. a[m] = b[m]
  BY <1>1, <1>4, <1>5, <1>6, SameSteps
<1>8. m + 1 \in 1 .. m + 1 /\ (m + 1) - 1 = m
  BY <1>1
<1>9. b[m + 1] = GoesOn(range, b[m])
  BY <1>3, <1>5, <1>8
<1> QED
  BY <1>4, <1>5, <1>7, <1>9 DEF u

-----------------------------------------------------------------------------
(* How much there is, and how much is needed                               *)

LEMMA AllocatedType ==
    ASSUME NEW s \in Seq(FrameType)
    PROVE  Allocated(s) \in Nat
<1> DEFINE m == Len(s)
<1>1. m \in Nat /\ s \in [1 .. m -> FrameType]
  OBVIOUS
<1> HIDE DEF m
<1>2. PICK a : /\ a[0] = 0 /\ Allocated(s) = a[m]
               /\ \A k \in 1 .. m : a[k] = a[k - 1] + s[k].size
  BY <1>1, AllocatedSteps
<1> DEFINE T == {k \in Nat : k <= m => a[k] \in Nat}
<1>3. 0 \in T
  BY <1>2
<1>4. ASSUME NEW k \in Nat, k \in T
      PROVE  k + 1 \in T
  <2>1. ASSUME k + 1 <= m
        PROVE  a[k + 1] \in Nat
    <3>1. k <= m /\ k + 1 \in 1 .. m /\ (k + 1) - 1 = k
      BY <1>1, <2>1
    <3>2. a[k] \in Nat /\ s[k + 1].size \in Nat
      BY <1>1, <1>4, <3>1 DEF FrameType
    <3> QED
      BY <1>2, <3>1, <3>2
  <2> QED
    BY <2>1
<1> HIDE DEF T
<1>5. m \in T
  BY <1>1, <1>3, <1>4, CountingUp
<1> QED
  BY <1>1, <1>2, <1>5 DEF T

\* What fits, with its frame, into what is left.
LEMMA RoomLeft ==
    ASSUME NEW size \in Nat, NEW fs \in Seq(FrameType)
    PROVE  /\ max_allocation(size, fs) \in Nat
           /\ \A k \in Nat \ {0} : k <= max_allocation(size, fs) =>
                  Allocated(fs) + k + OBJECTS * ALIGNMENT <= size
<1>1. Allocated(fs) \in Nat
  BY AllocatedType
<1>2. OBJECTS * ALIGNMENT = 96
  BY DEF OBJECTS, ALIGNMENT
<1>3. max_allocation(size, fs) =
          IF size - Allocated(fs) <= 96 THEN 0 ELSE size - Allocated(fs) - 96
  BY <1>2 DEF max_allocation
<1> QED
  BY <1>1, <1>2, <1>3

LEMMA Products ==
    ASSUME NEW a \in Nat, NEW b \in Nat, NEW c \in Nat
    PROVE  /\ a * b \in Nat /\ (a + 1) * b = a * b + b /\ a * (b + 1) = a * b + a
           /\ a <= b => a * c <= b * c
<1>1. ASSUME a <= b PROVE a * c <= b * c
  BY <1>1, TimesGrows
<1> QED
  BY <1>1

\* The batches are as many as are needed, and no larger than is allowed.
LEMMA BatchSizes ==
    ASSUME NEW max_points \in Nat \ {0}, NEW count \in Nat \ {0}
    PROVE  LET b == batch_size_helper(max_points, count)
           IN  /\ b.batches \in Nat \ {0} /\ b.points \in Nat \ {0}
               /\ b.points <= max_points /\ b.points <= ECMULT_MAX_POINTS_PER_BATCH
               /\ (b.batches - 1) * b.points < count /\ count <= b.batches * b.points
<1> DEFINE most == Least(max_points, ECMULT_MAX_POINTS_PER_BATCH)
<1>1. most \in Nat \ {0} /\ most <= max_points /\ most <= ECMULT_MAX_POINTS_PER_BATCH
  BY DEF Least, ECMULT_MAX_POINTS_PER_BATCH
<1> HIDE DEF most
<1> DEFINE k == (count - 1) \div most
<1>2. PICK t \in 0 .. most - 1 : k \in Nat /\ count - 1 = k * most + t
  <2>1. count - 1 \in Nat
    OBVIOUS
  <2> QED
    BY <1>1, <2>1, DivExact
<1> DEFINE q == (count - 1) \div (1 + k)
<1> HIDE DEF k
<1>3. PICK r \in 0 .. k : q \in Nat /\ count - 1 = q * (1 + k) + r
  <2>1. count - 1 \in Nat /\ 1 + k \in Nat \ {0} /\ (1 + k) - 1 = k
    BY <1>2
  <2> HIDE DEF q
  <2>2. q \in Nat /\ (count - 1) % (1 + k) \in 0 .. (1 + k) - 1
        /\ count - 1 = q * (1 + k) + ((count - 1) % (1 + k))
    BY <2>1, DivExact DEF q
  <2> QED
    BY <2>1, <2>2
<1>4. batch_size_helper(max_points, count) = [batches |-> 1 + k, points |-> 1 + q]
  BY DEF batch_size_helper, most, k, q
<1> HIDE DEF q
<1>5. /\ count = q * k + q + r + 1 /\ count = k * most + t + 1
      /\ q * k \in Nat /\ k * most \in Nat
  BY <1>1, <1>2, <1>3, Products
<1>6. q < most
  <2>1. SUFFICES ASSUME most <= q PROVE FALSE
    BY <1>1, <1>3
  <2>2. most * k <= q * k /\ most * k = k * most
    BY <1>1, <1>2, <1>3, <2>1, Products
  <2> QED
    BY <1>1, <1>2, <1>3, <1>5, <2>1, <2>2
<1>7. k * (1 + q) < count
  <2>1. SUFFICES ASSUME count <= k * (1 + q) PROVE FALSE
    BY <1>2, <1>3
  <2>2. k * (1 + q) = q * k + k /\ (q + 1) * k = q * k + k
    BY <1>2, <1>3, Products
  <2>3. (q + 1) * k <= most * k /\ most * k = k * most
    BY <1>1, <1>2, <1>3, <1>6, Products
  <2> QED
    BY <1>1, <1>2, <1>3, <1>5, <2>1, <2>2, <2>3
<1>8. count <= (1 + k) * (1 + q)
  <2>1. (1 + k) * (1 + q) = q * k + q + k + 1
    BY <1>2, <1>3, Products
  <2>2. PICK p \in Nat : p = q * k
    BY <1>5
  <2>3. count = p + q + r + 1 /\ (1 + k) * (1 + q) = p + q + k + 1
    BY <1>5, <2>1, <2>2
  <2> QED
    BY <1>2, <1>3, <2>3
<1>9. (1 + k) - 1 = k /\ 1 + k \in Nat \ {0} /\ 1 + q \in Nat \ {0} /\ 1 + q <= most
  BY <1>1, <1>2, <1>3, <1>6
<1> QED
  BY <1>1, <1>4, <1>7, <1>8, <1>9 DEF ECMULT_MAX_POINTS_PER_BATCH

-----------------------------------------------------------------------------
(* Pippenger's windows                                                     *)

LEMMA Limits ==
    /\ SIZE_MAX \in Nat /\ ECMULT_MAX_POINTS_PER_BATCH \in Nat \ {0}
    /\ ECMULT_MAX_POINTS_PER_BATCH <= SIZE_MAX
  BY SMT DEF SIZE_MAX, ECMULT_MAX_POINTS_PER_BATCH

Windows == 1 .. PIPPENGER_MAX_BUCKET_WINDOW

LEMMA WindowTypes ==
    ASSUME NEW w \in Windows
    PROVE  /\ 2^w \in Nat /\ bucket_window_inv[w] \in 1 .. SIZE_MAX
           /\ WNAF_SIZE(w + 1) \in Nat /\ entry_size(w) \in Nat \ {0}
<1>1. /\ 2^1 \in Nat /\ 2^2 \in Nat /\ 2^3 \in Nat /\ 2^4 \in Nat /\ 2^5 \in Nat /\ 2^6 \in Nat
      /\ 2^7 \in Nat /\ 2^8 \in Nat /\ 2^9 \in Nat /\ 2^10 \in Nat /\ 2^11 \in Nat /\ 2^12 \in Nat
  OBVIOUS
<1>2. \/ w = 1 \/ w = 2 \/ w = 3 \/ w = 4 \/ w = 5 \/ w = 6 \/ w = 7 \/ w = 8 \/ w = 9
      \/ w = 10 \/ w = 11 \/ w = 12
  BY DEF Windows, PIPPENGER_MAX_BUCKET_WINDOW
<1>3. 2^w \in Nat
  BY <1>1, <1>2, Zenon
<1>4. bucket_window_inv[w] \in 1 .. SIZE_MAX
  <2>1. \A v \in 1 .. 12 : bucket_window_inv[v] \in Nat \ {0}
    BY SMT DEF bucket_window_inv, SIZE_MAX
  <2>2. \A v \in 1 .. 12 : bucket_window_inv[v] <= SIZE_MAX
    BY SMT DEF bucket_window_inv, SIZE_MAX
  <2> QED
    BY <2>1, <2>2, Limits DEF Windows, PIPPENGER_MAX_BUCKET_WINDOW
<1>5. WNAF_SIZE(w + 1) \in Nat /\ entry_size(w) \in Nat \ {0}
  BY <1>2 DEF WNAF_SIZE, entry_size, ge_size, scalar_size, pippenger_ps_size, int_size
<1> QED
  BY <1>3, <1>4, <1>5

\* The window of a number of points is the smallest that is good for so many.
LEMMA WindowOf ==
    ASSUME NEW count \in Nat, count <= SIZE_MAX
    PROVE  LET w == bucket_window(count)
           IN  /\ w \in Windows /\ count <= bucket_window_inv[w]
               /\ \A v \in 1 .. w - 1 : count > bucket_window_inv[v]
<1> DEFINE Good(w) == count <= bucket_window_inv[w] /\
                      \A v \in 1 .. w - 1 : count > bucket_window_inv[v]
<1> DEFINE T == {w \in Nat : w \in Windows => \/ \E v \in 1 .. w : Good(v)
                                              \/ \A v \in 1 .. w : count > bucket_window_inv[v]}
<1>1. 0 \in T
  BY DEF Windows
<1>2. ASSUME NEW w \in Nat, w \in T
      PROVE  w + 1 \in T
  <2>1. ASSUME w + 1 \in Windows
        PROVE  \/ \E v \in 1 .. w + 1 : Good(v)
               \/ \A v \in 1 .. w + 1 : count > bucket_window_inv[v]
    <3>1. w = 0 \/ w \in Windows
      BY <2>1 DEF Windows, PIPPENGER_MAX_BUCKET_WINDOW
    <3>2. \/ \E v \in 1 .. w : Good(v)
          \/ \A v \in 1 .. w : count > bucket_window_inv[v]
      BY <1>2, <3>1
    <3>3. CASE \E v \in 1 .. w : Good(v)
      <4>1. \A v \in 1 .. w : v \in 1 .. w + 1
        OBVIOUS
      <4> HIDE DEF Good
      <4> QED
        BY <3>3, <4>1
    <3>4. CASE \A v \in 1 .. w : count > bucket_window_inv[v]
      <4>1. bucket_window_inv[w + 1] \in Nat
        BY <2>1, WindowTypes, Limits
      <4>2. CASE count <= bucket_window_inv[w + 1]
        <5>1. (w + 1) - 1 = w /\ w + 1 \in 1 .. w + 1
          OBVIOUS
        <5>2. Good(w + 1)
          BY <3>4, <4>2, <5>1
        <5> HIDE DEF Good
        <5> QED
          BY <5>1, <5>2
      <4>3. CASE count > bucket_window_inv[w + 1]
        <5>1. \A v \in 1 .. w + 1 : v \in 1 .. w \/ v = w + 1
          OBVIOUS
        <5>2. \A v \in 1 .. w + 1 : count > bucket_window_inv[v]
          BY <3>4, <4>3, <5>1
        <5> QED
          BY <5>2
      <4> QED
        BY <4>1, <4>2, <4>3
    <3> QED
      BY <3>2, <3>3, <3>4
  <2> QED
    BY <2>1
<1>3. 12 \in T
  <2> HIDE DEF T
  <2> QED
    BY <1>1, <1>2, CountingUp
<1>4. \E w \in Windows : Good(w)
  <2>1. 12 \in Windows /\ Windows = 1 .. 12 /\ bucket_window_inv[12] = SIZE_MAX
    BY DEF Windows, PIPPENGER_MAX_BUCKET_WINDOW, bucket_window_inv
  <2>2. \/ \E v \in 1 .. 12 : Good(v)
        \/ \A v \in 1 .. 12 : count > bucket_window_inv[v]
    BY <1>3, <2>1
  <2>3. ~ (count > bucket_window_inv[12])
    BY <2>1, Limits
  <2> QED
    BY <2>1, <2>2, <2>3
<1>5. bucket_window(count) = CHOOSE w \in Windows : Good(w)
  BY DEF bucket_window, Windows
<1> HIDE DEF Good
<1>6. bucket_window(count) \in Windows /\ Good(bucket_window(count))
  BY <1>4, <1>5
<1> QED
  BY <1>6 DEF Good

\* What is within the room for a window fits, with that window.
LEMMA WithinRoom ==
    ASSUME NEW w \in Windows, NEW max_alloc \in Nat, NEW count \in Nat \ {0}
    PROVE  /\ Room(max_alloc, w) \in 0 .. bucket_window_inv[w]
           /\ count <= Room(max_alloc, w) => pippenger_scratch_size(count, w) <= max_alloc
<1> DEFINE e == entry_size(w)
<1> DEFINE b == gej_size * 2^w
<1> DEFINE overhead == gej_size * 2^w + entry_size(w) + pippenger_state_size
<1>1. e \in Nat \ {0} /\ b \in Nat /\ bucket_window_inv[w] \in Nat
  BY WindowTypes, Limits DEF gej_size
<1>2. Room(max_alloc, w) = IF overhead > max_alloc THEN 0
                           ELSE Least((max_alloc - overhead) \div e, bucket_window_inv[w])
  BY DEF Room
<1>3. overhead = b + e + 16
  BY DEF pippenger_state_size
<1>4. pippenger_scratch_size(count, w) = b + 16 + (count + 1) * e
  BY DEF pippenger_scratch_size, pippenger_state_size, entries
<1> HIDE DEF e, b, overhead
<1>5. CASE overhead > max_alloc
  BY <1>1, <1>2, <1>5
<1>6. CASE overhead <= max_alloc
  <2> DEFINE left == max_alloc - overhead
  <2>1. left \in Nat /\ max_alloc = b + e + 16 + left
    BY <1>1, <1>3, <1>6
  <2> HIDE DEF left
  <2> DEFINE most == left \div e
  <2>2. most \in Nat /\ left % e \in Nat /\ left = most * e + (left % e)
    BY <1>1, <2>1, DivExact
  <2>3. Room(max_alloc, w) = Least(most, bucket_window_inv[w])
    BY <1>1, <1>2, <1>3, <1>6 DEF left
  <2> HIDE DEF most
  <2>4. /\ Room(max_alloc, w) \in Nat /\ Room(max_alloc, w) <= bucket_window_inv[w]
        /\ Room(max_alloc, w) <= most
    BY <1>1, <2>2, <2>3 DEF Least
  <2>5. ASSUME count <= Room(max_alloc, w)
        PROVE  pippenger_scratch_size(count, w) <= max_alloc
    <3>1. count <= most
      BY <2>2, <2>4, <2>5
    <3>2. count * e <= most * e /\ (count + 1) * e = count * e + e
          /\ count * e \in Nat /\ most * e \in Nat
      BY <1>1, <2>2, <3>1, Products
    <3>3. count * e <= left
      BY <2>1, <2>2, <3>2
    <3> QED
      BY <1>1, <1>4, <2>1, <3>2, <3>3
  <2> QED
    BY <1>1, <2>4, <2>5
<1> QED
  BY <1>1, <1>3, <1>5, <1>6

LEMMA MostPoints ==
    ASSUME NEW size \in Nat, NEW fs \in Seq(FrameType)
    PROVE  LET max_alloc == max_allocation(size, fs)
               most == pippenger_max_points(size, fs)
           IN  /\ most \in Nat
               /\ \A w \in Windows : WindowTried(max_alloc, w) => Room(max_alloc, w) <= most
               /\ most # 0 => \E w \in Windows : /\ WindowTried(max_alloc, w)
                                                 /\ most = Room(max_alloc, w)
<1> DEFINE A == max_allocation(size, fs)
<1>1. A \in Nat
  BY RoomLeft
<1> DEFINE Rooms == {Room(A, w) : w \in {v \in Windows : WindowTried(A, v)}}
<1>2. pippenger_max_points(size, fs) = Max({0} \cup Rooms)
  BY DEF pippenger_max_points, Windows
<1>3. {0} \cup Rooms \in SUBSET (0 .. SIZE_MAX) /\ SIZE_MAX \in Nat
  <2> HIDE DEF A
  <2>1. ASSUME NEW w \in Windows
        PROVE  Room(A, w) \in 0 .. SIZE_MAX
    <3>1. Room(A, w) \in 0 .. bucket_window_inv[w]
      BY <1>1, WithinRoom
    <3>2. bucket_window_inv[w] \in 1 .. SIZE_MAX
      BY WindowTypes
    <3> QED
      BY <3>1, <3>2, Limits
  <2>2. 0 \in 0 .. SIZE_MAX /\ SIZE_MAX \in Nat
    BY Limits
  <2> QED
    BY <2>1, <2>2
<1> DEFINE all == {0} \cup Rooms
<1>4. all # {} /\ \A k \in all : k = 0 \/ k \in Rooms
  OBVIOUS
<1>5. \A w \in Windows : WindowTried(A, w) => Room(A, w) \in all
  OBVIOUS
<1>6. \A k \in Rooms : \E w \in Windows : WindowTried(A, w) /\ k = Room(A, w)
  OBVIOUS
<1> HIDE DEF all, Rooms
<1>7. Max(all) \in all /\ \A k \in all : k <= Max(all)
  BY <1>3, <1>4, MaxOfNumbers DEF all
<1>8. pippenger_max_points(size, fs) = Max(all)
  BY <1>2 DEF all
<1>9. Max(all) \in Nat
  BY <1>3, <1>7 DEF all
<1> HIDE DEF A
<1> QED
  BY <1>4, <1>5, <1>6, <1>7, <1>8, <1>9 DEF A

\* So many points or fewer fit, whatever window is the best for them.
LEMMA PippengerFits ==
    ASSUME NEW size \in Nat, NEW fs \in Seq(FrameType), NEW count \in Nat \ {0},
           count <= pippenger_max_points(size, fs), count <= SIZE_MAX
    PROVE  /\ bucket_window(count) \in Windows
           /\ pippenger_scratch_size(count, bucket_window(count)) <= max_allocation(size, fs)
<1> DEFINE A == max_allocation(size, fs)
<1> DEFINE w == bucket_window(count)
<1> DEFINE most == pippenger_max_points(size, fs)
<1>1. A \in Nat
  BY RoomLeft
<1>2. /\ w \in Windows /\ count <= bucket_window_inv[w]
      /\ \A v \in 1 .. w - 1 : count > bucket_window_inv[v]
  BY WindowOf
<1>3. most \in Nat /\ most # 0
  BY MostPoints
<1>4. PICK best \in Windows : WindowTried(A, best) /\ most = Room(A, best)
  BY <1>3, MostPoints
<1>5. count <= most
  OBVIOUS
<1> HIDE DEF A, w, most
<1>6. best \in Nat /\ w \in Nat /\ w >= 1 /\ best >= 1
  BY <1>2 DEF Windows
<1>7. CASE w = best
  BY <1>1, <1>4, <1>5, <1>7, WithinRoom DEF A, w
<1>8. CASE w < best
  <2>1. w \in 1 .. best - 1
    BY <1>6, <1>8
  <2>2. Room(A, w) = bucket_window_inv[w]
    BY <1>4, <2>1 DEF WindowTried
  <2>3. count <= Room(A, w)
    BY <1>2, <2>2
  <2> QED
    BY <1>1, <1>2, <2>3, WithinRoom DEF A, w
<1>9. CASE best < w
  <2>1. best \in 1 .. w - 1
    BY <1>6, <1>9
  <2>2. count > bucket_window_inv[best]
    BY <1>2, <2>1
  <2>3. Room(A, best) \in 0 .. bucket_window_inv[best]
    <3>1. 1 \in Nat \ {0}
      OBVIOUS
    <3> QED
      BY <1>1, <3>1, WithinRoom
  <2>4. bucket_window_inv[best] \in Nat
    BY WindowTypes, Limits
  <2> QED
    BY <1>3, <1>4, <1>5, <2>2, <2>3, <2>4
<1> QED
  BY <1>6, <1>7, <1>8, <1>9

\* Where one point fits for Strauss, Pippenger's smallest window has room.
LEMMA NeitherOrBoth ==
    ASSUME NEW size \in Nat, NEW fs \in Seq(FrameType), strauss_max_points(size, fs) # 0
    PROVE  pippenger_max_points(size, fs) # 0
<1> DEFINE A == max_allocation(size, fs)
<1>1. A \in Nat
  BY RoomLeft
<1>2. A >= 3180
  <2>1. strauss_max_points(size, fs) = A \div 3180
    BY DEF strauss_max_points, strauss_point_size, ge_size, gej_size, fe_size, strauss_ps_size,
           scalar_size
  <2> HIDE DEF A
  <2> QED
    BY <1>1, <2>1
<1>3. Room(A, 1) # 0 /\ Room(A, 1) \in Nat
  <2>1. 2^1 = 2 /\ entry_size(1) = 648
    BY DEF entry_size, ge_size, scalar_size, pippenger_ps_size, WNAF_SIZE, int_size
  <2>2. gej_size * 2^1 + entry_size(1) + pippenger_state_size = 912
    BY <2>1 DEF gej_size, pippenger_state_size
  <2>3. bucket_window_inv[1] = 1
    BY DEF bucket_window_inv
  <2> HIDE DEF A
  <2>4. Room(A, 1) = Least((A - 912) \div 648, 1)
    BY <1>1, <1>2, <2>1, <2>2, <2>3 DEF Room
  <2> QED
    BY <1>1, <1>2, <2>4 DEF Least
<1>4. 1 \in Windows /\ WindowTried(A, 1)
  BY DEF Windows, WindowTried, PIPPENGER_MAX_BUCKET_WINDOW
<1>5. pippenger_max_points(size, fs) \in Nat /\ Room(A, 1) <= pippenger_max_points(size, fs)
  BY <1>4, MostPoints
<1> QED
  BY <1>3, <1>5

-----------------------------------------------------------------------------
(* The batches of a call                                                   *)

\* Up to where the first k batches go.
FirstBatches(total, batches, points, k) == IF k = batches THEN total ELSE k * points

Upto(k) == FirstBatches(call.n, n_batches, n_batch_points, k)

\* A batch goes on where the one before it ends, and is never empty or too large.
LEMMA BatchOf ==
    ASSUME NEW total \in Nat \ {0}, NEW batches \in Nat \ {0}, NEW points \in Nat \ {0},
           (batches - 1) * points < total, total <= batches * points,
           NEW k \in 0 .. batches - 1
    PROVE  LET upto == FirstBatches(total, batches, points, k)
               next == FirstBatches(total, batches, points, k + 1)
               size == Least(total - upto, points)
           IN  /\ total - upto \in Nat \ {0} /\ size \in Nat \ {0} /\ size <= points
               /\ points * k = upto /\ points * k + size = next
               /\ (total - upto) - size = total - next
<1> DEFINE done == k * points
<1>1. done \in Nat /\ points * k = done /\ (k + 1) * points = done + points /\ k # batches
  BY Products
<1>2. CASE k + 1 = batches
  <2>1. batches - 1 = k
    BY <1>2
  <2>2. done < total /\ total <= done + points
    BY <1>1, <1>2, <2>1
  <2> HIDE DEF done
  <2>3. total - done \in Nat \ {0} /\ Least(total - done, points) = total - done
    BY <1>1, <2>2 DEF Least
  <2>4. done + (total - done) = total /\ (total - done) - (total - done) = total - total
    BY <1>1
  <2>5. total - done <= points
    BY <1>1, <2>2
  <2> QED
    BY <1>1, <1>2, <2>3, <2>4, <2>5 DEF done, FirstBatches
<1>3. CASE k + 1 # batches
  <2>1. k + 1 \in Nat /\ batches - 1 \in Nat /\ k + 1 <= batches - 1
    BY <1>3
  <2>2. (k + 1) * points <= (batches - 1) * points /\ (batches - 1) * points \in Nat
    BY <2>1, Products
  <2>3. done + points < total
    BY <1>1, <2>2
  <2> HIDE DEF done
  <2>4. total - done \in Nat \ {0} /\ Least(total - done, points) = points
    BY <1>1, <2>3 DEF Least
  <2>5. (total - done) - points = total - (done + points)
    BY <1>1
  <2> QED
    BY <1>1, <1>3, <2>4, <2>5 DEF done, FirstBatches
<1> QED
  BY <1>2, <1>3

-----------------------------------------------------------------------------
(* The invariant                                                           *)

\* What the caller has of the space.
SpaceInv ==
    /\ outer \in Seq(FrameType)
    /\ max_size # Null => max_size \in Nat /\ Allocated(outer) <= max_size

CallInv == call \in [n : Nat, g : {0, 1}, fail : Nat]

\* The algorithm that was chosen has room for a batch.
ChoiceInv ==
    pc # "idle" =>
        /\ max_size # Null /\ f \in {"strauss", "pippenger"}
        /\ n_batch_points <= IF f = "strauss" THEN strauss_max_points(max_size, outer)
                             ELSE pippenger_max_points(max_size, outer)
        /\ n_batch_points <= ECMULT_MAX_POINTS_PER_BATCH

\* The batches hold all of the points, and none is left without any.
BatchesInv ==
    pc # "idle" =>
        /\ call.n # 0 /\ n_batches \in Nat \ {0} /\ n_batch_points \in Nat \ {0}
        /\ (n_batches - 1) * n_batch_points < call.n
        /\ call.n <= n_batches * n_batch_points
        /\ i \in 0 .. n_batches /\ n = call.n - Upto(i)

\* What the batches so far have put into the sum.
SummedInv ==
    pc # "idle" =>
        /\ summed \in [points : Seq(Nat \X Nat), g : {0, 1}]
        /\ Covered(summed.points) = Upto(i)
        /\ summed.g = IF i = 0 THEN 0 ELSE call.g

\* A batch has one frame more.
FramesInv ==
    /\ pc \in {"idle", "batches", "batch"}
    /\ IF pc = "batch"
       THEN /\ i < n_batches
            /\ \E fr \in FrameType :
                   /\ frames = Append(outer, fr) /\ fr.nulls = 0
                   /\ fr.size = Needed + OBJECTS * ALIGNMENT
       ELSE frames = outer

\* What a call that has returned says.
ResultInv ==
    pc = "idle" =>
        /\ result = "refused" => strauss_max_points(max_size, outer) = 0
        /\ result = "ok" => summed.g = call.g /\ Covered(summed.points) = call.n

Inv == SpaceInv /\ CallInv /\ ChoiceInv /\ BatchesInv /\ SummedInv /\ FramesInv /\ ResultInv

\* The batch that comes next, or is there.
LEMMA NextBatch ==
    ASSUME Inv, pc # "idle", i < n_batches
    PROVE  /\ nbp \in Nat \ {0} /\ nbp <= n_batch_points /\ n \in Nat \ {0}
           /\ offset = Upto(i) /\ offset + nbp = Upto(i + 1) /\ n - nbp = call.n - Upto(i + 1)
           /\ Upto(i) \in Nat /\ Upto(i + 1) \in Nat
<1>1. /\ call.n \in Nat \ {0} /\ n_batches \in Nat \ {0} /\ n_batch_points \in Nat \ {0}
      /\ (n_batches - 1) * n_batch_points < call.n
      /\ call.n <= n_batches * n_batch_points
      /\ i \in 0 .. n_batches - 1 /\ n = call.n - Upto(i)
  BY DEF Inv, BatchesInv, CallInv
<1>2. /\ call.n - Upto(i) \in Nat \ {0}
      /\ Least(call.n - Upto(i), n_batch_points) \in Nat \ {0}
      /\ Least(call.n - Upto(i), n_batch_points) <= n_batch_points
      /\ n_batch_points * i = Upto(i)
      /\ n_batch_points * i + Least(call.n - Upto(i), n_batch_points) = Upto(i + 1)
      /\ (call.n - Upto(i)) - Least(call.n - Upto(i), n_batch_points) = call.n - Upto(i + 1)
  <2> DEFINE total == call.n
  <2>1. /\ total \in Nat \ {0} /\ (n_batches - 1) * n_batch_points < total
        /\ total <= n_batches * n_batch_points
    BY <1>1
  <2>2. /\ Upto(i) = FirstBatches(total, n_batches, n_batch_points, i)
        /\ Upto(i + 1) = FirstBatches(total, n_batches, n_batch_points, i + 1)
    BY DEF Upto
  <2> HIDE DEF total
  <2>3. LET upto == FirstBatches(total, n_batches, n_batch_points, i)
            next == FirstBatches(total, n_batches, n_batch_points, i + 1)
            size == Least(total - upto, n_batch_points)
        IN  /\ total - upto \in Nat \ {0} /\ size \in Nat \ {0} /\ size <= n_batch_points
            /\ n_batch_points * i = upto /\ n_batch_points * i + size = next
            /\ (total - upto) - size = total - next
    BY <1>1, <2>1, BatchOf
  <2> QED
    BY <2>2, <2>3 DEF total
<1>3. n_batch_points * i \in Nat
  BY <1>1, Products
<1> QED
  BY <1>1, <1>2, <1>3 DEF nbp, offset

LEMMA BatchFits ==
    ASSUME Inv, pc # "idle", i < n_batches
    PROVE  /\ Needed \in Nat \ {0} /\ Needed <= max_allocation(max_size, outer)
           /\ Filled(Needed, Objects) \in FrameType
           /\ Filled(Needed, Objects).nulls = 0
           /\ Filled(Needed, Objects).size = Needed + OBJECTS * ALIGNMENT
<1>1. /\ max_size \in Nat /\ outer \in Seq(FrameType) /\ f \in {"strauss", "pippenger"}
      /\ n_batch_points \in Nat /\ n_batch_points <= ECMULT_MAX_POINTS_PER_BATCH
  BY DEF Inv, SpaceInv, ChoiceInv, BatchesInv
<1>2. nbp \in Nat \ {0} /\ nbp <= n_batch_points
  BY NextBatch
<1> DEFINE A == max_allocation(max_size, outer)
<1>3. A \in Nat
  BY <1>1, RoomLeft
<1>4. CASE f = "strauss"
  <2>1. n_batch_points <= A \div 3180
    BY <1>4 DEF Inv, ChoiceInv, strauss_max_points, strauss_point_size, ge_size, gej_size,
                fe_size, strauss_ps_size, scalar_size
  <2> DEFINE b1 == nbp * 124
  <2> DEFINE b2 == nbp * 32
  <2> DEFINE b3 == nbp * 8 * 124
  <2> DEFINE b4 == nbp * 8 * 40
  <2> DEFINE b5 == nbp * 8 * 84
  <2> DEFINE b6 == nbp * 1040
  <2>2. Needed = nbp * 3180
    BY <1>4 DEF Needed, strauss_point_size, ge_size, gej_size, fe_size, strauss_ps_size,
                scalar_size
  <2>3. Needed \in Nat \ {0} /\ Needed <= A
    <3> HIDE DEF A
    <3> QED
      BY <1>1, <1>2, <1>3, <2>1, <2>2
  <2>4. Objects = <<b1, b2, b3, b4, b5, b6>>
    BY <1>4 DEF Objects, strauss_objects, ge_size, gej_size, fe_size, strauss_ps_size,
                scalar_size
  <2>5. /\ b1 \in Nat /\ b2 \in Nat /\ b3 \in Nat /\ b4 \in Nat /\ b5 \in Nat /\ b6 \in Nat
        /\ b1 + b2 + b3 + b4 + b5 + b6 <= Needed
    BY <1>2, <2>2
  <2> HIDE DEF b1, b2, b3, b4, b5, b6
  <2>6. Within(b1, b2, b3, b4, b5, b6, Needed)
    BY <2>3, <2>5 DEF Within
  <2>7. LET fr == Filled(Needed, <<b1, b2, b3, b4, b5, b6>>)
        IN  fr \in FrameType /\ fr.nulls = 0 /\ fr.size = Needed + OBJECTS * ALIGNMENT
    BY ONLY <2>6, ObjectsPlaced
  <2> QED
    BY <2>3, <2>4, <2>7
<1>5. CASE f = "pippenger"
  <2> DEFINE w == bucket_window(nbp)
  <2> DEFINE e == nbp + 1
  <2> DEFINE b == gej_size * 2^w
  <2> DEFINE W == WNAF_SIZE(w + 1)
  <2>1. nbp <= pippenger_max_points(max_size, outer) /\ nbp <= SIZE_MAX
    <3>1. n_batch_points <= pippenger_max_points(max_size, outer)
      BY <1>5 DEF Inv, ChoiceInv
    <3>2. pippenger_max_points(max_size, outer) \in Nat
      BY <1>1, MostPoints
    <3> QED
      BY <1>1, <1>2, <3>1, <3>2, Limits
  <2>2. w \in Windows /\ pippenger_scratch_size(nbp, w) <= A
    BY <1>1, <1>2, <2>1, PippengerFits
  <2>3. b \in Nat /\ W \in Nat /\ e \in Nat
    <3> HIDE DEF w
    <3> QED
      BY <1>2, <2>2, WindowTypes DEF gej_size
  <2>4. Needed = pippenger_scratch_size(nbp, w)
    BY <1>5 DEF Needed
  <2>5. pippenger_scratch_size(nbp, w) = b + 16 + e * (132 + (W + 1) * 4)
    BY DEF pippenger_scratch_size, pippenger_state_size, entries, entry_size, ge_size,
           scalar_size, pippenger_ps_size, int_size
  <2> DEFINE b1 == e * 84
  <2> DEFINE b2 == e * 32
  <2> DEFINE b4 == e * 16
  <2> DEFINE b5 == e * W * 4
  <2>6. Objects = <<b1, b2, 16, b4, b5, b>>
    BY <1>5 DEF Objects, pippenger_objects, entries, ge_size, scalar_size,
                pippenger_state_size, pippenger_ps_size, int_size
  <2> HIDE DEF A, w, e, b, W
  <2>7. e * W \in Nat /\ e * (132 + (W + 1) * 4) = e * 136 + (e * W) * 4
    BY <2>3, Products
  <2>8. /\ b1 \in Nat /\ b2 \in Nat /\ b4 \in Nat /\ b5 \in Nat /\ 16 \in Nat
        /\ b1 + b2 + 16 + b4 + b5 + b <= Needed
        /\ Needed \in Nat \ {0}
    BY <2>3, <2>4, <2>5, <2>7
  <2> HIDE DEF b1, b2, b4, b5
  <2>9. Within(b1, b2, 16, b4, b5, b, Needed)
    BY <2>3, <2>8 DEF Within
  <2>10. LET fr == Filled(Needed, <<b1, b2, 16, b4, b5, b>>)
        IN  fr \in FrameType /\ fr.nulls = 0 /\ fr.size = Needed + OBJECTS * ALIGNMENT
    BY ONLY <2>9, ObjectsPlaced
  <2> QED
    BY <2>2, <2>4, <2>6, <2>8, <2>10 DEF A
<1> QED
  BY <1>1, <1>4, <1>5

\* What is put on top of a stack comes off it again.
LEMMA TopOfAppend ==
    ASSUME NEW S, NEW s \in Seq(S), NEW x \in S
    PROVE  /\ Append(s, x) \in Seq(S) /\ Front(Append(s, x)) = s /\ Last(Append(s, x)) = x
<1>1. Append(s, x) \in Seq(S) /\ Len(Append(s, x)) = Len(s) + 1
  OBVIOUS
<1>2. Front(Append(s, x)) = s
  BY <1>1 DEF Front
<1>3. Last(Append(s, x)) = x
  BY <1>1 DEF Last
<1> QED
  BY <1>1, <1>2, <1>3

LEMMA OneFrame ==
    ASSUME NEW fr \in FrameType
    PROVE  <<fr>> \in Seq(FrameType) /\ Allocated(<<fr>>) = fr.size
<1>1. 1 \in Nat /\ <<fr>> \in [1 .. 1 -> FrameType] /\ <<fr>>[1] = fr
  OBVIOUS
<1>2. PICK a : /\ a[0] = 0 /\ Allocated(<<fr>>) = a[1]
               /\ \A k \in 1 .. 1 : a[k] = a[k - 1] + <<fr>>[k].size
  BY <1>1, AllocatedSteps
<1>3. a[1] = a[1 - 1] + fr.size /\ 1 - 1 = 0 /\ fr.size \in Nat
  BY <1>1, <1>2 DEF FrameType
<1>4. a[1] = fr.size
  BY <1>2, <1>3
<1> QED
  BY <1>2, <1>4

LEMMA OneRange ==
    ASSUME NEW k \in Nat
    PROVE  Covered(<<<<0, k>>>>) = k
<1> DEFINE r == <<0, k>>
<1>1. 1 \in Nat /\ r \in Nat \X Nat /\ r[1] = 0 /\ r[2] = k
  OBVIOUS
<1> HIDE DEF r
<1>2. <<r>> \in [1 .. 1 -> Nat \X Nat] /\ <<r>>[1] = r
  BY <1>1
<1>3. PICK a : /\ a[0] = 0 /\ Covered(<<r>>) = a[1]
               /\ \A j \in 1 .. 1 : a[j] = GoesOn(<<r>>[j], a[j - 1])
  BY <1>1, <1>2, CoveredSteps
<1>4. a[1] = GoesOn(r, a[1 - 1]) /\ 1 - 1 = 0
  BY <1>2, <1>3
<1>5. a[1] = k
  BY <1>1, <1>3, <1>4 DEF GoesOn
<1> QED
  BY <1>3, <1>5 DEF r

LEMMA Ends ==
    ASSUME NEW total \in Nat, NEW batches \in Nat \ {0}, NEW points \in Nat
    PROVE  /\ FirstBatches(total, batches, points, 0) = 0
           /\ FirstBatches(total, batches, points, batches) = total
<1>1. 0 * points = 0
  OBVIOUS
<1> QED
  BY <1>1 DEF FirstBatches

-----------------------------------------------------------------------------
(* Every step keeps it                                                     *)

LEMMA InitInv ==
    ASSUME SizesAssumption, Init
    PROVE  Inv
<1>1. /\ outer = frames /\ pc = "idle" /\ call = [n |-> 0, g |-> 0, fail |-> 0]
      /\ summed = [points |-> <<>>, g |-> 0] /\ result = "ok"
  BY DEF Init
<1>2. max_size # Null => max_size \in Nat
  BY DEF Init, SizesAssumption
<1>3. SpaceInv
  <2>1. CASE frames = <<>>
    <3>1. <<>> \in Seq(FrameType)
      OBVIOUS
    <3> QED
      BY <1>1, <1>2, <2>1, <3>1, AllocatedOfNone DEF SpaceInv
  <2>2. CASE frames # <<>>
    <3>1. /\ max_size # Null
          /\ \E b \in Outers : FrameFits(max_size, <<>>, b) /\ frames = <<Frame(b)>>
      BY <2>2 DEF Init
    <3>2. PICK b \in Outers : FrameFits(max_size, <<>>, b) /\ frames = <<Frame(b)>>
      BY <3>1
    <3>3. b \in Nat \ {0}
      BY DEF SizesAssumption
    <3>4. Frame(b) \in FrameType /\ Frame(b).size = b + OBJECTS * ALIGNMENT
      BY <3>3 DEF Frame, FrameType, OBJECTS, ALIGNMENT
    <3>5. outer \in Seq(FrameType) /\ Allocated(outer) = b + OBJECTS * ALIGNMENT
      BY <1>1, <3>2, <3>4, OneFrame
    <3>6. b <= max_allocation(max_size, <<>>)
      BY <3>2 DEF FrameFits
    <3>7. <<>> \in Seq(FrameType)
      OBVIOUS
    <3>8. Allocated(<<>>) + b + OBJECTS * ALIGNMENT <= max_size
      BY <1>2, <3>1, <3>3, <3>6, <3>7, RoomLeft
    <3>9. Allocated(outer) <= max_size
      BY <3>3, <3>5, <3>8, AllocatedOfNone DEF OBJECTS, ALIGNMENT
    <3> QED
      BY <1>2, <3>5, <3>9 DEF SpaceInv
  <2> QED
    BY <2>1, <2>2
<1>4. CallInv
  BY <1>1 DEF CallInv
<1>5. ChoiceInv /\ BatchesInv /\ SummedInv /\ FramesInv
  BY <1>1 DEF ChoiceInv, BatchesInv, SummedInv, FramesInv
<1>6. ResultInv
  BY <1>1, CoveredOfNone DEF ResultInv
<1> QED
  BY <1>3, <1>4, <1>5, <1>6 DEF Inv

\* A call that returns leaves what holds without one.
LEMMA IdleInv ==
    ASSUME SpaceInv, CallInv', pc' = "idle", frames' = outer, UNCHANGED <<max_size, outer>>,
           ResultInv'
    PROVE  Inv'
<1>1. SpaceInv' /\ frames' = outer'
  BY DEF SpaceInv
<1> QED
  BY <1>1 DEF Inv, ChoiceInv, BatchesInv, SummedInv, FramesInv

LEMMA SimpleKeeps ==
    ASSUME Inv, pc = "idle", NEW c \in [n : Nat, g : {0, 1}, fail : Nat], call' = c, Simple(c),
           UNCHANGED <<max_size, frames, outer>>
    PROVE  Inv'
<1>1. pc' = "idle" /\ result' = IF c.fail < c.n THEN "callback" ELSE "ok"
  BY DEF Simple, Return
<1>2. SpaceInv /\ frames' = outer /\ CallInv'
  BY DEF Inv, FramesInv, CallInv
<1>3. c.n \in Nat /\ c.fail \in Nat /\ call'.n = c.n /\ call'.g = c.g
  OBVIOUS
<1>4. summed'.g = c.g
  BY DEF Simple
<1>5. ASSUME c.fail >= c.n
      PROVE  Covered(summed'.points) = c.n
  <2>1. CASE c.n = 0
    <3>1. summed'.points = <<>>
      BY <2>1 DEF Simple
    <3> QED
      BY <2>1, <3>1, CoveredOfNone
  <2>2. CASE c.n # 0
    <3>1. Least(c.fail, c.n) = c.n
      BY <1>3, <1>5 DEF Least
    <3>2. c.fail > 0 /\ c.n > 0
      BY <1>3, <1>5, <2>2
    <3>3. summed'.points = <<<<0, c.n>>>>
      BY <3>1, <3>2 DEF Simple
    <3> QED
      BY <1>3, <3>3, OneRange
  <2> QED
    BY <2>1, <2>2
<1>6. ResultInv'
  BY <1>1, <1>3, <1>4, <1>5 DEF ResultInv
<1> QED
  BY <1>1, <1>2, <1>6, IdleInv

LEMMA InBatchesKeeps ==
    ASSUME Inv, pc = "idle", NEW c \in [n : Nat, g : {0, 1}, fail : Nat], call' = c,
           c.n # 0, max_size # Null, UNCHANGED <<max_size, frames, outer>>,
           InBatches(c, pippenger_max_points(max_size, frames),
                     strauss_max_points(max_size, frames))
    PROVE  Inv'
<1> DEFINE pippenger == pippenger_max_points(max_size, outer)
<1> DEFINE strauss == strauss_max_points(max_size, outer)
<1> DEFINE large == pippenger > 0
                    /\ batch_size_helper(pippenger, c.n).points >= ECMULT_PIPPENGER_THRESHOLD
<1> DEFINE most == IF large THEN pippenger ELSE strauss
<1>1. SpaceInv /\ CallInv' /\ frames = outer /\ frames' = outer'
  BY DEF Inv, FramesInv, CallInv
<1>2. max_size \in Nat /\ outer \in Seq(FrameType)
  BY <1>1 DEF SpaceInv
<1>3. pippenger \in Nat
  BY <1>2, MostPoints
<1>4. strauss \in Nat
  <2>1. max_allocation(max_size, outer) \in Nat
    BY <1>2, RoomLeft
  <2> QED
    BY <2>1 DEF strauss_max_points, strauss_point_size, ge_size, gej_size, fe_size,
                strauss_ps_size, scalar_size
<1>5. /\ summed' = [points |-> <<>>, g |-> 0]
      /\ IF pippenger = 0 \/ most = 0
         THEN Return("refused")
         ELSE /\ pc' = "batches" /\ UNCHANGED result
              /\ f' = IF large THEN "pippenger" ELSE "strauss"
              /\ n_batches' = batch_size_helper(most, c.n).batches
              /\ n_batch_points' = batch_size_helper(most, c.n).points
              /\ n' = c.n /\ i' = 0
  BY <1>1 DEF InBatches
<1>6. pippenger = 0 => strauss = 0
  BY <1>2, NeitherOrBoth
<1>7. most = 0 => strauss = 0
  BY <1>3
<1>8. most \in Nat
  BY <1>3, <1>4
<1>9. \/ most = pippenger /\ large
      \/ most = strauss /\ ~large
  OBVIOUS
<1> HIDE DEF large, most
<1>10. CASE pippenger = 0 \/ most = 0
  <2>1. pc' = "idle" /\ result' = "refused"
    BY <1>5, <1>10 DEF Return
  <2>2. strauss_max_points(max_size, outer)' = 0
    BY <1>6, <1>7, <1>10
  <2>3. ResultInv'
    BY <2>1, <2>2 DEF ResultInv
  <2> QED
    BY <1>1, <2>1, <2>3, IdleInv
<1>11. CASE ~(pippenger = 0 \/ most = 0)
  <2>1. /\ pc' = "batches" /\ n' = c.n /\ i' = 0
        /\ f' = IF large THEN "pippenger" ELSE "strauss"
        /\ n_batches' = batch_size_helper(most, c.n).batches
        /\ n_batch_points' = batch_size_helper(most, c.n).points
    BY <1>5, <1>11
  <2>2. most \in Nat \ {0} /\ c.n \in Nat \ {0}
    BY <1>8, <1>11
  <2>3. /\ n_batches' \in Nat \ {0} /\ n_batch_points' \in Nat \ {0}
        /\ n_batch_points' <= most /\ n_batch_points' <= ECMULT_MAX_POINTS_PER_BATCH
        /\ (n_batches' - 1) * n_batch_points' < c.n /\ c.n <= n_batches' * n_batch_points'
    BY <2>1, <2>2, BatchSizes
  <2>4. Upto(i)' = 0
    <3>1. FirstBatches(c.n, n_batches', n_batch_points', 0) = 0
      BY <2>2, <2>3, Ends
    <3> QED
      BY <2>1, <3>1 DEF Upto
  <2>5. ChoiceInv'
    <3>1. f' \in {"strauss", "pippenger"}
      BY <2>1
    <3>2. n_batch_points' <= IF f' = "strauss" THEN strauss ELSE pippenger
      BY <1>9, <2>1, <2>3
    <3> QED
      BY <2>3, <3>1, <3>2 DEF ChoiceInv
  <2>6. BatchesInv'
    BY <2>1, <2>2, <2>3, <2>4 DEF BatchesInv
  <2>7. SummedInv'
    <3>1. <<>> \in Seq(Nat \X Nat)
      OBVIOUS
    <3>2. summed' \in [points : Seq(Nat \X Nat), g : {0, 1}]
      BY <1>5, <3>1
    <3>3. summed'.points = <<>> /\ summed'.g = 0
      BY <1>5
    <3> QED
      BY <2>1, <2>4, <3>2, <3>3, CoveredOfNone DEF SummedInv
  <2>8. SpaceInv' /\ FramesInv' /\ ResultInv'
    BY <1>1, <2>1 DEF SpaceInv, FramesInv, ResultInv
  <2> QED
    BY <1>1, <2>5, <2>6, <2>7, <2>8 DEF Inv
<1> QED
  BY <1>10, <1>11

LEMMA CallKeeps ==
    ASSUME SizesAssumption, Inv, Call
    PROVE  Inv'
<1>1. PICK c \in [n : Counts, g : {0, 1}, fail : Fails] :
          /\ call' = c
          /\ IF c.n = 0 \/ max_size = Null THEN Simple(c)
             ELSE InBatches(c, pippenger_max_points(max_size, frames),
                            strauss_max_points(max_size, frames))
  BY DEF Call
<1>2. pc = "idle" /\ UNCHANGED <<max_size, frames, outer>>
  BY DEF Call
<1>3. c \in [n : Nat, g : {0, 1}, fail : Nat]
  BY DEF SizesAssumption
<1>4. CASE c.n = 0 \/ max_size = Null
  BY <1>1, <1>2, <1>3, <1>4, SimpleKeeps
<1>5. CASE ~(c.n = 0 \/ max_size = Null)
  BY <1>1, <1>2, <1>3, <1>5, InBatchesKeeps
<1> QED
  BY <1>4, <1>5

LEMMA OpenBatchKeeps ==
    ASSUME Inv, OpenBatch
    PROVE  Inv'
<1>1. pc = "batches" /\ i < n_batches /\ UNCHANGED <<max_size, outer, call, summed>>
  BY DEF OpenBatch
<1>2. frames = outer /\ SpaceInv /\ CallInv /\ CallInv'
  BY <1>1 DEF Inv, FramesInv, CallInv
<1>3. /\ Needed \in Nat \ {0} /\ FrameFits(max_size, frames, Needed)
      /\ Filled(Needed, Objects) \in FrameType /\ Filled(Needed, Objects).nulls = 0
      /\ Filled(Needed, Objects).size = Needed + OBJECTS * ALIGNMENT
  BY <1>1, <1>2, BatchFits DEF FrameFits
<1>4. CASE /\ frames' = Append(frames, Filled(Needed, Objects))
           /\ pc' = "batch" /\ UNCHANGED <<result, f, n_batches, n_batch_points, n, i>>
  <2>1. Needed' = Needed
    BY <1>4 DEF Needed, nbp
  <2>2. FramesInv'
    BY <1>1, <1>2, <1>3, <1>4, <2>1 DEF FramesInv
  <2>3. Upto(i)' = Upto(i)
    BY <1>1, <1>4 DEF Upto
  <2>4. ChoiceInv'
    BY <1>1, <1>4 DEF Inv, ChoiceInv, strauss_max_points, pippenger_max_points
  <2>5. BatchesInv'
    BY <1>1, <1>4, <2>3 DEF Inv, BatchesInv
  <2>6. SummedInv'
    BY <1>1, <1>4, <2>3 DEF Inv, SummedInv
  <2>7. SpaceInv' /\ ResultInv'
    BY <1>1, <1>2, <1>4 DEF SpaceInv, ResultInv
  <2> QED
    BY <1>2, <2>2, <2>4, <2>5, <2>6, <2>7 DEF Inv
<1>5. CASE Return("memory") /\ UNCHANGED frames
  <2>1. ResultInv' /\ pc' = "idle"
    BY <1>5 DEF Return, ResultInv
  <2> QED
    BY <1>1, <1>2, <1>5, <2>1, IdleInv
<1> QED
  BY <1>3, <1>4, <1>5 DEF OpenBatch, Filled

LEMMA BatchFrames ==
    ASSUME Inv, pc = "batch"
    PROVE  /\ i < n_batches /\ Front(frames) = outer /\ SpaceInv
           /\ Last(frames).nulls = 0
           /\ Allocated(frames) = Allocated(outer) + Needed + OBJECTS * ALIGNMENT
<1>1. /\ i < n_batches /\ SpaceInv /\ outer \in Seq(FrameType)
      /\ \E fr \in FrameType :
             /\ frames = Append(outer, fr) /\ fr.nulls = 0
             /\ fr.size = Needed + OBJECTS * ALIGNMENT
  BY DEF Inv, FramesInv, SpaceInv
<1>2. PICK fr \in FrameType :
          /\ frames = Append(outer, fr) /\ fr.nulls = 0
          /\ fr.size = Needed + OBJECTS * ALIGNMENT
  BY <1>1
<1>3. Front(frames) = outer /\ Last(frames) = fr
  BY <1>1, <1>2, TopOfAppend
<1>4. Allocated(frames) = Allocated(outer) + fr.size
  BY <1>1, <1>2, AllocatedAppend
<1>5. Needed \in Nat /\ Allocated(outer) \in Nat
  BY <1>1, BatchFits, AllocatedType
<1>6. Allocated(frames) = Allocated(outer) + Needed + OBJECTS * ALIGNMENT
  BY <1>2, <1>4, <1>5 DEF OBJECTS, ALIGNMENT
<1> QED
  BY <1>1, <1>2, <1>3, <1>6

LEMMA CallbackFailsKeeps ==
    ASSUME Inv, CallbackFails
    PROVE  Inv'
<1>1. /\ pc = "batch" /\ frames' = Front(frames) /\ pc' = "idle" /\ result' = "callback"
      /\ UNCHANGED <<max_size, outer, call, summed>>
  BY DEF CallbackFails, Return, AfterFailure
<1>2. frames' = outer /\ SpaceInv /\ CallInv'
  BY <1>1, BatchFrames DEF Inv, CallInv
<1>3. ResultInv'
  BY <1>1 DEF ResultInv
<1> QED
  BY <1>1, <1>2, <1>3, IdleInv

LEMMA CloseBatchKeeps ==
    ASSUME Inv, CloseBatch
    PROVE  Inv'
<1>1. /\ pc = "batch" /\ pc' = "batches" /\ frames' = Front(frames)
      /\ summed' = [points |-> Append(summed.points, <<offset, offset + nbp>>),
                    g |-> summed.g + GOfBatch]
      /\ n' = n - nbp /\ i' = i + 1
      /\ UNCHANGED <<max_size, outer, call, f, n_batches, n_batch_points, result>>
  BY DEF CloseBatch
<1>2. frames' = outer /\ SpaceInv /\ CallInv /\ i < n_batches
  BY <1>1, BatchFrames DEF Inv
<1>3. /\ offset = Upto(i) /\ offset + nbp = Upto(i + 1) /\ n - nbp = call.n - Upto(i + 1)
      /\ Upto(i) \in Nat /\ Upto(i + 1) \in Nat
  BY <1>1, <1>2, NextBatch
<1>4. Upto(i)' = Upto(i + 1)
  BY <1>1 DEF Upto
<1>5. i \in 0 .. n_batches /\ n_batches \in Nat
  BY <1>1 DEF Inv, BatchesInv
<1>6. ChoiceInv'
  BY <1>1 DEF Inv, ChoiceInv, strauss_max_points, pippenger_max_points
<1>7. BatchesInv'
  <2>1. i' \in 0 .. n_batches'
    BY <1>1, <1>2, <1>5
  <2>2. n' = call'.n - Upto(i)'
    BY <1>1, <1>3, <1>4
  <2> QED
    BY <1>1, <2>1, <2>2 DEF Inv, BatchesInv
<1>8. SummedInv'
  <2> DEFINE range == <<offset, offset + nbp>>
  <2>1. /\ summed.points \in Seq(Nat \X Nat) /\ Covered(summed.points) = Upto(i)
        /\ summed.g = (IF i = 0 THEN 0 ELSE call.g) /\ call.g \in {0, 1}
    BY <1>1, <1>2 DEF Inv, SummedInv, CallInv
  <2>2. range \in Nat \X Nat /\ range[1] = Upto(i) /\ range[2] = Upto(i + 1)
    BY <1>3
  <2> HIDE DEF range
  <2>3. Covered(Append(summed.points, range)) = Upto(i + 1)
    BY <2>1, <2>2, CoveredAppend DEF GoesOn
  <2>4. summed.g + GOfBatch = call.g
    BY <2>1 DEF GOfBatch
  <2>5. Append(summed.points, range) \in Seq(Nat \X Nat)
    BY <2>1, <2>2
  <2>6. summed' = [points |-> Append(summed.points, range), g |-> call.g]
    BY <1>1, <2>4 DEF range
  <2>7. /\ summed' \in [points : Seq(Nat \X Nat), g : {0, 1}]
        /\ Covered(summed'.points) = Upto(i + 1) /\ summed'.g = call.g
    BY <2>1, <2>3, <2>5, <2>6
  <2>8. i' # 0
    BY <1>1, <1>5
  <2> QED
    BY <1>1, <1>4, <2>7, <2>8 DEF SummedInv
<1>9. SpaceInv' /\ CallInv' /\ FramesInv' /\ ResultInv'
  BY <1>1, <1>2 DEF SpaceInv, CallInv, FramesInv, ResultInv
<1> QED
  BY <1>6, <1>7, <1>8, <1>9 DEF Inv

LEMMA DoneKeeps ==
    ASSUME Inv, Done
    PROVE  Inv'
<1>1. /\ pc = "batches" /\ i = n_batches /\ pc' = "idle" /\ result' = "ok"
      /\ UNCHANGED <<max_size, frames, outer, call, summed>>
  BY DEF Done, Return
<1>2. frames' = outer /\ SpaceInv /\ CallInv /\ CallInv'
  BY <1>1 DEF Inv, FramesInv, CallInv
<1>3. /\ Covered(summed.points) = Upto(i) /\ summed.g = IF i = 0 THEN 0 ELSE call.g
      /\ n_batches \in Nat \ {0} /\ n_batch_points \in Nat
  BY <1>1 DEF Inv, SummedInv, BatchesInv
<1>4. Upto(i) = call.n
  BY <1>1, <1>2, <1>3, Ends DEF Upto, CallInv
<1>5. ResultInv'
  BY <1>1, <1>3, <1>4 DEF ResultInv
<1> QED
  BY <1>1, <1>2, <1>5, IdleInv

LEMMA StutterKeeps ==
    ASSUME Inv, UNCHANGED vars
    PROVE  Inv'
<1>1. UNCHANGED <<max_size, frames, outer, call, pc, f, n_batches, n_batch_points, n, i, summed,
                  result>>
  BY DEF vars
<1>2. Upto(i)' = Upto(i) /\ Needed' = Needed
  BY <1>1 DEF Upto, Needed, nbp
<1>3. SpaceInv' /\ CallInv' /\ ChoiceInv'
  BY <1>1 DEF Inv, SpaceInv, CallInv, ChoiceInv, strauss_max_points, pippenger_max_points
<1>4. BatchesInv' /\ SummedInv'
  BY <1>1, <1>2 DEF Inv, BatchesInv, SummedInv
<1>5. FramesInv' /\ ResultInv'
  BY <1>1, <1>2 DEF Inv, FramesInv, ResultInv, strauss_max_points
<1> QED
  BY <1>3, <1>4, <1>5 DEF Inv

-----------------------------------------------------------------------------
(* What it is for                                                          *)

LEMMA InvSays ==
    ASSUME Inv
    PROVE  SumIsWhole /\ RoomForEveryBatch /\ ObjectsHaveRoom /\ WithinMaxSize /\ FramesGivenBack
<1>1. pc # "batch" => frames = outer
  BY DEF Inv, FramesInv
<1>2. SumIsWhole
  <2>1. pc = "batches" /\ i < n_batches => n > 0
    BY NextBatch
  <2> QED
    BY <2>1 DEF SumIsWhole, Inv, ResultInv
<1>3. RoomForEveryBatch
  <2>1. pc = "batches" /\ i < n_batches => FrameFits(max_size, frames, Needed)
    BY <1>1, BatchFits DEF FrameFits
  <2>2. pc = "idle" /\ result = "refused" => strauss_max_points(max_size, frames) = 0
    BY <1>1 DEF Inv, ResultInv
  <2> QED
    BY <2>1, <2>2 DEF RoomForEveryBatch
<1>4. ObjectsHaveRoom
  <2>1. ASSUME pc = "batch"
        PROVE  Last(frames).nulls = 0 /\ nbp + GOfBatch <= entries(nbp)
    <3>1. i < n_batches /\ Last(frames).nulls = 0
      BY <2>1, BatchFrames
    <3>2. nbp \in Nat
      BY <2>1, <3>1, NextBatch
    <3>3. call.g \in {0, 1}
      BY DEF Inv, CallInv
    <3> QED
      BY <3>1, <3>2, <3>3 DEF GOfBatch, entries
  <2> QED
    BY <2>1 DEF ObjectsHaveRoom
<1>5. WithinMaxSize
  <2>1. CASE pc = "batch"
    <3>1. /\ i < n_batches /\ SpaceInv
          /\ Allocated(frames) = Allocated(outer) + Needed + OBJECTS * ALIGNMENT
      BY <2>1, BatchFrames
    <3>2. max_size # Null
      BY <2>1 DEF Inv, ChoiceInv
    <3>3. Needed \in Nat \ {0} /\ Needed <= max_allocation(max_size, outer)
      BY <2>1, <3>1, BatchFits
    <3>4. Allocated(outer) + Needed + OBJECTS * ALIGNMENT <= max_size
      BY <3>1, <3>2, <3>3, RoomLeft DEF SpaceInv
    <3> QED
      BY <3>1, <3>4 DEF WithinMaxSize
  <2>2. CASE pc # "batch"
    BY <1>1, <2>2 DEF WithinMaxSize, Inv, SpaceInv
  <2> QED
    BY <2>1, <2>2
<1>6. FramesGivenBack
  BY <1>1 DEF FramesGivenBack
<1> QED
  BY <1>2, <1>3, <1>4, <1>5, <1>6

\* However many points there are and however large the space, every point is in the sum
\* once, and G if asked for; every batch fits with all of its objects, no call is refused
\* when one point fits, and a call that fails gives back its frames, which never exceed
\* the space (ecmult_impl.h:994, :1012, :1048, :1168, secp256k1.h:270).
THEOREM BatchesFitTheSpace ==
    ASSUME SizesAssumption
    PROVE  Spec => [](SumIsWhole /\ RoomForEveryBatch /\ ObjectsHaveRoom /\ WithinMaxSize
                      /\ FramesGivenBack)
<1>1. Init => Inv
  BY InitInv
<1>2. Inv /\ [Next]_vars => Inv'
  <2>1. ASSUME Inv, Next
        PROVE  Inv'
    BY <2>1, CallKeeps, OpenBatchKeeps, CallbackFailsKeeps, CloseBatchKeeps, DoneKeeps DEF Next
  <2> QED
    BY <2>1, StutterKeeps
<1>3. Inv => SumIsWhole /\ RoomForEveryBatch /\ ObjectsHaveRoom /\ WithinMaxSize /\ FramesGivenBack
  BY InvSays
<1> QED
  BY <1>1, <1>2, <1>3, PTL DEF Spec

B == AES_BLOCKSIZE

-----------------------------------------------------------------------------
(* Counting up, and dividing by the size of a block                        *)

LEMMA DivMod ==
    ASSUME NEW t \in Nat, NEW k \in Nat, NEW d \in Nat \ {0}, NEW c \in 0 .. d - 1, t = k * d + c
    PROVE  t \div d = k /\ t % d = c
  OBVIOUS

\* Where the byte m of a sequence of blocks is.
Which(m) == (m - 1) \div B + 1
Where(m) == ((m - 1) % B) + 1

LEMMA PlaceOf ==
    ASSUME SizeAssumption, NEW t \in Nat \ {0}, NEW k \in 1 .. B
    PROVE  /\ (t - 1) * B + k \in 1 .. t * B
           /\ Which((t - 1) * B + k) = t /\ Where((t - 1) * B + k) = k
<1>1. B \in Nat \ {0} /\ (t - 1) * B \in Nat /\ t * B = (t - 1) * B + B
  BY DEF SizeAssumption, B
<1> DEFINE m == (t - 1) * B + k
<1>2. m \in 1 .. t * B
  BY <1>1
<1>3. m - 1 \in Nat /\ m - 1 = (t - 1) * B + (k - 1) /\ k - 1 \in 0 .. B - 1 /\ t - 1 \in Nat
  BY <1>1
<1> HIDE DEF m
<1>4. (m - 1) \div B = t - 1 /\ (m - 1) % B = k - 1
  BY <1>1, <1>3, DivMod
<1> QED
  BY <1>2, <1>4 DEF Which, Where, m

LEMMA PlacesOf ==
    ASSUME SizeAssumption, NEW N \in Nat, NEW m \in 1 .. N * B
    PROVE  Which(m) \in 1 .. N /\ Where(m) \in 1 .. B /\ m = (Which(m) - 1) * B + Where(m)
<1>1. B \in Nat \ {0} /\ m - 1 \in Nat /\ N * B \in Nat
  BY DEF SizeAssumption, B
<1> DEFINE q == (m - 1) \div B
<1> DEFINE r == (m - 1) % B
<1>2. q \in Nat /\ r \in 0 .. B - 1 /\ m - 1 = q * B + r
  BY <1>1, DivExact
<1> HIDE DEF q, r
<1>3. q * B < N * B
  BY <1>1, <1>2
<1>4. q < N
  BY <1>1, <1>2, <1>3
<1>5. Which(m) = q + 1 /\ Where(m) = r + 1
  BY DEF Which, Where, q, r
<1> QED
  BY <1>1, <1>2, <1>4, <1>5

-----------------------------------------------------------------------------
(* Functions and sequences                                                 *)

LEMMA SameSequence ==
    ASSUME NEW t \in Nat, NEW S, NEW u \in [1 .. t -> S], NEW g \in [1 .. t -> S],
           \A x \in 1 .. t : u[x] = g[x]
    PROVE  u = g
  OBVIOUS

LEMMA Concatenated ==
    ASSUME NEW S, NEW a \in Nat, NEW b \in Nat, NEW u \in [1 .. a -> S], NEW g \in [1 .. b -> S]
    PROVE  /\ u \o g \in [1 .. a + b -> S]
           /\ \A m \in 1 .. a : (u \o g)[m] = u[m]
           /\ \A k \in 1 .. b : (u \o g)[a + k] = g[k]
<1>1. u \in Seq(S) /\ Len(u) = a /\ g \in Seq(S) /\ Len(g) = b
  OBVIOUS
<1>2. u \o g \in Seq(S) /\ Len(u \o g) = a + b
  BY <1>1
<1>3. \A m \in 1 .. a + b : (u \o g)[m] = IF m <= a THEN u[m] ELSE g[m - a]
  BY <1>1
<1>4. u \o g \in [1 .. a + b -> S]
  BY <1>2, LenProperties
<1>5. \A k \in 1 .. b : a + k \in 1 .. a + b /\ ~(a + k <= a) /\ (a + k) - a = k
  OBVIOUS
<1>6. \A m \in 1 .. a : m \in 1 .. a + b /\ m <= a
  OBVIOUS
<1> QED
  BY <1>3, <1>4, <1>5, <1>6

-----------------------------------------------------------------------------
(* Blocks, one behind the other                                            *)

Joined(bs, N) == [m \in 1 .. N * B |-> bs[Which(m)][Where(m)]]

Cut(s, N) == [t \in 1 .. N |-> BlockOf(s, t)]

LEMMA JoinedTypes ==
    ASSUME SizeAssumption, NEW N \in Nat, NEW bs \in [1 .. N -> Block]
    PROVE  /\ Joined(bs, N) \in [1 .. N * B -> Byte]
           /\ \A t \in 1 .. N, k \in 1 .. B :
                /\ (t - 1) * B + k \in 1 .. N * B
                /\ Joined(bs, N)[(t - 1) * B + k] = bs[t][k]
<1>0. B \in Nat \ {0}
  BY DEF SizeAssumption, B
<1>1. ASSUME NEW m \in 1 .. N * B
      PROVE  bs[Which(m)][Where(m)] \in Byte
  BY PlacesOf DEF Block, B
<1>2. ASSUME NEW t \in 1 .. N, NEW k \in 1 .. B
      PROVE  /\ (t - 1) * B + k \in 1 .. N * B
             /\ Which((t - 1) * B + k) = t /\ Where((t - 1) * B + k) = k
  <2>1. /\ (t - 1) * B + k \in 1 .. t * B
        /\ Which((t - 1) * B + k) = t /\ Where((t - 1) * B + k) = k
    <3>1. t \in Nat \ {0}
      OBVIOUS
    <3> QED
      BY <3>1, PlaceOf
  <2>2. t * B <= N * B /\ t * B \in Nat /\ N * B \in Nat
    BY <1>0, TimesGrows
  <2> QED
    BY <2>1, <2>2
<1> QED
  BY <1>1, <1>2 DEF Joined

\* A sequence is its blocks, and what is joined can be cut again.
LEMMA BlockTypes ==
    ASSUME SizeAssumption, NEW N \in Nat, NEW s \in [1 .. N * B -> Byte], NEW t \in 1 .. N
    PROVE  /\ BlockOf(s, t) \in Block
           /\ \A k \in 1 .. B : BlockOf(s, t)[k] = s[(t - 1) * B + k]
<1>0. B \in Nat \ {0} /\ (t - 1) * B \in Nat /\ t * B \in Nat /\ N * B \in Nat
  BY DEF SizeAssumption, B
<1>1. t * B = (t - 1) * B + B /\ t * B <= N * B
  BY <1>0, TimesGrows
<1>2. s \in Seq(Byte) /\ Len(s) = N * B
  BY <1>0
<1>3. BlockOf(s, t) = SubSeq(s, (t - 1) * B + 1, (t - 1) * B + B)
  BY <1>1 DEF BlockOf, B
<1> DEFINE a == (t - 1) * B
<1>4. a \in Nat /\ a + B <= Len(s)
  BY <1>0, <1>1, <1>2
<1> HIDE DEF a
<1>5. SubSeq(s, a + 1, a + B) = [k \in 1 .. B |-> s[a + k]]
  BY <1>0, <1>2, <1>4
<1>6. \A k \in 1 .. B : s[a + k] \in Byte
  BY <1>0, <1>2, <1>4
<1> QED
  BY <1>3, <1>5, <1>6 DEF a, Block, B

LEMMA JoinedCut ==
    ASSUME SizeAssumption, NEW N \in Nat, NEW s \in [1 .. N * B -> Byte]
    PROVE  Cut(s, N) \in [1 .. N -> Block] /\ Joined(Cut(s, N), N) = s
<1>1. \A t \in 1 .. N : Cut(s, N)[t] = BlockOf(s, t)
  BY DEF Cut
<1>2. Cut(s, N) \in [1 .. N -> Block]
  BY BlockTypes DEF Cut
<1>3. ASSUME NEW m \in 1 .. N * B
      PROVE  Joined(Cut(s, N), N)[m] = s[m]
  <2>1. Which(m) \in 1 .. N /\ Where(m) \in 1 .. B /\ m = (Which(m) - 1) * B + Where(m)
    BY PlacesOf
  <2>2. Joined(Cut(s, N), N)[m] = BlockOf(s, Which(m))[Where(m)]
    BY <1>1, <2>1 DEF Joined
  <2> QED
    BY <2>1, <2>2, BlockTypes
<1>4. Joined(Cut(s, N), N) \in [1 .. N * B -> Byte]
  BY <1>2, JoinedTypes
<1>5. Joined(Cut(s, N), N) = s
  <2>1. N * B \in Nat
    BY DEF SizeAssumption, B
  <2>2. \A m \in 1 .. N * B : Joined(Cut(s, N), N)[m] = s[m]
    BY <1>3
  <2> QED
    BY <1>4, <2>1, <2>2, SameSequence
<1> QED
  BY <1>2, <1>5

LEMMA CutJoined ==
    ASSUME SizeAssumption, NEW N \in Nat, NEW bs \in [1 .. N -> Block], NEW t \in 1 .. N
    PROVE  BlockOf(Joined(bs, N), t) = bs[t]
<1>1. Joined(bs, N) \in [1 .. N * B -> Byte]
  BY JoinedTypes
<1>2. BlockOf(Joined(bs, N), t) \in Block
  BY <1>1, BlockTypes
<1>3. \A k \in 1 .. B : BlockOf(Joined(bs, N), t)[k] = bs[t][k]
  BY <1>1, BlockTypes, JoinedTypes
<1>4. bs[t] \in Block
  OBVIOUS
<1> QED
  BY <1>2, <1>3, <1>4, SameSequence DEF SizeAssumption, Block, B

\* One block more.
LEMMA JoinedOne ==
    ASSUME SizeAssumption, NEW N \in Nat, NEW bs \in [1 .. N -> Block], NEW v \in 1 .. N
    PROVE  Joined(bs, v) = IF v = 1 THEN bs[1] ELSE Joined(bs, v - 1) \o bs[v]
<1>0. B \in Nat \ {0}
  BY DEF SizeAssumption, B
<1>1. ASSUME NEW j \in 0 .. N
      PROVE  /\ Joined(bs, j) \in [1 .. j * B -> Byte]
             /\ \A t \in 1 .. j, k \in 1 .. B :
                    (t - 1) * B + k \in 1 .. j * B /\ Joined(bs, j)[(t - 1) * B + k] = bs[t][k]
  <2> DEFINE cs == [t \in 1 .. j |-> bs[t]]
  <2>1. cs \in [1 .. j -> Block] /\ \A t \in 1 .. j : cs[t] = bs[t]
    OBVIOUS
  <2>2. Joined(bs, j) = Joined(cs, j)
    BY <2>1, PlacesOf DEF Joined
  <2> HIDE DEF cs
  <2>3. j \in Nat
    OBVIOUS
  <2>4. /\ Joined(cs, j) \in [1 .. j * B -> Byte]
        /\ \A t \in 1 .. j, k \in 1 .. B :
               (t - 1) * B + k \in 1 .. j * B /\ Joined(cs, j)[(t - 1) * B + k] = cs[t][k]
    BY <2>1, <2>3, JoinedTypes
  <2> QED
    BY <2>1, <2>2, <2>4
<1>2. bs[v] \in [1 .. B -> Byte]
  BY DEF Block, B
<1>3. CASE v = 1
  <2>1. Joined(bs, 1) \in [1 .. B -> Byte]
    BY <1>0, <1>1, <1>3
  <2>2. \A k \in 1 .. B : Joined(bs, 1)[k] = bs[1][k]
    BY <1>0, <1>1, <1>3
  <2>3. Joined(bs, 1) = bs[1]
    BY <1>0, <1>2, <1>3, <2>1, <2>2, SameSequence
  <2> QED
    BY <1>3, <2>3
<1>4. CASE v # 1
  <2> DEFINE u == Joined(bs, v - 1)
  <2> DEFINE h == bs[v]
  <2> DEFINE g == u \o h
  <2> DEFINE a == (v - 1) * B
  <2>1. a \in Nat /\ v * B = a + B
    BY <1>0
  <2>2. u \in [1 .. a -> Byte]
    BY <1>1, <1>4
  <2>3. Joined(bs, v) \in [1 .. a + B -> Byte]
    BY <1>1, <2>1
  <2>4. h \in [1 .. B -> Byte]
    BY <1>2
  <2> HIDE DEF a, u, h
  <2>5. /\ g \in [1 .. a + B -> Byte]
        /\ \A m \in 1 .. a : g[m] = u[m]
        /\ \A k \in 1 .. B : g[a + k] = h[k]
    <3>1. B \in Nat
      BY <1>0
    <3>2. u \o h \in [1 .. a + B -> Byte]
      BY ONLY <2>1, <2>2, <2>4, <3>1, Concatenated
    <3>3. \A m \in 1 .. a : (u \o h)[m] = u[m]
      BY ONLY <2>1, <2>2, <2>4, <3>1, Concatenated
    <3>4. \A k \in 1 .. B : (u \o h)[a + k] = h[k]
      BY ONLY <2>1, <2>2, <2>4, <3>1, Concatenated
    <3> QED
      BY <3>2, <3>3, <3>4
  <2> HIDE DEF g
  <2>6. ASSUME NEW m \in 1 .. a
        PROVE  Joined(bs, v)[m] = g[m]
    <3>0. m \in 1 .. (v - 1) * B
      BY DEF a
    <3>1. Which(m) \in 1 .. v - 1 /\ Where(m) \in 1 .. B /\ m = (Which(m) - 1) * B + Where(m)
      BY <1>4, <3>0, PlacesOf
    <3>2. Joined(bs, v)[m] = bs[Which(m)][Where(m)]
      BY <1>1, <3>1
    <3>3. u[m] = bs[Which(m)][Where(m)]
      BY <1>1, <1>4, <3>1 DEF u
    <3> QED
      BY <2>5, <3>2, <3>3
  <2>7. ASSUME NEW k \in 1 .. B
        PROVE  Joined(bs, v)[a + k] = g[a + k]
    BY <1>1, <2>5 DEF a, h
  <2>8. ASSUME NEW m \in 1 .. a + B
        PROVE  Joined(bs, v)[m] = g[m]
    <3>1. CASE m <= a
      BY <2>1, <2>6, <3>1
    <3>2. CASE m > a
      <4>1. m - a \in 1 .. B /\ m = a + (m - a)
        BY <1>0, <2>1, <3>2
      <4> QED
        BY <2>7, <4>1
    <3> QED
      BY <2>1, <3>1, <3>2
  <2>9. Joined(bs, v) = g
    BY <1>0, <2>1, <2>3, <2>5, <2>8, SameSequence
  <2> QED
    BY <1>4, <2>9 DEF u, g, h
<1> QED
  BY <1>3, <1>4

LEMMA FlattenJoins ==
    ASSUME SizeAssumption, NEW N \in Nat \ {0}, NEW bs \in [1 .. N -> Block]
    PROVE  FlattenSeq(bs) = Joined(bs, N)
<1> DEFINE IsFlat(u) == u = [v \in 1 .. N |-> IF v = 1 THEN bs[v] ELSE u[v - 1] \o bs[v]]
<1> DEFINE g == CHOOSE u : IsFlat(u)
<1>1. bs \in Seq(Block) /\ Len(bs) = N
  OBVIOUS
<1>2. FlattenSeq(bs) = g[N]
  BY <1>1 DEF FlattenSeq
<1>3. IsFlat([v \in 1 .. N |-> Joined(bs, v)])
  <2>1. \A v \in 1 .. N : Joined(bs, v) = IF v = 1 THEN bs[v] ELSE Joined(bs, v - 1) \o bs[v]
    BY JoinedOne
  <2> QED
    BY <2>1
<1>4. IsFlat(g)
  BY <1>3
<1> HIDE DEF g
<1> DEFINE T == {t \in Nat : t + 1 \in 1 .. N => g[t + 1] = Joined(bs, t + 1)}
<1>5. 0 \in T
  <2>1. 1 \in 1 .. N => g[1] = Joined(bs, 1)
    BY <1>4, JoinedOne
  <2> QED
    BY <2>1
<1>6. ASSUME NEW t \in Nat, t \in T
      PROVE  t + 1 \in T
  <2>1. ASSUME (t + 1) + 1 \in 1 .. N
        PROVE  g[(t + 1) + 1] = Joined(bs, (t + 1) + 1)
    <3>1. t + 1 \in 1 .. N /\ ((t + 1) + 1) - 1 = t + 1 /\ (t + 1) + 1 # 1
      BY <2>1
    <3>2. g[(t + 1) + 1] = g[t + 1] \o bs[(t + 1) + 1]
      BY <1>4, <2>1, <3>1
    <3>3. g[t + 1] = Joined(bs, t + 1)
      BY <1>6, <3>1
    <3>4. Joined(bs, (t + 1) + 1) = Joined(bs, t + 1) \o bs[(t + 1) + 1]
      BY <2>1, <3>1, JoinedOne
    <3> QED
      BY <3>2, <3>3, <3>4
  <2> QED
    BY <2>1
<1> HIDE DEF T
<1>7. N - 1 \in Nat /\ N - 1 \in T /\ (N - 1) + 1 = N
  BY <1>5, <1>6, CountingUp
<1> QED
  BY <1>2, <1>7 DEF T

-----------------------------------------------------------------------------
(* A block cipher that can be undone is one that can be done again: there  *)
(* are finitely many blocks, so what is decrypted encrypts to what it was. *)

LEMMA FiniteBlocks ==
    ASSUME SizeAssumption
    PROVE  IsFiniteSet(Block)
<1>1. IsFiniteSet(Byte)
  <2>1. 0 \in Int /\ 2^ByteBits - 1 \in Int
    BY DEF SizeAssumption
  <2> QED
    BY <2>1, FS_Interval DEF Byte
<1>2. IsFiniteSet(1 .. B)
  <2>1. 1 \in Int /\ B \in Int
    BY DEF SizeAssumption, B
  <2> QED
    BY <2>1, FS_Interval
<1>3. IsFiniteSet(SUBSET ((1 .. B) \X Byte))
  <2>1. IsFiniteSet((1 .. B) \X Byte)
    BY <1>1, <1>2, FS_Product
  <2> QED
    BY <2>1, FS_SUBSET
<1> DEFINE Graph(b) == {<<k, b[k]>> : k \in 1 .. B}
<1> DEFINE u == [b \in Block |-> Graph(b)]
<1>4. u \in [Block -> SUBSET ((1 .. B) \X Byte)]
  <2>1. ASSUME NEW b \in Block
        PROVE  Graph(b) \in SUBSET ((1 .. B) \X Byte)
    <3>1. \A k \in 1 .. B : b[k] \in Byte
      BY DEF Block, B
    <3> QED
      BY <3>1
  <2> HIDE DEF Graph
  <2> QED
    BY <2>1
<1>5. ASSUME NEW a \in Block, NEW b \in Block, u[a] = u[b]
      PROVE  a = b
  <2>1. Graph(a) = Graph(b)
    BY <1>5
  <2>2. ASSUME NEW k \in 1 .. B
        PROVE  a[k] = b[k]
    <3>1. <<k, a[k]>> \in Graph(b)
      BY <2>1
    <3> QED
      BY <3>1
  <2>3. B \in Nat
    BY DEF SizeAssumption, B
  <2>4. a \in [1 .. B -> Byte] /\ b \in [1 .. B -> Byte]
    BY DEF Block, B
  <2> QED
    BY ONLY <2>2, <2>3, <2>4, SameSequence
<1> HIDE DEF u
<1>6. u \in Injection(Block, SUBSET ((1 .. B) \X Byte))
  <2>1. DOMAIN u = Block
    BY <1>4
  <2> QED
    BY <1>4, <1>5, <2>1 DEF Injection, IsInjective
<1> QED
  BY <1>3, <1>6, FS_Injection

LEMMA CipherOnto ==
    ASSUME SizeAssumption, CipherAssumption, NEW b \in Block
    PROVE  DecryptBlock(b) \in Block /\ EncryptBlock(DecryptBlock(b)) = b
<1> DEFINE u == [a \in Block |-> EncryptBlock(a)]
<1>1. u \in [Block -> Block]
  BY DEF CipherAssumption
<1>2. ASSUME NEW a \in Block, NEW c \in Block, u[a] = u[c]
      PROVE  a = c
  BY <1>2 DEF CipherAssumption
<1>3. \A a \in Block : u[a] = EncryptBlock(a)
  OBVIOUS
<1> HIDE DEF u
<1>4. u \in Injection(Block, Block)
  BY <1>1, <1>2 DEF Injection, IsInjective
<1>5. u \in Surjection(Block, Block)
  BY <1>4, FiniteBlocks, FS_Injection
<1>6. PICK a \in Block : u[a] = b
  BY <1>5 DEF Surjection
<1> QED
  BY <1>3, <1>6 DEF CipherAssumption

LEMMA XorBlocks ==
    ASSUME SizeAssumption, XorAssumption, NEW a \in Block, NEW b \in Block
    PROVE  /\ XorBlock(a, b) \in Block
           /\ XorBlock(XorBlock(a, b), b) = a
           /\ XorBlock(a, XorBlock(b, a)) = b
<1>0. B \in Nat
  BY DEF SizeAssumption, B
<1>1. \A x, y \in Block : XorBlock(x, y) \in [1 .. B -> Byte]
  BY DEF XorAssumption, XorBlock, Block, B
<1>2. \A x, y \in Block, k \in 1 .. B : XorBlock(x, y)[k] = XorByte(x[k], y[k])
  BY DEF XorBlock, B
<1>3. \A x, y \in Block : XorBlock(x, y) \in Block
  BY <1>1 DEF Block, B
<1>4. \A x \in Block, k \in 1 .. B : x[k] \in Byte
  BY DEF Block, B
<1>5. a \in [1 .. B -> Byte] /\ b \in [1 .. B -> Byte]
  BY DEF Block, B
<1>6. XorBlock(XorBlock(a, b), b) = a
  <2>1. \A k \in 1 .. B : XorBlock(XorBlock(a, b), b)[k] = a[k]
    <3>1. \A k \in 1 .. B : XorBlock(XorBlock(a, b), b)[k] = XorByte(XorByte(a[k], b[k]), b[k])
      BY <1>2, <1>3
    <3>2. \A x, y \in Byte : XorByte(XorByte(x, y), y) = x
      BY DEF XorAssumption
    <3> QED
      BY <1>4, <3>1, <3>2
  <2>2. XorBlock(XorBlock(a, b), b) \in [1 .. B -> Byte]
    BY <1>1, <1>3
  <2> QED
    BY ONLY <1>0, <1>5, <2>1, <2>2, SameSequence
<1>7. XorBlock(a, XorBlock(b, a)) = b
  <2>1. \A k \in 1 .. B : XorBlock(a, XorBlock(b, a))[k] = b[k]
    <3>1. \A k \in 1 .. B : XorBlock(a, XorBlock(b, a))[k] = XorByte(a[k], XorByte(b[k], a[k]))
      BY <1>2, <1>3
    <3>2. \A x, y \in Byte : XorByte(x, XorByte(y, x)) = y
      BY DEF XorAssumption
    <3> QED
      BY <1>4, <3>1, <3>2
  <2>2. XorBlock(a, XorBlock(b, a)) \in [1 .. B -> Byte]
    BY <1>1, <1>3
  <2> QED
    BY ONLY <1>0, <1>5, <2>1, <2>2, SameSequence
<1> QED
  BY <1>3, <1>6, <1>7

-----------------------------------------------------------------------------
(* The padding                                                             *)

LEMMA PaddedTypes ==
    ASSUME SizeAssumption, NEW L \in Nat, NEW data \in [1 .. L -> Byte],
           NEW N, N = L \div B + 1, NEW p, p = B - (L % B)
    PROVE  /\ N \in Nat \ {0} /\ p \in 1 .. B /\ L + p = N * B
           /\ Padded(data) \in [1 .. L + p -> Byte]
           /\ \A m \in 1 .. L : Padded(data)[m] = data[m]
           /\ \A k \in 1 .. p : Padded(data)[L + k] = p
<1>1. B \in Nat \ {0} /\ 2^ByteBits - 1 \in Int /\ B <= 2^ByteBits - 1
  BY DEF SizeAssumption, B
<1>2. L \div B \in Nat /\ L % B \in 0 .. B - 1 /\ L = (L \div B) * B + (L % B)
  BY <1>1, DivExact
<1> DEFINE q == L \div B
<1> DEFINE r == L % B
<1>3. q \in Nat /\ r \in 0 .. B - 1 /\ L = q * B + r /\ N = q + 1 /\ p = B - r
  BY <1>2
<1> HIDE DEF q, r
<1>4. N \in Nat \ {0} /\ p \in 1 .. B
  BY <1>1, <1>3
<1>5. L + p = N * B
  <2>1. N * B = q * B + B /\ q * B \in Nat
    BY <1>1, <1>3
  <2> QED
    BY <1>1, <1>3, <2>1
<1>6. p \in Byte
  BY <1>1, <1>4 DEF Byte
<1> DEFINE z == [k \in 1 .. p |-> p]
<1>7. p \in Nat /\ z \in [1 .. p -> Byte] /\ \A k \in 1 .. p : z[k] = p
  BY <1>4, <1>6
<1>8. Padded(data) = data \o z
  <2>1. Len(data) = L
    OBVIOUS
  <2> QED
    BY <2>1 DEF Padded, B
<1> HIDE DEF z
<1>9. data \o z \in [1 .. L + p -> Byte]
  BY ONLY <1>7, Concatenated, L \in Nat, data \in [1 .. L -> Byte]
<1>10. \A m \in 1 .. L : (data \o z)[m] = data[m]
  BY ONLY <1>7, Concatenated, L \in Nat, data \in [1 .. L -> Byte]
<1>11. \A k \in 1 .. p : (data \o z)[L + k] = z[k]
  BY ONLY <1>7, Concatenated, L \in Nat, data \in [1 .. L -> Byte]
<1> QED
  BY <1>4, <1>5, <1>7, <1>8, <1>9, <1>10, <1>11

-----------------------------------------------------------------------------
(* Each block is mixed with the one before it                              *)

Chained(ms, ps, N) ==
    ms = [t \in 0 .. N |-> IF t = 0 THEN iv ELSE EncryptBlock(XorBlock(ms[t - 1], BlockOf(ps, t)))]

ChainOf(ps, N) == FlattenSeq([t \in 1 .. N |-> (CHOOSE ms : Chained(ms, ps, N))[t]])

\* There is such a chain, of any length.
LEMMA ChainExists ==
    ASSUME SizeAssumption, XorAssumption, CipherAssumption,
           NEW N \in Nat, NEW ps, \A t \in 1 .. N : BlockOf(ps, t) \in Block
    PROVE  \E ms \in [0 .. N -> Block] : Chained(ms, ps, N)
<1> DEFINE next(b, t) == EncryptBlock(XorBlock(b, BlockOf(ps, t)))
<1>1. \A b \in Block, t \in 1 .. N : next(b, t) \in Block
  BY XorBlocks DEF CipherAssumption
<1>2. iv \in Block
  BY DEF SizeAssumption
<1> HIDE DEF next
<1> DEFINE P(m, u) == u[0] = iv /\ \A t \in 1 .. m : u[t] = next(u[t - 1], t)
<1> DEFINE T == {m \in Nat : m <= N => \E u \in [0 .. m -> Block] : P(m, u)}
<1>3. 0 \in T
  <2> DEFINE u == [t \in 0 .. 0 |-> iv]
  <2>1. u \in [0 .. 0 -> Block] /\ P(0, u)
    BY <1>2
  <2> HIDE DEF u, P
  <2>2. 0 <= N => \E g \in [0 .. 0 -> Block] : P(0, g)
    BY <2>1
  <2> QED
    BY <2>2
<1>4. ASSUME NEW m \in Nat, m \in T
      PROVE  m + 1 \in T
  <2>1. ASSUME m + 1 <= N
        PROVE  \E u \in [0 .. m + 1 -> Block] : P(m + 1, u)
    <3>1. m <= N /\ m + 1 \in 1 .. N
      BY <2>1
    <3>2. PICK g \in [0 .. m -> Block] : P(m, g)
      BY <1>4, <3>1
    <3> DEFINE u == [t \in 0 .. m + 1 |-> IF t = m + 1 THEN next(g[m], m + 1) ELSE g[t]]
    <3>3. g[m] \in Block
      BY <3>2
    <3>4. next(g[m], m + 1) \in Block
      BY <1>1, <3>1, <3>3
    <3>5. u \in [0 .. m + 1 -> Block]
      BY <3>2, <3>4
    <3>6. u[0] = iv
      BY <3>2
    <3>7. ASSUME NEW t \in 1 .. m + 1
          PROVE  u[t] = next(u[t - 1], t)
      <4>1. CASE t = m + 1
        <5>1. u[t] = next(g[m], m + 1)
          BY <4>1
        <5>2. t - 1 = m /\ t - 1 \in 0 .. m + 1 /\ t - 1 # m + 1
          BY <4>1
        <5>3. u[t - 1] = g[m]
          BY <5>2
        <5> QED
          BY <4>1, <5>1, <5>3
      <4>2. CASE t # m + 1
        <5>1. t \in 1 .. m /\ t - 1 \in 0 .. m + 1 /\ t - 1 # m + 1 /\ t \in 0 .. m + 1
          BY <4>2
        <5>2. u[t] = g[t] /\ u[t - 1] = g[t - 1]
          BY <4>2, <5>1
        <5> QED
          BY <3>2, <5>1, <5>2
      <4> QED
        BY <4>1, <4>2
    <3> HIDE DEF u
    <3> QED
      BY <3>5, <3>6, <3>7
  <2> QED
    BY <2>1
<1> HIDE DEF T
<1>5. N \in T
  BY <1>3, <1>4, CountingUp
<1>6. PICK u \in [0 .. N -> Block] : P(N, u)
  BY <1>5 DEF T
<1>7. u = [t \in 0 .. N |-> IF t = 0 THEN iv ELSE next(u[t - 1], t)]
  <2>1. \A t \in 0 .. N : u[t] = IF t = 0 THEN iv ELSE next(u[t - 1], t)
    BY <1>6
  <2>2. u = [t \in 0 .. N |-> u[t]]
    OBVIOUS
  <2> HIDE DEF P
  <2> QED
    BY <2>1, <2>2
<1> QED
  BY <1>7 DEF Chained, next

\* What CBCEncrypt makes of something.
LEMMA EncryptIs ==
    ASSUME SizeAssumption, XorAssumption, CipherAssumption,
           NEW L \in Nat \ {0}, NEW data \in [1 .. L -> Byte],
           NEW N, N = L \div B + 1
    PROVE  \E ms \in [0 .. N -> Block] :
              /\ ms[0] = iv
              /\ \A t \in 1 .. N : ms[t] = EncryptBlock(XorBlock(ms[t - 1], BlockOf(Padded(data), t)))
              /\ CBCEncrypt(data) = Joined([t \in 1 .. N |-> ms[t]], N)
<1> DEFINE ps == Padded(data)
<1> DEFINE p == B - (L % B)
<1>1. N \in Nat \ {0} /\ p \in 1 .. B /\ L + p = N * B /\ ps \in [1 .. N * B -> Byte]
  BY PaddedTypes
<1>2. B \in Nat \ {0} /\ N * B \in Nat
  BY <1>1 DEF SizeAssumption, B
<1> HIDE DEF p, ps
<1>3. Len(ps) = N * B /\ Len(ps) \div AES_BLOCKSIZE = N
  <2>1. Len(ps) = N * B
    BY <1>1, <1>2
  <2>2. N * B = N * B + 0 /\ 0 \in 0 .. B - 1
    BY <1>2
  <2>3. (N * B) \div B = N
    BY <1>1, <1>2, <2>2, DivMod
  <2> QED
    BY <2>1, <2>3 DEF B
<1>4. \A t \in 1 .. N : BlockOf(ps, t) \in Block
  BY <1>1, BlockTypes
<1> DEFINE mixed == CHOOSE ms : Chained(ms, ps, N)
<1>5. \E ms \in [0 .. N -> Block] : Chained(ms, ps, N)
  BY <1>1, <1>4, ChainExists
<1>6. Chained(mixed, ps, N)
  BY <1>5
<1>7. data # <<>>
  <2>1. 1 \in 1 .. L /\ DOMAIN data = 1 .. L
    OBVIOUS
  <2> QED
    BY <2>1
<1>8. CBCEncrypt(data) = FlattenSeq([t \in 1 .. N |-> mixed[t]])
  <2>1. CBCEncrypt(data) = ChainOf(ps, Len(ps) \div AES_BLOCKSIZE)
    BY <1>7, Zenon DEF CBCEncrypt, Chained, ChainOf, ps
  <2>2. CBCEncrypt(data) = ChainOf(ps, N)
    BY <1>3, <2>1
  <2> QED
    BY <2>2 DEF ChainOf
<1> HIDE DEF mixed
<1>9. mixed[0] = iv
  BY <1>1, <1>6 DEF Chained
<1>10. \A t \in 1 .. N : mixed[t] = EncryptBlock(XorBlock(mixed[t - 1], BlockOf(ps, t)))
  BY <1>1, <1>6 DEF Chained
<1>11. \A t \in 0 .. N : mixed[t] \in Block
  <2> DEFINE T == {t \in Nat : t <= N => mixed[t] \in Block}
  <2>1. 0 \in T
    BY <1>9 DEF SizeAssumption
  <2>2. ASSUME NEW t \in Nat, t \in T
        PROVE  t + 1 \in T
    <3>1. ASSUME t + 1 <= N
          PROVE  mixed[t + 1] \in Block
      <4>1. t <= N /\ t + 1 \in 1 .. N /\ (t + 1) - 1 = t
        BY <1>1, <3>1
      <4>2. mixed[t] \in Block /\ BlockOf(ps, t + 1) \in Block
        BY <1>4, <2>2, <4>1
      <4>3. XorBlock(mixed[t], BlockOf(ps, t + 1)) \in Block
        BY <4>2, XorBlocks
      <4>4. mixed[t + 1] = EncryptBlock(XorBlock(mixed[t], BlockOf(ps, t + 1)))
        BY <1>10, <4>1
      <4> QED
        BY <4>3, <4>4 DEF CipherAssumption
    <3> QED
      BY <3>1
  <2> HIDE DEF T
  <2>3. \A t \in Nat : t \in T
    BY <2>1, <2>2, CountingUp
  <2> QED
    BY <1>1, <2>3 DEF T
<1>12. mixed = [t \in 0 .. N |-> mixed[t]]
  <2>1. DOMAIN mixed = 0 .. N /\ mixed = [t \in DOMAIN mixed |-> mixed[t]]
    BY <1>6 DEF Chained
  <2> QED
    BY <2>1
<1>13. mixed \in [0 .. N -> Block]
  BY <1>11, <1>12
<1> DEFINE cs == [t \in 1 .. N |-> mixed[t]]
<1>14. cs \in [1 .. N -> Block]
  BY <1>1, <1>11
<1> HIDE DEF cs
<1>15. CBCEncrypt(data) = Joined(cs, N)
  BY <1>1, <1>8, <1>14, FlattenJoins DEF cs
<1> QED
  BY <1>9, <1>10, <1>13, <1>15 DEF cs, ps

-----------------------------------------------------------------------------
(* Decrypting                                                              *)

PlainBlock(c, t) ==
    XorBlock(DecryptBlock(BlockOf(c, t)), IF t = 1 THEN iv ELSE BlockOf(c, t - 1))

Plain(c, N) == Joined([t \in 1 .. N |-> PlainBlock(c, t)], N)

LEMMA PlainTypes ==
    ASSUME SizeAssumption, XorAssumption, CipherAssumption,
           NEW N \in Nat \ {0}, NEW c \in [1 .. N * B -> Byte]
    PROVE  /\ \A t \in 1 .. N : PlainBlock(c, t) \in Block
           /\ Plain(c, N) \in [1 .. N * B -> Byte]
           /\ \A t \in 1 .. N : BlockOf(Plain(c, N), t) = PlainBlock(c, t)
<1>1. ASSUME NEW t \in 1 .. N
      PROVE  PlainBlock(c, t) \in Block
  <2>1. DecryptBlock(BlockOf(c, t)) \in Block
    BY BlockTypes, CipherOnto
  <2> DEFINE b == IF t = 1 THEN iv ELSE BlockOf(c, t - 1)
  <2>2. b \in Block
    <3>1. CASE t = 1
      BY <3>1 DEF SizeAssumption
    <3>2. CASE t # 1
      <4>1. t - 1 \in 1 .. N
        BY <3>2
      <4>2. BlockOf(c, t - 1) \in Block
        BY <4>1, BlockTypes
      <4> QED
        BY <3>2, <4>2
    <3> QED
      BY <3>1, <3>2
  <2> HIDE DEF b
  <2> QED
    BY <2>1, <2>2, XorBlocks DEF PlainBlock, b
<1> DEFINE bs == [t \in 1 .. N |-> PlainBlock(c, t)]
<1>2. bs \in [1 .. N -> Block] /\ \A t \in 1 .. N : bs[t] = PlainBlock(c, t)
  BY <1>1
<1>3. Plain(c, N) = Joined(bs, N)
  BY DEF Plain
<1> HIDE DEF bs
<1>4. Joined(bs, N) \in [1 .. N * B -> Byte]
  BY <1>2, JoinedTypes
<1>5. \A t \in 1 .. N : BlockOf(Joined(bs, N), t) = bs[t]
  BY <1>2, CutJoined
<1> QED
  BY <1>1, <1>2, <1>3, <1>4, <1>5

LEMMA DecryptIs ==
    ASSUME SizeAssumption, XorAssumption, CipherAssumption,
           NEW N \in Nat \ {0}, NEW c \in [1 .. N * B -> Byte]
    PROVE  CBCDecrypt(c) =
               IF WellPadded(Plain(c, N))
               THEN SubSeq(Plain(c, N), 1, N * B - Plain(c, N)[N * B]) ELSE <<>>
<1>1. B \in Nat \ {0} /\ N * B \in Nat \ {0}
  <2>1. B \in Nat \ {0}
    BY DEF SizeAssumption, B
  <2> DEFINE e == N - 1
  <2>2. e \in Nat /\ N = e + 1
    OBVIOUS
  <2> HIDE DEF e
  <2>3. N * B = e * B + B /\ e * B \in Nat
    BY <2>1, <2>2
  <2> QED
    BY <2>1, <2>3
<1>2. Len(c) = N * B /\ c # <<>>
  BY <1>1
<1>3. Len(c) \div AES_BLOCKSIZE = N /\ Len(c) % AES_BLOCKSIZE = 0
  <2>1. N * B = N * B + 0 /\ 0 \in 0 .. B - 1 /\ N \in Nat /\ N * B \in Nat
    BY <1>1
  <2>2. (N * B) \div B = N /\ (N * B) % B = 0
    BY <1>1, <2>1, DivMod
  <2> QED
    BY <1>2, <2>2 DEF B
<1> DEFINE Flat(k) == FlattenSeq([t \in 1 .. k |-> PlainBlock(c, t)])
<1> DEFINE Cleared(s) == IF WellPadded(s) THEN SubSeq(s, 1, Len(s) - Last(s)) ELSE <<>>
<1>4. CBCDecrypt(c) = Cleared(Flat(Len(c) \div AES_BLOCKSIZE))
  BY <1>2, <1>3, Zenon DEF CBCDecrypt, PlainBlock
<1> HIDE DEF Flat, Cleared
<1>5. CBCDecrypt(c) = Cleared(Flat(N))
  BY <1>3, <1>4
<1> DEFINE bs == [t \in 1 .. N |-> PlainBlock(c, t)]
<1>6. bs \in [1 .. N -> Block]
  BY PlainTypes
<1>7. Flat(N) = FlattenSeq(bs) /\ Plain(c, N) = Joined(bs, N)
  BY DEF Flat, Plain
<1> HIDE DEF bs
<1>8. Flat(N) = Plain(c, N)
  BY <1>6, <1>7, FlattenJoins
<1>9. Plain(c, N) \in [1 .. N * B -> Byte]
  BY PlainTypes
<1>10. Len(Plain(c, N)) = N * B
  BY <1>1, <1>9
<1>11. Last(Plain(c, N)) = Plain(c, N)[N * B]
  BY <1>10 DEF Last
<1> QED
  BY <1>5, <1>8, <1>10, <1>11 DEF Cleared

\* What was encrypted is decrypted to what it was.
LEMMA DecryptsWhatWasEncrypted ==
    ASSUME SizeAssumption, XorAssumption, CipherAssumption,
           NEW L \in Nat \ {0}, NEW data \in [1 .. L -> Byte]
    PROVE  CBCDecrypt(CBCEncrypt(data)) = data
<1> DEFINE N == L \div B + 1
<1> DEFINE ps == Padded(data)
<1> DEFINE p == B - (L % B)
<1>1. /\ N \in Nat \ {0} /\ p \in 1 .. B /\ L + p = N * B /\ ps \in [1 .. L + p -> Byte]
      /\ \A m \in 1 .. L : ps[m] = data[m]
      /\ \A k \in 1 .. p : ps[L + k] = p
  BY PaddedTypes
<1>2. PICK ms \in [0 .. N -> Block] :
          /\ ms[0] = iv
          /\ \A t \in 1 .. N : ms[t] = EncryptBlock(XorBlock(ms[t - 1], BlockOf(ps, t)))
          /\ CBCEncrypt(data) = Joined([t \in 1 .. N |-> ms[t]], N)
  BY EncryptIs
<1> DEFINE cs == [t \in 1 .. N |-> ms[t]]
<1>3. cs \in [1 .. N -> Block] /\ \A t \in 1 .. N : cs[t] = ms[t]
  BY <1>1, <1>2
<1> DEFINE c == Joined(cs, N)
<1>4. CBCEncrypt(data) = c
  BY <1>2
<1> HIDE DEF N, ps, p, cs
<1>5. ps \in [1 .. N * B -> Byte]
  BY <1>1
<1>6. c \in [1 .. N * B -> Byte] /\ \A t \in 1 .. N : BlockOf(c, t) = ms[t]
  <2>1. c \in [1 .. N * B -> Byte]
    BY <1>1, <1>3, JoinedTypes
  <2>2. \A t \in 1 .. N : BlockOf(c, t) = cs[t]
    BY <1>1, <1>3, CutJoined
  <2> QED
    BY <1>3, <2>1, <2>2
<1> HIDE DEF c
<1>7. ASSUME NEW t \in 1 .. N
      PROVE  PlainBlock(c, t) = BlockOf(ps, t)
  <2>1. t - 1 \in 0 .. N /\ t \in 0 .. N
    BY <1>1
  <2>2. ms[t] \in Block /\ ms[t - 1] \in Block /\ BlockOf(ps, t) \in Block
    <3>1. BlockOf(ps, t) \in Block
      BY <1>1, <1>5, BlockTypes
    <3> QED
      BY <2>1, <3>1
  <2>3. (IF t = 1 THEN iv ELSE BlockOf(c, t - 1)) = ms[t - 1]
    <3>1. CASE t = 1
      BY <1>2, <3>1
    <3>2. CASE t # 1
      <4>1. t - 1 \in 1 .. N
        BY <1>1, <3>2
      <4> QED
        BY <1>6, <3>2, <4>1
    <3> QED
      BY <3>1, <3>2
  <2>4. PlainBlock(c, t) = XorBlock(DecryptBlock(ms[t]), ms[t - 1])
    BY <1>6, <2>3 DEF PlainBlock
  <2> DEFINE x == XorBlock(ms[t - 1], BlockOf(ps, t))
  <2>5. x \in Block /\ ms[t] = EncryptBlock(x)
    BY <1>2, <2>2, XorBlocks
  <2>6. DecryptBlock(ms[t]) = x
    BY <2>5 DEF CipherAssumption
  <2>7. XorBlock(XorBlock(ms[t - 1], BlockOf(ps, t)), ms[t - 1]) = BlockOf(ps, t)
    <3>1. XorBlock(ms[t - 1], BlockOf(ps, t)) = XorBlock(BlockOf(ps, t), ms[t - 1])
      <4>1. \A k \in 1 .. AES_BLOCKSIZE :
               XorByte(ms[t - 1][k], BlockOf(ps, t)[k]) = XorByte(BlockOf(ps, t)[k], ms[t - 1][k])
        BY <2>2 DEF XorAssumption, Block
      <4> QED
        BY <4>1 DEF XorBlock
    <3>2. XorBlock(XorBlock(BlockOf(ps, t), ms[t - 1]), ms[t - 1]) = BlockOf(ps, t)
      BY <2>2, XorBlocks
    <3> QED
      BY <3>1, <3>2
  <2> QED
    BY <2>4, <2>6, <2>7
<1>8. Plain(c, N) = ps
  <2>1. [t \in 1 .. N |-> PlainBlock(c, t)] = Cut(ps, N)
    BY <1>7 DEF Cut
  <2>2. Joined(Cut(ps, N), N) = ps
    BY <1>1, <1>5, JoinedCut
  <2> QED
    BY <2>1, <2>2 DEF Plain
<1>9. p \in Nat /\ L + p = N * B /\ N * B \in Nat /\ N * B - p = L
  BY <1>1 DEF B
<1>10. ps[N * B] = p
  BY <1>1, <1>9
<1>11. Len(ps) = N * B /\ Last(ps) = p
  <2>1. Len(ps) = N * B
    BY <1>5, <1>9
  <2> QED
    BY <1>10, <2>1 DEF Last
<1>12. WellPadded(ps)
  <2>1. ASSUME NEW k \in 0 .. p - 1
        PROVE  ps[Len(ps) - k] = p
    <3>1. p - k \in 1 .. p /\ Len(ps) - k = L + (p - k)
      BY <1>1, <1>9, <1>11
    <3> QED
      BY <1>1, <3>1
  <2> QED
    BY <1>1, <1>11, <2>1 DEF WellPadded, B
<1>13. CBCDecrypt(c) = SubSeq(ps, 1, N * B - ps[N * B])
  <2>1. CBCDecrypt(c) =
               IF WellPadded(Plain(c, N))
               THEN SubSeq(Plain(c, N), 1, N * B - Plain(c, N)[N * B]) ELSE <<>>
    BY <1>1, <1>6, DecryptIs
  <2> QED
    BY <1>8, <1>12, <2>1
<1>14. CBCDecrypt(c) = SubSeq(ps, 1, L)
  BY <1>9, <1>10, <1>13
<1>15. SubSeq(ps, 1, L) = data
  <2>1. \A m \in 1 .. L : ps[m] = data[m]
    BY <1>1
  <2>2. SubSeq(ps, 1, L) = [m \in 1 .. L |-> ps[m]]
    BY <1>5, <1>9, <1>11
  <2>3. data = [m \in 1 .. L |-> data[m]]
    OBVIOUS
  <2> QED
    BY <2>1, <2>2, <2>3
<1> QED
  BY <1>4, <1>14, <1>15

\* What is decrypted to something was encrypted from that.
LEMMA OnlyDecryptsWhatWasEncrypted ==
    ASSUME SizeAssumption, XorAssumption, CipherAssumption,
           NEW F \in Nat, NEW c \in [1 .. F -> Byte], CBCDecrypt(c) # <<>>
    PROVE  \E L \in Nat \ {0} :
              CBCDecrypt(c) \in [1 .. L -> Byte] /\ CBCEncrypt(CBCDecrypt(c)) = c
<1>0. B \in Nat \ {0} /\ Len(c) = F
  BY DEF SizeAssumption, B
<1> DEFINE N == F \div B
<1>1. N \in Nat \ {0} /\ F = N * B
  <2>1. c # <<>> /\ ~(Len(c) % AES_BLOCKSIZE # 0)
    BY Zenon DEF CBCDecrypt
  <2>2. F % B = 0 /\ F # 0
    <3>1. F # 0
      BY <1>0, <2>1
    <3> QED
      BY <1>0, <2>1, <3>1 DEF B
  <2>3. F \div B \in Nat /\ F = (F \div B) * B + (F % B)
    BY <1>0, DivExact
  <2> HIDE DEF N
  <2>4. N \in Nat /\ F = N * B + 0
    BY <2>2, <2>3 DEF N
  <2>5. N # 0
    BY <1>0, <2>2, <2>4
  <2>6. N * B \in Nat
    BY <1>0, <2>4
  <2> QED
    BY <2>4, <2>5, <2>6
<1> HIDE DEF N
<1> DEFINE plain == Plain(c, N)
<1> DEFINE p == plain[N * B]
<1>2. /\ c \in [1 .. N * B -> Byte] /\ N * B \in Nat
      /\ \A t \in 1 .. N : PlainBlock(c, t) \in Block
      /\ plain \in [1 .. N * B -> Byte]
      /\ \A t \in 1 .. N : BlockOf(plain, t) = PlainBlock(c, t)
  BY <1>1, PlainTypes
<1>3. CBCDecrypt(c) = IF WellPadded(plain) THEN SubSeq(plain, 1, N * B - p) ELSE <<>>
  BY <1>1, <1>2, DecryptIs
<1>4. WellPadded(plain) /\ CBCDecrypt(c) = SubSeq(plain, 1, N * B - p)
  BY <1>3
<1> HIDE DEF plain, p
<1>5. Len(plain) = N * B /\ Last(plain) = p
  <2>1. Len(plain) = N * B
    BY <1>2
  <2> QED
    BY <2>1 DEF Last, p
<1>6. p \in 1 .. B /\ \A k \in 0 .. p - 1 : plain[N * B - k] = p
  BY <1>4, <1>5 DEF WellPadded, B
<1> DEFINE e == N - 1
<1>7. e \in Nat /\ N = e + 1 /\ N * B = e * B + B /\ e * B \in Nat
  <2>1. e \in Nat /\ N = e + 1
    BY <1>1
  <2> HIDE DEF e
  <2>2. N * B = e * B + B /\ e * B \in Nat
    BY <1>0, <2>1
  <2> QED
    BY <2>1, <2>2
<1> HIDE DEF e
<1> DEFINE L == N * B - p
<1>8. L \in Nat /\ L + p = N * B /\ p \in Nat /\ L = e * B + (B - p) /\ B - p \in 0 .. B - 1
  BY <1>0, <1>6, <1>7
<1> HIDE DEF L
<1>9. L \div B = e /\ L % B = B - p
  <2> DEFINE g == B - p
  <2>1. g \in 0 .. B - 1 /\ L = e * B + g
    BY <1>8
  <2> HIDE DEF g
  <2>2. L \div B = e /\ L % B = g
    BY <1>0, <1>7, <1>8, <2>1, DivMod
  <2> QED
    BY <2>2 DEF g
<1> DEFINE r == SubSeq(plain, 1, L)
<1>10. CBCDecrypt(c) = r
  BY <1>4 DEF L
<1>11. r \in [1 .. L -> Byte] /\ \A m \in 1 .. L : r[m] = plain[m]
  <2>1. L <= Len(plain) /\ plain \in Seq(Byte)
    BY <1>2, <1>5, <1>8
  <2>2. r = [m \in 1 .. L |-> plain[m]]
    BY <1>8, <2>1
  <2>3. \A m \in 1 .. L : plain[m] \in Byte
    <3>1. \A m \in 1 .. L : m \in 1 .. N * B
      BY <1>2, <1>8
    <3> QED
      BY <1>2, <3>1
  <2> HIDE DEF r
  <2> QED
    BY <2>2, <2>3
<1> HIDE DEF r
<1>12. L \in Nat \ {0}
  <2>1. ASSUME L = 0
        PROVE  r = <<>>
    BY <1>11, <2>1
  <2> QED
    BY <1>8, <1>10, <2>1
<1>13. N = L \div B + 1 /\ p = B - (L % B)
  BY <1>0, <1>7, <1>8, <1>9
<1> DEFINE ps == Padded(r)
<1>14. /\ ps \in [1 .. L + p -> Byte]
       /\ \A m \in 1 .. L : ps[m] = r[m]
       /\ \A k \in 1 .. p : ps[L + k] = p
  BY <1>8, <1>11, <1>13, PaddedTypes
<1> HIDE DEF ps
<1>15. ps = plain
  <2>1. ASSUME NEW m \in 1 .. N * B
        PROVE  ps[m] = plain[m]
    <3>1. CASE m <= L
      BY <1>8, <1>11, <1>14, <3>1
    <3>2. CASE m > L
      <4>1. m - L \in 1 .. p /\ L + (m - L) = m
        BY <1>2, <1>8, <3>2
      <4>2. N * B - m \in 0 .. p - 1 /\ N * B - (N * B - m) = m
        <5> DEFINE M == N * B
        <5>1. M \in Nat /\ m \in 1 .. M /\ L + p = M
          BY <1>2, <1>8
        <5> HIDE DEF M
        <5>2. M - m \in 0 .. p - 1 /\ M - (M - m) = m
          BY <1>8, <3>2, <5>1
        <5> QED
          BY <5>2 DEF M
      <4>3. ps[m] = p
        BY <1>14, <4>1
      <4>4. plain[m] = p
        BY <1>6, <4>2
      <4> QED
        BY <4>3, <4>4
    <3> QED
      BY <1>8, <3>1, <3>2
  <2>2. ps \in [1 .. N * B -> Byte]
    BY <1>8, <1>14
  <2>3. plain \in [1 .. N * B -> Byte] /\ N * B \in Nat
    BY <1>2
  <2> QED
    BY ONLY <2>1, <2>2, <2>3, SameSequence
<1>16. PICK ms \in [0 .. N -> Block] :
          /\ ms[0] = iv
          /\ \A t \in 1 .. N : ms[t] = EncryptBlock(XorBlock(ms[t - 1], BlockOf(plain, t)))
          /\ CBCEncrypt(r) = Joined([t \in 1 .. N |-> ms[t]], N)
  <2>1. \E ms \in [0 .. N -> Block] :
          /\ ms[0] = iv
          /\ \A t \in 1 .. N : ms[t] = EncryptBlock(XorBlock(ms[t - 1], BlockOf(Padded(r), t)))
          /\ CBCEncrypt(r) = Joined([t \in 1 .. N |-> ms[t]], N)
    BY <1>11, <1>12, <1>13, EncryptIs
  <2> QED
    BY <1>15, <2>1 DEF ps
<1>17. ASSUME NEW t \in 1 .. N,
              ms[t - 1] = IF t = 1 THEN iv ELSE BlockOf(c, t - 1)
       PROVE  ms[t] = BlockOf(c, t)
  <2>1. ms[t - 1] \in Block /\ BlockOf(c, t) \in Block
    <3>1. t - 1 \in 0 .. N
      BY <1>1
    <3>2. BlockOf(c, t) \in Block
      BY <1>1, <1>2, BlockTypes
    <3> QED
      BY <3>1, <3>2
  <2> DEFINE d == DecryptBlock(BlockOf(c, t))
  <2>2. d \in Block /\ EncryptBlock(d) = BlockOf(c, t)
    BY <2>1, CipherOnto
  <2>3. BlockOf(plain, t) = XorBlock(d, ms[t - 1])
    BY <1>2, <1>17 DEF PlainBlock
  <2> HIDE DEF d
  <2>4. XorBlock(ms[t - 1], XorBlock(d, ms[t - 1])) = d
    BY <2>1, <2>2, XorBlocks
  <2>5. ms[t] = EncryptBlock(XorBlock(ms[t - 1], BlockOf(plain, t)))
    BY <1>16
  <2> QED
    BY <2>2, <2>3, <2>4, <2>5
<1>18. \A t \in 1 .. N : ms[t] = BlockOf(c, t)
  <2> DEFINE T == {t \in Nat : t + 1 \in 1 .. N => ms[t + 1] = BlockOf(c, t + 1)}
  <2>1. 0 \in T
    <3>1. 1 \in 1 .. N => ms[1] = BlockOf(c, 1)
      BY <1>16, <1>17
    <3> QED
      BY <3>1
  <2>2. ASSUME NEW t \in Nat, t \in T
        PROVE  t + 1 \in T
    <3>1. ASSUME (t + 1) + 1 \in 1 .. N
          PROVE  ms[(t + 1) + 1] = BlockOf(c, (t + 1) + 1)
      <4>1. t + 1 \in 1 .. N /\ ((t + 1) + 1) - 1 = t + 1 /\ (t + 1) + 1 # 1
        BY <1>1, <3>1
      <4>2. ms[t + 1] = BlockOf(c, t + 1)
        BY <2>2, <4>1
      <4> QED
        BY <1>17, <3>1, <4>1, <4>2
    <3> QED
      BY <3>1
  <2> HIDE DEF T
  <2>3. \A t \in Nat : t \in T
    BY <2>1, <2>2, CountingUp
  <2>4. ASSUME NEW t \in 1 .. N
        PROVE  ms[t] = BlockOf(c, t)
    <3>1. t - 1 \in Nat /\ (t - 1) + 1 = t
      BY <1>1
    <3>2. t - 1 \in T
      BY <2>3, <3>1
    <3>3. (t - 1) + 1 \in 1 .. N => ms[(t - 1) + 1] = BlockOf(c, (t - 1) + 1)
      BY <3>2 DEF T
    <3> QED
      BY <3>1, <3>3
  <2> QED
    BY <2>4
<1>19. [t \in 1 .. N |-> ms[t]] = Cut(c, N)
  BY <1>18 DEF Cut
<1>20. CBCEncrypt(r) = c
  <2>1. Joined(Cut(c, N), N) = c
    BY <1>1, <1>2, JoinedCut
  <2> QED
    BY <1>16, <1>19, <2>1
<1> QED
  BY <1>10, <1>11, <1>12, <1>20

-----------------------------------------------------------------------------
(* AesEncode and AesDecode                                                 *)

LEMMA NoZeros ==
    ASSUME NEW s, NEW t \in Nat, s \in [1 .. t -> Byte], SizeAssumption
    PROVE  s \o Zeros(0) = s
<1>1. s \in Seq(Byte) /\ Len(s) = t
  OBVIOUS
<1>2. Zeros(0) = <<>>
  BY DEF Zeros
<1> QED
  BY <1>1, <1>2, ConcatEmptySeq

\* Of what is not empty AesEncode makes what CBCEncrypt wrote, and no zeros.
LEMMA EncodeIs ==
    ASSUME SizeAssumption, XorAssumption, CipherAssumption,
           NEW L \in Nat \ {0}, NEW data \in [1 .. L -> Byte]
    PROVE  /\ AesEncode(data).out = CBCEncrypt(data)
           /\ \E F \in Nat : CBCEncrypt(data) \in [1 .. F -> Byte]
<1> DEFINE N == L \div B + 1
<1> DEFINE p == B - (L % B)
<1>1. N \in Nat \ {0} /\ p \in 1 .. B /\ L + p = N * B
  BY PaddedTypes
<1>2. PICK ms \in [0 .. N -> Block] : CBCEncrypt(data) = Joined([t \in 1 .. N |-> ms[t]], N)
  BY EncryptIs
<1> DEFINE cs == [t \in 1 .. N |-> ms[t]]
<1>3. cs \in [1 .. N -> Block]
  BY <1>1, <1>2
<1> HIDE DEF cs, N
<1>4. CBCEncrypt(data) = Joined(cs, N)
  BY <1>2 DEF cs
<1>5. CBCEncrypt(data) \in [1 .. N * B -> Byte]
  BY <1>1, <1>3, <1>4, JoinedTypes
<1>6. B \in Nat \ {0} /\ N * B \in Nat
  BY <1>1 DEF SizeAssumption, B
<1>7. Len(CBCEncrypt(data)) = N * B
  BY <1>5, <1>6
<1>8. (L + B) % B = L % B
  <2> DEFINE q == L \div B
  <2> DEFINE r == L % B
  <2>1. q \in Nat /\ r \in 0 .. B - 1 /\ L = q * B + r
    BY <1>6, DivExact
  <2> DEFINE k == q + 1
  <2> HIDE DEF q, r
  <2>2. k \in Nat /\ k * B = q * B + B /\ q * B \in Nat
    BY <1>6, <2>1
  <2> HIDE DEF k
  <2>3. L + B = k * B + r /\ L + B \in Nat
    BY <1>6, <2>1, <2>2
  <2> DEFINE M == L + B
  <2>4. M = k * B + r /\ M \in Nat
    BY <2>3
  <2> HIDE DEF M
  <2>5. M % B = r
    BY <1>6, <2>1, <2>2, <2>4, DivMod
  <2> QED
    BY <2>5 DEF M, r
<1>9. L + B - ((L + B) % B) = N * B
  <2>1. L % B \in 0 .. B - 1
    BY <1>6, DivExact
  <2> QED
    BY <1>1, <1>6, <1>8, <2>1
<1>10. Len(data) = L
  OBVIOUS
<1>11. AesEncode(data).out = CBCEncrypt(data) \o Zeros(N * B - Len(CBCEncrypt(data)))
  BY <1>9, <1>10 DEF AesEncode, B
<1>12. AesEncode(data).out = CBCEncrypt(data) \o Zeros(0)
  <2>1. N * B - Len(CBCEncrypt(data)) = 0
    BY <1>6, <1>7
  <2> QED
    BY <1>11, <2>1
<1> QED
  BY <1>5, <1>6, <1>12, NoZeros

\* Of nothing it makes a block of zeros.
LEMMA EncodeOfNothing ==
    ASSUME SizeAssumption
    PROVE  AesEncode(<<>>).out = Zeros(AES_BLOCKSIZE)
<1>1. B \in Nat \ {0} /\ B % B = 0
  <2>1. B \in Nat \ {0} /\ B = 1 * B + 0 /\ 0 \in 0 .. B - 1
    BY DEF SizeAssumption, B
  <2> QED
    BY <2>1, DivMod
<1>2. CBCEncrypt(<<>>) = <<>>
  BY Zenon DEF CBCEncrypt
<1>3. Len(<<>>) = 0
  OBVIOUS
<1>4. 0 + B - ((0 + B) % B) - 0 = B
  BY <1>1
<1>5. AesEncode(<<>>).out = <<>> \o Zeros(B)
  <2> DEFINE w == CBCEncrypt(<<>>)
  <2> DEFINE size == Len(<<>>) + B - ((Len(<<>>) + B) % B)
  <2>1. AesEncode(<<>>).out = w \o Zeros(size - Len(w))
    BY DEF AesEncode, B
  <2>2. size - Len(w) = B
    <3>1. Len(w) = 0
      BY <1>2, <1>3
    <3>2. 0 + B = B
      BY <1>1
    <3>3. size = B
      BY <1>1, <1>3, <3>2
    <3> HIDE DEF size, w
    <3> QED
      BY <1>1, <3>1, <3>3
  <2> HIDE DEF size
  <2> QED
    BY <1>2, <2>1, <2>2
<1>6. Zeros(B) \in Seq({0})
  BY <1>1 DEF Zeros
<1> QED
  BY <1>5, <1>6, ConcatEmptySeq DEF B

-----------------------------------------------------------------------------
(* The specification                                                       *)

\* What the writer made and what the reader made of it, at every step.
MessageInv ==
    /\ \E L \in Nat : sent \in [1 .. L -> Byte]
    /\ step \in {"write", "read", "sent", "arrive", "arrived"}
    /\ step = "read" => frame = AesEncode(sent).out
    /\ step = "sent" => received = AesDecode(AesEncode(sent).out).out
    /\ step \in {"arrive", "arrived"} => \E F \in Nat : frame \in [1 .. F -> Byte]
    /\ step = "arrived" => received = AesDecode(frame).out

LEMMA SentWhole ==
    ASSUME SizeAssumption, XorAssumption, CipherAssumption, ZerosAssumption,
           NEW L \in Nat, NEW data \in [1 .. L -> Byte]
    PROVE  AesDecode(AesEncode(data).out).out = data
<1>1. CASE L = 0
  <2>1. data = <<>>
    BY <1>1
  <2> QED
    BY <2>1, EncodeOfNothing DEF ZerosAssumption
<1>2. CASE L # 0
  <2>1. AesEncode(data).out = CBCEncrypt(data)
    BY <1>2, EncodeIs
  <2>2. CBCDecrypt(CBCEncrypt(data)) = data
    BY <1>2, DecryptsWhatWasEncrypted
  <2> QED
    BY <2>1, <2>2 DEF AesDecode
<1> QED
  BY <1>1, <1>2

LEMMA OnlyFrames ==
    ASSUME SizeAssumption, XorAssumption, CipherAssumption,
           NEW F \in Nat, NEW c \in [1 .. F -> Byte], AesDecode(c).out # <<>>
    PROVE  c = AesEncode(AesDecode(c).out).out
<1>1. AesDecode(c).out = CBCDecrypt(c)
  BY DEF AesDecode
<1>2. PICK L \in Nat \ {0} : CBCDecrypt(c) \in [1 .. L -> Byte] /\ CBCEncrypt(CBCDecrypt(c)) = c
  BY <1>1, OnlyDecryptsWhatWasEncrypted
<1>3. AesEncode(CBCDecrypt(c)).out = CBCEncrypt(CBCDecrypt(c))
  BY <1>2, EncodeIs
<1> QED
  BY <1>1, <1>2, <1>3

LEMMA InvInductive ==
    /\ MessageInit => MessageInv
    /\ MessageInv /\ [MessageNext]_messageVars => MessageInv'
<1>1. ASSUME NEW t, NEW s \in Bytes(t)
      PROVE  \E L \in Nat : s \in [1 .. L -> Byte]
  BY DEF Bytes
<1>2. ASSUME MessageInit
      PROVE  MessageInv
  <2>1. <<>> \in [1 .. 0 -> Byte]
    OBVIOUS
  <2>2. /\ \E L \in Nat : sent \in [1 .. L -> Byte]
        /\ \/ step = "write"
           \/ step = "arrive" /\ \E F \in Nat : frame \in [1 .. F -> Byte]
    BY <1>1, <1>2, <2>1 DEF MessageInit
  <2> QED
    BY <2>2 DEF MessageInv
<1>3. ASSUME MessageInv, [MessageNext]_messageVars
      PROVE  MessageInv'
  <2>1. CASE WebSocketWrite
    BY <1>3, <2>1 DEF WebSocketWrite, MessageInv
  <2>2. CASE WebSocketRead
    BY <1>3, <2>2 DEF WebSocketRead, MessageInv
  <2>3. CASE UNCHANGED messageVars
    BY <1>3, <2>3 DEF messageVars, MessageInv
  <2> QED
    BY <1>3, <2>1, <2>2, <2>3 DEF MessageNext
<1> QED
  BY <1>2, <1>3

\* What is forwarded is what was read at the other end, byte for byte, and
\* only a frame that AesEncode makes is forwarded at all: for messages and
\* frames of any length, blocks of any size and any cipher that can be undone
\* (crypto_tools/aes/aes.cpp:39-136).
THEOREM ForwardedAsRead ==
    SizeAssumption /\ XorAssumption /\ CipherAssumption /\ ZerosAssumption
    => (MessageSpec => [](RoundTrip /\ OnlyFramesAccepted))
<1> SUFFICES ASSUME SizeAssumption, XorAssumption, CipherAssumption, ZerosAssumption
             PROVE  MessageSpec => [](RoundTrip /\ OnlyFramesAccepted)
  OBVIOUS
<1>1. MessageInv => RoundTrip
  BY SentWhole DEF MessageInv, RoundTrip
<1>2. MessageInv => OnlyFramesAccepted
  BY OnlyFrames DEF MessageInv, OnlyFramesAccepted
<1> QED
  BY <1>1, <1>2, InvInductive, PTL DEF MessageSpec
=================================================================================
