------------------------------ MODULE PointsProofs ------------------------------
(***************************************************************************)
(* The operations on points are the curve's law, for every prime p and     *)
(* every B that CurveAssumption and PrimeAssumption allow: the formulas of *)
(* module Points give the point that the chord or the tangent gives, in    *)
(* every case that they tell apart, and what they hand each other has a    *)
(* magnitude that the next one takes.                                      *)
(*                                                                         *)
(* Numbers come first, then field elements (Is: a number modulo p and a    *)
(* bound on the magnitude), the law itself (PlusIs), and each operation    *)
(* (Stands: coordinates of a point, on some z).                            *)
(***************************************************************************)
EXTENDS Generator, WellFoundedInduction, TLAPS

-----------------------------------------------------------------------------
(* Numbers modulo p                                                        *)

LEMMA PrimeType == p \in Nat /\ p > 6
  BY CurveAssumption

LEMMA ModType ==
    ASSUME NEW a \in Int
    PROVE  a % p \in 0 .. p - 1
  BY PrimeType

\* What is left of a number, and what was taken off.
LEMMA Quotient ==
    ASSUME NEW a \in Int
    PROVE  \E k \in Int : a = k * p + (a % p)
<1>1. a = (a \div p) * p + (a % p) /\ a \div p \in Int
  BY PrimeType
<1> QED
  BY <1>1

LEMMA RestIs ==
    ASSUME NEW a \in Int, NEW r \in 0 .. p - 1, NEW k \in Int, a = k * p + r
    PROVE  a % p = r
  BY PrimeType

\* Numbers that differ by a multiple of p leave the same.
LEMMA Same ==
    ASSUME NEW a \in Int, NEW b \in Int, NEW k \in Int, a = b + k * p
    PROVE  a % p = b % p
<1>0. p \in Int
  BY PrimeType
<1>1. PICK q \in Int : b = q * p + (b % p)
  BY Quotient
<1> DEFINE r == b % p
<1>2. r \in 0 .. p - 1
  BY ModType
<1>3. b = q * p + r
  BY <1>1
<1> HIDE DEF r
<1>4. a = (q + k) * p + r /\ q + k \in Int
  BY <1>0, <1>2, <1>3
<1>5. a % p = r
  BY <1>2, <1>4, RestIs
<1> QED
  BY <1>5 DEF r

\* And if they leave the same, they differ by one.
LEMMA Differ ==
    ASSUME NEW a \in Int, NEW b \in Int, a % p = b % p
    PROVE  \E k \in Int : a = b + k * p
<1>0. p \in Int
  BY PrimeType
<1>1. PICK j \in Int : a = j * p + (a % p)
  BY Quotient
<1>2. PICK q \in Int : b = q * p + (b % p)
  BY Quotient
<1> DEFINE r == b % p
<1>3. r \in Int
  BY ModType
<1>4. a = j * p + r /\ b = q * p + r
  BY <1>1, <1>2
<1> HIDE DEF r
<1>5. a = b + (j - q) * p /\ j - q \in Int
  BY <1>0, <1>3, <1>4
<1> QED
  BY <1>5

LEMMA SameOfSame ==
    ASSUME NEW a \in Int
    PROVE  (a % p) \in Int /\ (a % p) % p = a % p
<1>1. a % p \in 0 .. p - 1
  BY ModType
<1>2. a % p = 0 * p + (a % p)
  BY <1>1, PrimeType
<1> QED
  BY <1>1, <1>2, RestIs

LEMMA Small ==
    ASSUME NEW a \in 0 .. p - 1
    PROVE  a % p = a
  BY PrimeType

\* Sums, products and opposites of what leaves the same.
LEMMA SameSum ==
    ASSUME NEW a \in Int, NEW b \in Int, NEW c \in Int, NEW d \in Int,
           a % p = c % p, b % p = d % p
    PROVE  (a + b) % p = (c + d) % p
<1>0. p \in Int
  BY PrimeType
<1>1. PICK j \in Int : a = c + j * p
  BY Differ
<1>2. PICK k \in Int : b = d + k * p
  BY Differ
<1>3. a + b = (c + d) + (j + k) * p /\ j + k \in Int /\ a + b \in Int /\ c + d \in Int
  BY <1>0, <1>1, <1>2
<1> QED
  BY <1>3, Same

LEMMA SameProduct ==
    ASSUME NEW a \in Int, NEW b \in Int, NEW c \in Int, NEW d \in Int,
           a % p = c % p, b % p = d % p
    PROVE  (a * b) % p = (c * d) % p
<1>0. p \in Int
  BY PrimeType
<1>1. PICK j \in Int : a = c + j * p
  BY Differ
<1>2. PICK k \in Int : b = d + k * p
  BY Differ
<1>3. /\ a * b = (c * d) + (c * k + j * d + j * k * p) * p
      /\ c * k + j * d + j * k * p \in Int /\ a * b \in Int /\ c * d \in Int
  BY <1>0, <1>1, <1>2
<1> QED
  BY <1>3, Same

LEMMA SameOpposite ==
    ASSUME NEW a \in Int, NEW c \in Int, a % p = c % p
    PROVE  (-a) % p = (-c) % p
<1>0. p \in Int
  BY PrimeType
<1>1. PICK j \in Int : a = c + j * p
  BY Differ
<1>3. -a = (-c) + (-j) * p /\ -j \in Int /\ -a \in Int /\ -c \in Int
  BY <1>0, <1>1
<1> QED
  BY <1>3, Same

LEMMA NoRest ==
    ASSUME NEW a \in Int, NEW k \in Int, a = k * p
    PROVE  a % p = 0
<1>1. 0 \in 0 .. p - 1 /\ a = k * p + 0
  BY PrimeType
<1> QED
  BY <1>1, RestIs

LEMMA Scaled ==
    ASSUME NEW a \in Int, NEW b \in Int, NEW c \in Int, a % p = b % p
    PROVE  (a * c) % p = (b * c) % p
<1>1. PICK k \in Int : a = b + k * p
  BY Differ
<1>2. a * c = b * c + (k * c) * p /\ k * c \in Int /\ a * c \in Int /\ b * c \in Int
  BY <1>1, PrimeType
<1> QED
  BY <1>2, Same

-----------------------------------------------------------------------------
(* Powers, and what they undo                                              *)

\* A set of numbers that has 0, and with each its successor, has them all.
LEMMA CountingUp ==
    ASSUME NEW T, 0 \in T, \A n \in Nat : n \in T => n + 1 \in T
    PROVE  \A n \in Nat : n \in T
<1> SUFFICES ASSUME Nat \ T # {} PROVE FALSE
  OBVIOUS
<1> DEFINE R == {ss \in Nat \X Nat : ss[1] < ss[2]}
<1>1. IsWellFoundedOn(R, Nat)
  BY NatLessThanWellFounded DEF OpToRel
<1>2. PICK m \in Nat \ T : \A k \in Nat \ T : <<k, m>> \notin R
  BY <1>1, WFMin, Zenon
<1>3. m # 0
  OBVIOUS
<1>4. m - 1 \in Nat /\ m - 1 < m
  BY <1>3
<1>5. m - 1 \in T
  BY <1>2, <1>4
<1>6. (m - 1) + 1 \in T /\ (m - 1) + 1 = m
  BY <1>4, <1>5
<1> QED
  BY <1>6

\* One turn of the recursion in Power.
Turned(f, k, x) ==
    IF k = 0 THEN 1 ELSE (f[k \div 2] * f[k \div 2] * (IF k % 2 = 1 THEN x ELSE 1)) % p

LEMMA TurnedType ==
    ASSUME NEW x \in Int, NEW k \in Nat, NEW f, k # 0 => f[k \div 2] \in Int
    PROVE  Turned(f, k, x) \in Int
<1> DEFINE h == f[k \div 2]
<1> DEFINE m == IF k % 2 = 1 THEN x ELSE 1
<1>1. CASE k = 0
  BY <1>1 DEF Turned
<1>2. CASE k # 0
  <2>1. h \in Int /\ m \in Int
    BY <1>2
  <2>2. Turned(f, k, x) = (h * h * m) % p
    BY <1>2 DEF Turned
  <2> HIDE DEF h, m
  <2>3. h * h * m \in Int
    BY <2>1
  <2> QED
    BY <2>2, <2>3, ModType
<1> QED
  BY <1>1, <1>2

LEMMA Halves ==
    ASSUME NEW k \in Nat
    PROVE  k \div 2 \in Nat /\ (k # 0 => k \div 2 <= k - 1) /\ k \div 2 <= k
  OBVIOUS

LEMMA PowersExist ==
    ASSUME NEW x \in Int, NEW e \in Nat
    PROVE  \E f : f = [k \in 0 .. e |-> Turned(f, k, x)]
<1> DEFINE Upto(n) == \E f \in [0 .. n -> Int] : \A k \in 0 .. n : f[k] = Turned(f, k, x)
<1> DEFINE T == {n \in Nat : Upto(n)}
<1>1. 0 \in T
  <2> DEFINE f == [k \in 0 .. 0 |-> 1]
  <2>1. f \in [0 .. 0 -> Int] /\ \A k \in 0 .. 0 : f[k] = Turned(f, k, x)
    BY DEF Turned
  <2> QED
    BY <2>1
<1>2. ASSUME NEW n \in Nat, n \in T
      PROVE  n + 1 \in T
  <2>1. PICK f \in [0 .. n -> Int] : \A k \in 0 .. n : f[k] = Turned(f, k, x)
    BY <1>2
  <2> DEFINE g == [k \in 0 .. n + 1 |-> IF k <= n THEN f[k] ELSE Turned(f, n + 1, x)]
  <2>2. \A k \in 0 .. n + 1 : k # 0 => k \div 2 \in 0 .. n /\ k \div 2 \in 0 .. n + 1
    BY Halves
  <2>3. Turned(f, n + 1, x) \in Int
    BY <2>2, TurnedType
  <2>4. g \in [0 .. n + 1 -> Int]
    BY <2>3
  <2>5. \A k \in 0 .. n + 1 : k # 0 => g[k \div 2] = f[k \div 2]
    BY <2>2
  <2>6. \A k \in 0 .. n + 1 : g[k] = Turned(f, k, x)
    BY <2>1
  <2> HIDE DEF g
  <2>7. \A k \in 0 .. n + 1 : Turned(g, k, x) = Turned(f, k, x)
    BY <2>5 DEF Turned
  <2>8. \A k \in 0 .. n + 1 : g[k] = Turned(g, k, x)
    BY <2>6, <2>7
  <2> QED
    BY <2>4, <2>8
<1>3. \A n \in Nat : n \in T
  <2> HIDE DEF T
  <2> QED
    BY <1>1, <1>2, CountingUp
<1>4. PICK f \in [0 .. e -> Int] : \A k \in 0 .. e : f[k] = Turned(f, k, x)
  BY <1>3
<1>5. f = [k \in 0 .. e |-> Turned(f, k, x)]
  BY <1>4
<1> QED
  BY <1>5

LEMMA PowerType ==
    ASSUME NEW x \in Int, NEW e \in Nat
    PROVE  Power(x, e) \in Int
<1> DEFINE pow == CHOOSE f : f = [k \in 0 .. e |-> Turned(f, k, x)]
<1>1. Power(x, e) = pow[e]
  BY DEF Power, Turned
<1>2. pow = [k \in 0 .. e |-> Turned(pow, k, x)]
  BY PowersExist
<1> HIDE DEF pow
<1> DEFINE T == {n \in Nat : \A k \in 0 .. e : k <= n => pow[k] \in Int}
<1>3. 0 \in T
  <2>1. pow[0] = 1
    BY <1>2 DEF Turned
  <2> QED
    BY <2>1
<1>4. ASSUME NEW n \in Nat, n \in T
      PROVE  n + 1 \in T
  <2> SUFFICES ASSUME NEW k \in 0 .. e, k = n + 1
               PROVE  pow[k] \in Int
    BY <1>4
  <2>1. k \div 2 \in 0 .. e /\ k \div 2 <= n
    BY Halves
  <2>2. pow[k \div 2] \in Int
    BY <1>4, <2>1
  <2>3. Turned(pow, k, x) \in Int
    BY <2>2, TurnedType
  <2> QED
    BY <1>2, <2>3
<1>5. \A n \in Nat : n \in T
  <2> HIDE DEF T
  <2> QED
    BY <1>3, <1>4, CountingUp
<1>6. pow[e] \in Int
  BY <1>5
<1> QED
  BY <1>1, <1>6

\* Every number but 0 has an inverse.
LEMMA HasInverse ==
    ASSUME NEW a \in Int, a % p # 0
    PROVE  \E k \in 1 .. p - 1 : (a * k) % p = 1
<1> DEFINE r == a % p
<1>0. r \in 0 .. p - 1 /\ r # 0 /\ r % p = a % p
  BY ModType, SameOfSame
<1>1. r \in 1 .. p - 1 /\ r \in Int /\ r % p = a % p
  BY <1>0, PrimeType
<1> HIDE DEF r
<1> DEFINE w == Power(r, p - 2)
<1>2. w \in Int
  BY <1>1, PowerType, PrimeType
<1>3. (r * w) % p = 1
  BY <1>1, PrimeAssumption
<1> HIDE DEF w
<1> DEFINE k == w % p
<1>4. k \in 0 .. p - 1 /\ k \in Int /\ k % p = w % p
  BY <1>2, ModType, SameOfSame, PrimeType
<1> HIDE DEF k
<1>5. (a * k) % p = (r * w) % p
  BY <1>1, <1>2, <1>4, SameProduct
<1>6. k # 0
  <2>1. a * 0 = 0 /\ 0 % p = 0
    BY PrimeType
  <2> QED
    BY <1>3, <1>5, <2>1
<1> QED
  BY <1>3, <1>4, <1>5, <1>6

\* What is multiplied with something that is not 0 can be compared without it.
LEMMA Cancel ==
    ASSUME NEW a \in Int, NEW b \in Int, NEW c \in Int, c % p # 0,
           (a * c) % p = (b * c) % p
    PROVE  a % p = b % p
<1>1. PICK k \in 1 .. p - 1 : (c * k) % p = 1
  BY HasInverse
<1>2. k \in Int /\ 1 % p = 1
  BY PrimeType
<1>3. ((a * c) * k) % p = ((b * c) * k) % p
  BY <1>2, SameProduct
<1>4. (a * c) * k = a * (c * k) /\ (b * c) * k = b * (c * k)
  BY <1>2
<1>5. c * k \in Int /\ 1 \in Int /\ (c * k) % p = 1 % p
  BY <1>1, <1>2
<1>6. (a * (c * k)) % p = (a * 1) % p
  BY <1>5, SameProduct
<1>7. (b * (c * k)) % p = (b * 1) % p
  BY <1>5, SameProduct
<1> QED
  BY <1>3, <1>4, <1>6, <1>7

LEMMA NoZeroProduct ==
    ASSUME NEW a \in Int, NEW b \in Int, a % p # 0, b % p # 0
    PROVE  (a * b) % p # 0
<1> SUFFICES ASSUME (a * b) % p = 0 PROVE FALSE
  OBVIOUS
<1>1. 0 * b = 0 /\ 0 % p = 0
  BY PrimeType
<1> QED
  BY <1>1, Cancel

-----------------------------------------------------------------------------
(* Field elements by the numbers they are of, modulo p, and the most that  *)
(* their magnitude is.                                                     *)

Is(a, A, m) ==
    \E x \in Int, k \in Int, u \in BOOLEAN :
        a = [v |-> x, m |-> k, n |-> u] /\ x = A % p /\ 0 <= k /\ k <= m

LEMMA Made ==
    ASSUME NEW A \in Int, NEW m \in Int, 0 <= m
    PROVE  /\ Is([v |-> A % p, m |-> m, n |-> FALSE], A, m)
           /\ Is([v |-> A % p, m |-> m, n |-> TRUE], A, m)
<1>1. A % p \in Int /\ m <= m
  BY SameOfSame
<1>2. TRUE \in BOOLEAN /\ FALSE \in BOOLEAN
  OBVIOUS
<1> QED
  BY <1>1, <1>2, Zenon DEF Is

LEMMA FeIs ==
    ASSUME NEW A \in Int, NEW m \in Int, NEW u \in BOOLEAN, 0 <= m
    PROVE  Is([v |-> A % p, m |-> m, n |-> u], A, m)
<1>1. A % p \in Int /\ m <= m
  BY SameOfSame
<1> QED
  BY <1>1, Zenon DEF Is

\* The number only counts modulo p, the magnitude may be less.
LEMMA Also ==
    ASSUME NEW A \in Int, NEW B \in Int, NEW m \in Int, NEW k \in Int, NEW a,
           Is(a, A, m), A % p = B % p, m <= k
    PROVE  Is(a, B, k)
<1>1. PICK x \in Int, j \in Int, u \in BOOLEAN :
          a = [v |-> x, m |-> j, n |-> u] /\ x = A % p /\ 0 <= j /\ j <= m
  BY DEF Is
<1>2. j <= k /\ x = B % p
  BY <1>1
<1> QED
  BY <1>1, <1>2 DEF Is

LEMMA ItsForm ==
    ASSUME NEW A \in Int, NEW m \in Int, NEW a, Is(a, A, m)
    PROVE  \E x \in Int, k \in Int, u \in BOOLEAN :
               /\ a = [v |-> x, m |-> k, n |-> u] /\ x = A % p /\ x % p = A % p
               /\ 0 <= k /\ k <= m
  BY SameOfSame DEF Is

LEMMA ItsValue ==
    ASSUME NEW A \in Int, NEW m \in Int, NEW a, Is(a, A, m)
    PROVE  /\ a.v \in Int /\ a.v = A % p /\ a.v % p = A % p /\ a.v \in 0 .. p - 1
           /\ a.m \in Int /\ 0 <= a.m /\ a.m <= m
  BY ItsForm, ModType

LEMMA MulIs ==
    ASSUME NEW A \in Int, NEW B \in Int, NEW m \in Int, NEW k \in Int, NEW a, NEW b,
           Is(a, A, m), Is(b, B, k), m <= 8, k <= 8
    PROVE  Is(mul(a, b), A * B, 1)
<1>1. PICK x \in Int, i \in Int, u \in BOOLEAN :
          /\ a = [v |-> x, m |-> i, n |-> u] /\ x = A % p /\ x % p = A % p
          /\ 0 <= i /\ i <= m
  BY ItsForm
<1>2. PICK y \in Int, j \in Int, w \in BOOLEAN :
          /\ b = [v |-> y, m |-> j, n |-> w] /\ y = B % p /\ y % p = B % p
          /\ 0 <= j /\ j <= k
  BY ItsForm
<1>3. (x * y) % p = (A * B) % p
  BY <1>1, <1>2, SameProduct
<1>4. mul(a, b) = [v |-> (x * y) % p, m |-> 1, n |-> FALSE]
  BY <1>1, <1>2 DEF mul, Fe
<1>5. mul(a, b) = [v |-> (A * B) % p, m |-> 1, n |-> FALSE]
  BY <1>3, <1>4, Zenon
<1>6. A * B \in Int /\ 1 \in Int /\ 0 <= 1
  OBVIOUS
<1> QED
  BY <1>5, <1>6, Made, Zenon

LEMMA SqrIs ==
    ASSUME NEW A \in Int, NEW m \in Int, NEW a, Is(a, A, m), m <= 8
    PROVE  Is(sqr(a), A * A, 1)
  BY MulIs DEF sqr

LEMMA AddIs ==
    ASSUME NEW A \in Int, NEW B \in Int, NEW m \in Int, NEW k \in Int, NEW a, NEW b,
           Is(a, A, m), Is(b, B, k), m + k <= 32
    PROVE  Is(fe_add(a, b), A + B, m + k)
<1>1. PICK x \in Int, i \in Int, u \in BOOLEAN :
          /\ a = [v |-> x, m |-> i, n |-> u] /\ x = A % p /\ x % p = A % p
          /\ 0 <= i /\ i <= m
  BY ItsForm
<1>2. PICK y \in Int, j \in Int, w \in BOOLEAN :
          /\ b = [v |-> y, m |-> j, n |-> w] /\ y = B % p /\ y % p = B % p
          /\ 0 <= j /\ j <= k
  BY ItsForm
<1>3. (x + y) % p = (A + B) % p
  BY <1>1, <1>2, SameSum
<1>4. i + j <= 32 /\ 0 <= i + j /\ i + j <= m + k
  BY <1>1, <1>2
<1>5. fe_add(a, b) = [v |-> (x + y) % p, m |-> i + j, n |-> FALSE]
  BY <1>1, <1>2, <1>4 DEF fe_add, Fe
<1>6. fe_add(a, b) = [v |-> (A + B) % p, m |-> i + j, n |-> FALSE]
  BY <1>3, <1>5, Zenon
<1>7. A + B \in Int /\ i + j \in Int /\ m + k \in Int
  OBVIOUS
<1>8. Is(fe_add(a, b), A + B, i + j)
  BY <1>4, <1>6, <1>7, Made, Zenon
<1> QED
  BY <1>4, <1>7, <1>8, Also

LEMMA NegateIs ==
    ASSUME NEW A \in Int, NEW m \in Int, NEW k \in Int, NEW a,
           Is(a, A, m), m <= k, k < 32
    PROVE  Is(fe_negate(a, k), -A, k + 1)
<1>1. PICK x \in Int, i \in Int, u \in BOOLEAN :
          /\ a = [v |-> x, m |-> i, n |-> u] /\ x = A % p /\ x % p = A % p
          /\ 0 <= i /\ i <= m
  BY ItsForm
<1>2. (-x) % p = (-A) % p
  BY <1>1, SameOpposite
<1>3. fe_negate(a, k) = [v |-> (-x) % p, m |-> k + 1, n |-> FALSE]
  BY <1>1 DEF fe_negate, Fe
<1>4. fe_negate(a, k) = [v |-> (-A) % p, m |-> k + 1, n |-> FALSE]
  BY <1>2, <1>3, Zenon
<1>5. k + 1 \in Int /\ 0 <= k + 1 /\ -A \in Int
  BY <1>1
<1> QED
  BY <1>4, <1>5, Made, Zenon

LEMMA IntIs ==
    ASSUME NEW A \in Int, NEW m \in Int, NEW k \in Int, NEW a,
           Is(a, A, m), 0 <= k, m * k <= 32
    PROVE  Is(mul_int(a, k), A * k, m * k)
<1>1. PICK x \in Int, i \in Int, u \in BOOLEAN :
          /\ a = [v |-> x, m |-> i, n |-> u] /\ x = A % p /\ x % p = A % p
          /\ 0 <= i /\ i <= m
  BY ItsForm
<1>2. (x * k) % p = (A * k) % p
  BY <1>1, SameProduct
<1>3. i * k \in Int /\ 0 <= i * k /\ i * k <= m * k /\ m * k \in Int /\ i * k <= 32
  BY <1>1
<1>4. mul_int(a, k) = [v |-> (x * k) % p, m |-> i * k, n |-> FALSE]
  BY <1>1, <1>3 DEF mul_int, Fe
<1>5. mul_int(a, k) = [v |-> (A * k) % p, m |-> i * k, n |-> FALSE]
  BY <1>2, <1>4, Zenon
<1>6. A * k \in Int
  OBVIOUS
<1>7. Is(mul_int(a, k), A * k, i * k)
  BY <1>3, <1>5, <1>6, Made, Zenon
<1> QED
  BY <1>3, <1>6, <1>7, Also

LEMMA WeakIs ==
    ASSUME NEW A \in Int, NEW m \in Int, NEW a, Is(a, A, m), m <= 32
    PROVE  Is(normalize_weak(a), A, 1)
<1>1. PICK x \in Int, i \in Int, u \in BOOLEAN :
          /\ a = [v |-> x, m |-> i, n |-> u] /\ x = A % p /\ x % p = A % p
          /\ 0 <= i /\ i <= m
  BY ItsForm
<1>2. normalize_weak(a) = [v |-> A % p, m |-> 1, n |-> u]
  <2>1. i <= 32 /\ a.m = i
    BY <1>1
  <2> QED
    BY <1>1, <2>1, Zenon DEF normalize_weak, Sound
<1>3. 1 \in Int /\ 0 <= 1
  OBVIOUS
<1> QED
  BY <1>2, <1>3, FeIs, Zenon

LEMMA NormalIs ==
    ASSUME NEW A \in Int, NEW m \in Int, NEW a, Is(a, A, m), m <= 32
    PROVE  Is(normalize(a), A, 1) /\ normalize(a) = [v |-> A % p, m |-> 1, n |-> TRUE]
<1>1. PICK x \in Int, i \in Int, u \in BOOLEAN :
          /\ a = [v |-> x, m |-> i, n |-> u] /\ x = A % p /\ x % p = A % p
          /\ 0 <= i /\ i <= m
  BY ItsForm
<1>2. normalize(a) = [v |-> A % p, m |-> 1, n |-> TRUE]
  <2>1. i <= 32 /\ a.m = i /\ a.v = x
    BY <1>1
  <2> QED
    BY <1>1, <2>1, Zenon DEF normalize, Sound, Fe
<1>3. 1 \in Int /\ 0 <= 1
  OBVIOUS
<1> QED
  BY <1>2, <1>3, Made, Zenon

LEMMA ZeroIs ==
    ASSUME NEW A \in Int, NEW m \in Int, NEW a, Is(a, A, m)
    PROVE  normalizes_to_zero(a) <=> A % p = 0
  BY ItsValue DEF normalizes_to_zero

LEMMA SetIs ==
    ASSUME NEW k \in Int
    PROVE  Is(set_int(k), k, 1)
<1>1. 1 \in Int /\ 0 <= 1
  OBVIOUS
<1> QED
  BY <1>1, Made, Zenon DEF set_int, Fe

LEMMA ClearIs == Is(fe_clear, 0, 0)
<1>1. 0 \in Int /\ 0 <= 0
  OBVIOUS
<1> QED
  BY <1>1, Made, Zenon DEF fe_clear, Fe

\* Which of the two comes out.
LEMMA CmovIs ==
    ASSUME NEW A \in Int, NEW B \in Int, NEW m \in Int, NEW k \in Int, NEW j \in Int,
           NEW a, NEW b, NEW flag \in BOOLEAN,
           Is(a, A, m), Is(b, B, k), m <= j, k <= j, j <= 32
    PROVE  /\ flag => Is(cmov(a, b, flag), B, j)
           /\ ~flag => Is(cmov(a, b, flag), A, j)
<1>1. PICK x \in Int, i \in Int, u \in BOOLEAN :
          /\ a = [v |-> x, m |-> i, n |-> u] /\ x = A % p /\ x % p = A % p
          /\ 0 <= i /\ i <= m
  BY ItsForm
<1>2. PICK y \in Int, l \in Int, w \in BOOLEAN :
          /\ b = [v |-> y, m |-> l, n |-> w] /\ y = B % p /\ y % p = B % p
          /\ 0 <= l /\ l <= k
  BY ItsForm
<1> DEFINE z == IF flag THEN y ELSE x
<1> DEFINE h == IF l > i THEN l ELSE i
<1>3. h \in Int /\ 0 <= h /\ h <= j /\ z \in Int
  BY <1>1, <1>2
<1>4. i <= 32 /\ l <= 32
  BY <1>1, <1>2
<1>5. (u /\ w) \in BOOLEAN
  OBVIOUS
<1>6. cmov(a, b, flag) = [v |-> z % p, m |-> h, n |-> u /\ w]
  <2>1. a.v = x /\ a.m = i /\ a.n = u /\ b.v = y /\ b.m = l /\ b.n = w
    BY <1>1, <1>2, Zenon
  <2> QED
    BY <1>4, <2>1, Zenon DEF cmov, Sound, Fe
<1> HIDE DEF h
<1>7. ASSUME flag PROVE Is(cmov(a, b, flag), B, j)
  <2>1. cmov(a, b, flag) = [v |-> B % p, m |-> h, n |-> u /\ w]
    BY <1>2, <1>6, <1>7, Zenon
  <2>2. Is(cmov(a, b, flag), B, h)
    BY <1>3, <1>5, <2>1, FeIs, Zenon
  <2> QED
    BY <1>3, <2>2, Also
<1>8. ASSUME ~flag PROVE Is(cmov(a, b, flag), A, j)
  <2>1. cmov(a, b, flag) = [v |-> A % p, m |-> h, n |-> u /\ w]
    BY <1>1, <1>6, <1>8, Zenon
  <2>2. Is(cmov(a, b, flag), A, h)
    BY <1>3, <1>5, <2>1, FeIs, Zenon
  <2> QED
    BY <1>3, <2>2, Also
<1> QED
  BY <1>7, <1>8

\* Numbers differ by nothing if they leave the same.
LEMMA SameDifference ==
    ASSUME NEW a \in Int, NEW b \in Int
    PROVE  ((-a) + b) % p = 0 <=> a % p = b % p
<1>0. p \in Int /\ 0 % p = 0 /\ 0 \in Int
  BY PrimeType
<1>1. ASSUME ((-a) + b) % p = 0
      PROVE  a % p = b % p
  <2>1. ((-a) + b) + a = b /\ 0 + a = a /\ (-a) + b \in Int
    OBVIOUS
  <2>2. (((-a) + b) + a) % p = (0 + a) % p
    BY <1>0, <1>1, <2>1, SameSum
  <2> QED
    BY <2>1, <2>2
<1>2. ASSUME a % p = b % p
      PROVE  ((-a) + b) % p = 0
  <2>1. PICK k \in Int : a = b + k * p
    BY <1>2, Differ
  <2>2. (-a) + b = 0 + (-k) * p /\ -k \in Int /\ (-a) + b \in Int
    BY <1>0, <2>1
  <2> QED
    BY <1>0, <2>2, Same
<1> QED
  BY <1>1, <1>2

LEMMA EqualIs ==
    ASSUME NEW A \in Int, NEW B \in Int, NEW m \in Int, NEW k \in Int, NEW a, NEW b,
           Is(a, A, m), Is(b, B, k), m <= 1, k <= 30
    PROVE  fe_equal(a, b) <=> A % p = B % p
<1>1. Is(fe_negate(a, 1), -A, 1 + 1)
  BY NegateIs
<1>2. Is(fe_negate(a, 1), -A, 2) /\ -A \in Int
  BY <1>1
<1> DEFINE C == -A
<1>3. C \in Int /\ Is(fe_negate(a, 1), C, 2) /\ 2 + k <= 32
  BY <1>2
<1> HIDE DEF C
<1>4. Is(fe_add(fe_negate(a, 1), b), C + B, 2 + k)
  BY <1>3, AddIs
<1>5. C + B \in Int /\ 2 + k \in Int
  BY <1>3
<1>6. fe_equal(a, b) <=> (C + B) % p = 0
  BY <1>4, <1>5, ZeroIs, Zenon DEF fe_equal
<1> QED
  BY <1>6, SameDifference DEF C

LEMMA InverseIs ==
    ASSUME NEW A \in Int, NEW m \in Int, NEW a, Is(a, A, m), m <= 8
    PROVE  \E I \in Int : /\ Is(fe_inv(a), I, 1)
                          /\ A % p # 0 => (A * I) % p = 1
<1>1. PICK r \in Int, i \in Int, u \in BOOLEAN :
          /\ a = [v |-> r, m |-> i, n |-> u] /\ r = A % p /\ r % p = A % p
          /\ 0 <= i /\ i <= m
  BY ItsForm
<1>2. r \in 0 .. p - 1 /\ p - 2 \in Nat
  BY <1>1, ModType, PrimeType
<1> DEFINE I == Power(r, p - 2)
<1>3. I \in Int
  BY <1>2, PowerType
<1>4. fe_inv(a) = [v |-> I % p, m |-> 1, n |-> FALSE]
  <2>1. a.v = r /\ a.m = i /\ i <= 8
    BY <1>1
  <2> QED
    BY <2>1, Zenon DEF fe_inv, Fe
<1>5. A % p # 0 => r \in 1 .. p - 1
  BY <1>1, <1>2, PrimeType
<1>6. A % p # 0 => (r * I) % p = 1
  BY <1>5, PrimeAssumption
<1> HIDE DEF I
<1>7. (A * I) % p = (r * I) % p
  BY <1>1, <1>3, SameProduct
<1>8. 1 \in Int /\ 0 <= 1
  OBVIOUS
<1>9. Is(fe_inv(a), I, 1)
  BY <1>3, <1>4, <1>8, Made, Zenon
<1> QED
  BY <1>3, <1>6, <1>7, <1>9

\* A square root is found if there is one, and is one of the two.
LEMMA RootIs ==
    ASSUME NEW A \in Int, NEW m \in Int, NEW a, Is(a, A, m), m <= 8
    PROVE  \E R \in Int :
             /\ Is(fe_sqrt(a).r, R, 1)
             /\ (fe_sqrt(a).ok <=> (R * R) % p = A % p)
             /\ \A y \in Int : (y * y) % p = A % p => R % p \in {y % p, (-y) % p}
<1>1. PICK r \in Int, i \in Int, u \in BOOLEAN :
          /\ a = [v |-> r, m |-> i, n |-> u] /\ r = A % p /\ r % p = A % p
          /\ 0 <= i /\ i <= m
  BY ItsForm
<1> DEFINE e == (p + 1) \div 4
<1>2. r \in 0 .. p - 1 /\ e \in Nat
  BY <1>1, ModType, PrimeType
<1> HIDE DEF e
<1> DEFINE R == Power(r, e)
<1>3. R \in Int
  BY <1>2, PowerType
<1> DEFINE f == [v |-> R % p, m |-> 1, n |-> FALSE]
<1>4. fe_sqrt(a).r = f /\ (fe_sqrt(a).ok <=> fe_equal(sqr(f), a))
  <2>1. a.v = r /\ a.m = i /\ i <= 8
    BY <1>1
  <2> QED
    BY <2>1, Zenon DEF fe_sqrt, Fe, e
<1>5. ASSUME NEW y \in Int, (y * y) % p = A % p
      PROVE  R % p \in {y % p, (-y) % p}
  <2> DEFINE z == y % p
  <2>1. z \in 0 .. p - 1 /\ z \in Int /\ z % p = y % p
    BY ModType, SameOfSame, PrimeType
  <2> HIDE DEF z
  <2>2. (z * z) % p = (y * y) % p
    BY <2>1, SameProduct
  <2>3. r = (z * z) % p
    BY <1>1, <1>5, <2>2
  <2>4. R \in {z, p - z}
    BY <2>1, <2>3, PrimeAssumption DEF e
  <2>5. (p - z) % p = (-z) % p
    <3>1. p - z = (-z) + 1 * p /\ p - z \in Int /\ -z \in Int
      BY <2>1, PrimeType
    <3> QED
      BY <3>1, Same
  <2>6. (-z) % p = (-y) % p
    BY <2>1, SameOpposite
  <2> HIDE DEF R
  <2> QED
    BY <2>1, <2>4, <2>5, <2>6, Zenon
<1>6. 1 \in Int /\ 0 <= 1 /\ 1 <= 8 /\ 1 <= 1
  OBVIOUS
<1> HIDE DEF R
<1>7. Is(f, R, 1)
  BY <1>3, <1>6, Made, Zenon
<1> HIDE DEF f
<1>8. Is(sqr(f), R * R, 1)
  BY <1>3, <1>7, SqrIs
<1>9. R * R \in Int /\ m <= 30
  BY <1>3
<1>10. fe_equal(sqr(f), a) <=> (R * R) % p = A % p
  BY <1>6, <1>8, <1>9, EqualIs, Zenon
<1> QED
  BY <1>3, <1>4, <1>5, <1>7, <1>10, Zenon

-----------------------------------------------------------------------------
(* The formulas, with l for the slope and M for what the result's z is.    *)

Congruent(a, b) == \E k \in Int : a = b + k * p

LEMMA DoubleX ==
    ASSUME NEW x \in Int, NEW y \in Int, NEW l \in Int, NEW n \in Int, NEW M \in Int,
           NEW T \in Int, NEW X \in Int, NEW Y \in Int, NEW S \in Int,
           X = x * (n * n), Y = y * (n * n * n), M = 2 * y * (n * n * n * n), T = l * M,
           S = ((Y * Y) * 2) * X
    PROVE  (-(S * 4)) + (T * T) = (l * l - x - x) * (M * M)
  OBVIOUS

LEMMA DoubleY ==
    ASSUME NEW x \in Int, NEW y \in Int, NEW l \in Int, NEW n \in Int, NEW M \in Int,
           NEW T \in Int, NEW X \in Int, NEW Y \in Int, NEW S \in Int, NEW V \in Int,
           X = x * (n * n), Y = y * (n * n * n), M = 2 * y * (n * n * n * n), T = l * M,
           S = ((Y * Y) * 2) * X, V = (Y * Y) * 2
    PROVE  T * ((S * 6) + (-(T * T))) + (-((V * V) * 2))
           = (l * (x - (l * l - x - x)) - y) * (M * M * M)
  OBVIOUS

Doubled(x, y, l, n, a, b, c) ==
    \E u, v, w, rzr : \E M \in Int :
        /\ M = 2 * y * (n * n * n * n)
        /\ double_var(Gej(a, b, c, FALSE)) = With(Gej(u, v, w, FALSE), rzr)
        /\ Is(u, (l * l - x - x) * (M * M), 6)
        /\ Is(v, (l * (x - (l * l - x - x)) - y) * (M * M * M), 4)
        /\ Is(w, M, 2) /\ Is(rzr, 2 * y * (n * n * n), 2)

LEMMA DoubleIs ==
    ASSUME NEW x \in Int, NEW y \in Int, NEW l \in Int, NEW n \in Int,
           NEW a, NEW b, NEW c,
           Is(a, x * (n * n), 6), Is(b, y * (n * n * n), 4), Is(c, n, 2),
           Congruent(l * (2 * y), 3 * x * x)
    PROVE  Doubled(x, y, l, n, a, b, c)
<1>1. PICK X \in Int, Y \in Int, M \in Int, T \in Int, S \in Int, V \in Int :
          /\ X = x * (n * n) /\ Y = y * (n * n * n) /\ M = 2 * y * (n * n * n * n)
          /\ T = l * M /\ S = ((Y * Y) * 2) * X /\ V = (Y * Y) * 2
  OBVIOUS
<1>0. PICK k \in Int : l * (2 * y) = 3 * x * x + k * p
  BY DEF Congruent
<1> DEFINE t1 == mul_int(sqr(a), 3)
<1> DEFINE t2 == sqr(t1)
<1> DEFINE yy == mul_int(sqr(b), 2)
<1> DEFINE t4 == mul_int(sqr(yy), 2)
<1> DEFINE t3 == mul(yy, a)
<1> DEFINE u == fe_add(fe_negate(mul_int(t3, 4), 4), t2)
<1> DEFINE d == fe_add(mul_int(t3, 6), fe_negate(t2, 1))
<1> DEFINE v == fe_add(mul(t1, d), fe_negate(t4, 2))
<1> DEFINE w == mul_int(mul(c, b), 2)
<1> DEFINE rzr == mul_int(normalize_weak(b), 2)
<1>2. double_var(Gej(a, b, c, FALSE)) = With(Gej(u, v, w, FALSE), rzr)
  BY Zenon DEF double_var, Gej
<1>3. Is(a, X, 6) /\ Is(b, Y, 4) /\ Is(c, n, 2)
  BY <1>1
<1>4. Is(t1, T, 3)
  <2>1. Is(sqr(a), X * X, 1) /\ X * X \in Int
    BY <1>3, SqrIs
  <2>2. Is(t1, (X * X) * 3, 3) /\ (X * X) * 3 \in Int
    BY <2>1, IntIs
  <2>3. T = (X * X) * 3 + (k * (n * n * n * n)) * p /\ k * (n * n * n * n) \in Int
    BY <1>0, <1>1, PrimeType
  <2>6. ((X * X) * 3) % p = T % p
    BY <2>2, <2>3, Same
  <2> QED
    BY <2>2, <2>6, Also
<1>5. Is(yy, V, 2)
  <2>1. Is(sqr(b), Y * Y, 1) /\ Y * Y \in Int
    BY <1>3, SqrIs
  <2> QED
    BY <1>1, <2>1, IntIs
<1> HIDE DEF t1, yy
<1>6. Is(t2, T * T, 1) /\ T * T \in Int
  BY <1>4, SqrIs
<1>7. Is(t3, S, 1)
  BY <1>1, <1>3, <1>5, MulIs
<1>8. Is(t4, (V * V) * 2, 2) /\ (V * V) * 2 \in Int
  <2>1. Is(sqr(yy), V * V, 1) /\ V * V \in Int
    BY <1>5, SqrIs
  <2> QED
    BY <2>1, IntIs
<1> HIDE DEF t2, t3, t4
<1>9. Is(u, (l * l - x - x) * (M * M), 6)
  <2>1. Is(mul_int(t3, 4), S * 4, 4) /\ S * 4 \in Int
    BY <1>7, IntIs
  <2>2. Is(fe_negate(mul_int(t3, 4), 4), -(S * 4), 5) /\ -(S * 4) \in Int
    BY <2>1, NegateIs
  <2>3. Is(u, (-(S * 4)) + (T * T), 6)
    BY <1>6, <2>2, AddIs
  <2> QED
    BY <1>1, <2>3, DoubleX
<1>10. Is(d, (S * 6) + (-(T * T)), 8) /\ (S * 6) + (-(T * T)) \in Int
  <2>1. Is(mul_int(t3, 6), S * 6, 6) /\ S * 6 \in Int
    BY <1>7, IntIs
  <2>2. Is(fe_negate(t2, 1), -(T * T), 2) /\ -(T * T) \in Int
    BY <1>6, NegateIs
  <2> QED
    BY <2>1, <2>2, AddIs
<1> HIDE DEF d
<1>11. Is(v, (l * (x - (l * l - x - x)) - y) * (M * M * M), 4)
  <2>1. Is(mul(t1, d), T * ((S * 6) + (-(T * T))), 1) /\ T * ((S * 6) + (-(T * T))) \in Int
    BY <1>4, <1>10, MulIs
  <2>2. Is(fe_negate(t4, 2), -((V * V) * 2), 3) /\ -((V * V) * 2) \in Int
    BY <1>8, NegateIs
  <2>3. Is(v, T * ((S * 6) + (-(T * T))) + (-((V * V) * 2)), 4)
    BY <2>1, <2>2, AddIs
  <2> QED
    BY <1>1, <2>3, DoubleY
<1>12. Is(w, M, 2)
  <2>1. Is(mul(c, b), n * Y, 1) /\ n * Y \in Int
    BY <1>3, MulIs
  <2>2. Is(w, (n * Y) * 2, 2) /\ (n * Y) * 2 = M
    BY <1>1, <2>1, IntIs
  <2> QED
    BY <2>2
<1>13. Is(rzr, 2 * y * (n * n * n), 2)
  <2>1. Is(normalize_weak(b), Y, 1)
    BY <1>3, WeakIs
  <2>2. Is(rzr, Y * 2, 2) /\ Y * 2 = 2 * y * (n * n * n)
    BY <1>1, <2>1, IntIs
  <2> QED
    BY <2>2
<1> HIDE DEF u, v, w, rzr
<1> QED
  BY <1>1, <1>2, <1>9, <1>11, <1>12, <1>13, Zenon DEF Doubled

\* H and J are the differences on z, M what the result's z is.
LEMMA ChordX ==
    ASSUME NEW x \in Int, NEW xx \in Int, NEW l \in Int, NEW n \in Int, NEW M \in Int,
           NEW H \in Int, NEW J \in Int, NEW T \in Int,
           H = (xx - x) * (n * n), J = l * (xx - x) * (n * n * n), M = n * H,
           T = (x * (n * n)) * (H * H)
    PROVE  (-((T * 2) + (H * (H * H)))) + (J * J) = (l * l - x - xx) * (M * M)
  OBVIOUS

LEMMA ChordY ==
    ASSUME NEW x \in Int, NEW xx \in Int, NEW y \in Int, NEW l \in Int, NEW n \in Int,
           NEW M \in Int, NEW H \in Int, NEW J \in Int, NEW T \in Int,
           H = (xx - x) * (n * n), J = l * (xx - x) * (n * n * n), M = n * H,
           T = (x * (n * n)) * (H * H)
    PROVE  ((-((l * l - x - xx) * (M * M))) + T) * J + (-((H * (H * H)) * (y * (n * n * n))))
           = (l * (x - (l * l - x - xx)) - y) * (M * M * M)
  OBVIOUS

\* h of Add.
Apart(u1, u2) == fe_add(fe_negate(u1, 1), u2)

LEMMA ApartIs ==
    ASSUME NEW x \in Int, NEW xx \in Int, NEW w \in Int, NEW u1, NEW u2,
           Is(u1, x * w, 1), Is(u2, xx * w, 1)
    PROVE  Is(Apart(u1, u2), (xx - x) * w, 3)
<1>1. PICK U \in Int, V \in Int : U = x * w /\ V = xx * w
  OBVIOUS
<1>2. Is(fe_negate(u1, 1), -U, 2) /\ -U \in Int
  BY <1>1, NegateIs
<1>3. Is(Apart(u1, u2), (-U) + V, 3) /\ (-U) + V = (xx - x) * w
  BY <1>1, <1>2, AddIs DEF Apart
<1> QED
  BY <1>3

Added(x, xx, y, l, n, rzr, sum) ==
    \E u, v, w : \E M \in Int :
        /\ M = n * ((xx - x) * (n * n))
        /\ sum = With(Gej(u, v, w, FALSE), rzr)
        /\ Is(u, (l * l - x - xx) * (M * M), 6)
        /\ Is(v, (l * (x - (l * l - x - xx)) - y) * (M * M * M), 4)
        /\ Is(w, M, 2)

LEMMA ChordIs ==
    ASSUME NEW x \in Int, NEW xx \in Int, NEW y \in Int, NEW yy \in Int, NEW l \in Int,
           NEW n \in Int, NEW A \in Int, NEW R \in Int,
           NEW a, NEW u1, NEW u2, NEW s1, NEW s2, NEW bz, NEW rzr,
           Is(u1, x * (n * n), 1), Is(u2, xx * (n * n), 1),
           Is(s1, y * (n * n * n), 1), Is(s2, yy * (n * n * n), 1),
           Congruent(l * (xx - x), yy - y),
           ((xx - x) * (n * n)) % p # 0,
           Is(a.z, A, 2), Is(rzr, R, 3), A * R = n * ((xx - x) * (n * n)),
           rzr = IF bz = NoZ THEN Apart(u1, u2) ELSE mul(Apart(u1, u2), bz)
    PROVE  Added(x, xx, y, l, n, rzr, Add(a, u1, u2, s1, s2, bz))
<1>1. PICK X \in Int, Y \in Int, H \in Int, J \in Int, T \in Int, M \in Int :
          /\ X = x * (n * n) /\ Y = y * (n * n * n) /\ H = (xx - x) * (n * n)
          /\ J = l * (xx - x) * (n * n * n) /\ T = (x * (n * n)) * (H * H) /\ M = n * H
  OBVIOUS
<1>0. PICK k \in Int : l * (xx - x) = (yy - y) + k * p
  BY DEF Congruent
<1> DEFINE h == Apart(u1, u2)
<1> DEFINE i == Apart(s1, s2)
<1> DEFINE i2 == sqr(i)
<1> DEFINE h2 == sqr(h)
<1> DEFINE h3 == mul(h, h2)
<1> DEFINE t == mul(u1, h2)
<1> DEFINE u == fe_add(fe_negate(fe_add(mul_int(t, 2), h3), 3), i2)
<1> DEFINE v == fe_add(mul(fe_add(fe_negate(u, 5), t), i), fe_negate(mul(h3, s1), 1))
<1> DEFINE w == mul(a.z, rzr)
<1>2. Is(h, H, 3)
  <2>1. PICK W \in Int, D \in Int : W = n * n /\ D = (xx - x) * W
    OBVIOUS
  <2>2. Is(h, D, 3)
    BY <2>1, ApartIs
  <2> QED
    BY <1>1, <2>1, <2>2
<1>3. ~normalizes_to_zero(h)
  BY <1>1, <1>2, ZeroIs
<1>4. Add(a, u1, u2, s1, s2, bz) = With(Gej(u, v, w, FALSE), rzr)
  BY <1>3, Zenon DEF Add, Apart
<1>5. Is(i, J, 3)
  <2>1. PICK W \in Int, D \in Int : W = n * n * n /\ D = (yy - y) * W
    OBVIOUS
  <2>2. Is(i, D, 3)
    BY <2>1, ApartIs
  <2>3. J = D + (k * W) * p /\ k * W \in Int
    BY <1>0, <1>1, <2>1, PrimeType
  <2>4. J % p = D % p
    BY <2>3, Same
  <2> QED
    BY <2>2, <2>4, Also
<1> HIDE DEF h, i
<1>6. Is(i2, J * J, 1) /\ J * J \in Int /\ Is(h2, H * H, 1) /\ H * H \in Int
  BY <1>2, <1>5, SqrIs
<1>7. Is(h3, H * (H * H), 1) /\ H * (H * H) \in Int
  BY <1>2, <1>6, MulIs
<1>8. Is(t, T, 1)
  BY <1>1, <1>6, MulIs
<1> HIDE DEF i2, h2, h3, t
<1>9. Is(u, (-((T * 2) + (H * (H * H)))) + (J * J), 5)
  <2>1. Is(mul_int(t, 2), T * 2, 2) /\ T * 2 \in Int
    BY <1>8, IntIs
  <2>2. Is(fe_add(mul_int(t, 2), h3), (T * 2) + (H * (H * H)), 3)
        /\ (T * 2) + (H * (H * H)) \in Int
    BY <1>7, <2>1, AddIs
  <2>3. Is(fe_negate(fe_add(mul_int(t, 2), h3), 3), -((T * 2) + (H * (H * H))), 4)
        /\ -((T * 2) + (H * (H * H))) \in Int
    BY <2>2, NegateIs
  <2> QED
    BY <1>6, <2>3, AddIs
<1>10. PICK Z \in Int : Z = (l * l - x - xx) * (M * M) /\ Is(u, Z, 5)
  BY <1>1, <1>9, ChordX
<1> HIDE DEF u
<1>11. Is(v, ((-Z) + T) * J + (-((H * (H * H)) * Y)), 4)
  <2>1. Is(fe_negate(u, 5), -Z, 6) /\ -Z \in Int
    BY <1>10, NegateIs
  <2>2. Is(fe_add(fe_negate(u, 5), t), (-Z) + T, 7) /\ (-Z) + T \in Int
    BY <1>8, <2>1, AddIs
  <2>3. Is(mul(fe_add(fe_negate(u, 5), t), i), ((-Z) + T) * J, 1) /\ ((-Z) + T) * J \in Int
    BY <1>5, <2>2, MulIs
  <2>4. Is(mul(h3, s1), (H * (H * H)) * Y, 1) /\ (H * (H * H)) * Y \in Int
    BY <1>1, <1>7, MulIs
  <2>5. Is(fe_negate(mul(h3, s1), 1), -((H * (H * H)) * Y), 2) /\ -((H * (H * H)) * Y) \in Int
    BY <2>4, NegateIs
  <2>6. Is(v, ((-Z) + T) * J + (-((H * (H * H)) * Y)), 3)
    BY <2>3, <2>5, AddIs
  <2> QED
    BY <2>3, <2>5, <2>6, Also
<1>12. Is(v, (l * (x - (l * l - x - xx)) - y) * (M * M * M), 4)
  BY <1>1, <1>10, <1>11, ChordY
<1>13. Is(w, M, 2)
  <2>1. Is(w, A * R, 1) /\ A * R \in Int
    BY MulIs
  <2> QED
    BY <1>1, <2>1, Also
<1>14. Is(u, (l * l - x - xx) * (M * M), 6)
  BY <1>10, Also
<1> HIDE DEF v, w
<1>15. M = n * ((xx - x) * (n * n))
  BY <1>1
<1> QED
  BY <1>4, <1>12, <1>13, <1>14, <1>15, Zenon DEF Added

-----------------------------------------------------------------------------
(* The points of the curve                                                 *)

LEMMA CurveType == CURVE_B \in Int /\ 1 <= CURVE_B /\ CURVE_B <= 31
  BY CurveAssumption

LEMMA PointIs ==
    ASSUME NEW s \in Points
    PROVE  \E x \in Int, y \in Int, k \in Int :
               /\ s = [x |-> x, y |-> y] /\ 0 <= x /\ x < p /\ 0 <= y /\ y < p
               /\ y * y = x * x * x + CURVE_B + k * p
<1>1. PICK x \in Int, y \in Int :
          /\ s = [x |-> x, y |-> y] /\ x \in 0 .. p - 1 /\ y \in 0 .. p - 1
          /\ (y * y) % p = (x * x * x + CURVE_B) % p
  BY PrimeType DEF Points
<1>2. y * y \in Int /\ x * x * x + CURVE_B \in Int
  BY CurveType
<1>3. PICK k \in Int : y * y = x * x * x + CURVE_B + k * p
  BY <1>1, <1>2, Differ
<1>4. 0 <= x /\ x < p /\ 0 <= y /\ y < p
  BY <1>1, PrimeType
<1> QED
  BY <1>1, <1>3, <1>4, Zenon

LEMMA IsPoint ==
    ASSUME NEW x \in Int, NEW y \in Int, NEW k \in Int, y * y = x * x * x + CURVE_B + k * p
    PROVE  [x |-> x % p, y |-> y % p] \in Points
<1>1. PICK X \in Int, Y \in Int :
          /\ X = x % p /\ Y = y % p /\ X \in 0 .. p - 1 /\ Y \in 0 .. p - 1
          /\ X % p = x % p /\ Y % p = y % p
  BY ModType, SameOfSame
<1>2. PICK i \in Int : X = x + i * p
  BY <1>1, Differ
<1>3. PICK j \in Int : Y = y + j * p
  BY <1>1, Differ
<1>4. PICK B \in Int, P \in Int : B = CURVE_B /\ P = p
  BY CurveType, PrimeType
<1>5. PICK c \in Int : c = k + 2 * y * j + j * j * P
                 - (3 * x * x * i + 3 * x * i * i * P + i * i * i * P * P)
  OBVIOUS
<1>6. Y * Y = (X * X * X + B) + c * P
  BY <1>2, <1>3, <1>4, <1>5
<1>7. Y * Y = (X * X * X + CURVE_B) + c * p /\ Y * Y \in Int /\ X * X * X + CURVE_B \in Int
  BY <1>4, <1>6
<1>8. (Y * Y) % p = (X * X * X + CURVE_B) % p
  BY <1>7, Same
<1> QED
  BY <1>1, <1>8 DEF Points

LEMMA NoInfinity ==
    ASSUME NEW s \in Points
    PROVE  s # Infinity /\ s.x \in Int /\ s.y \in Int /\ s = [x |-> s.x, y |-> s.y]
<1>1. PICK x \in Int, y \in Int, k \in Int :
               /\ s = [x |-> x, y |-> y] /\ 0 <= x /\ x < p /\ 0 <= y /\ y < p
               /\ y * y = x * x * x + CURVE_B + k * p
  BY PointIs
<1> QED
  BY <1>1 DEF Infinity

\* No point is its own opposite.
LEMMA NoHalf ==
    ASSUME NEW s \in Points
    PROVE  s.y # 0
<1>1. PICK x \in Int, y \in Int, k \in Int :
               /\ s = [x |-> x, y |-> y] /\ 0 <= x /\ x < p /\ 0 <= y /\ y < p
               /\ y * y = x * x * x + CURVE_B + k * p
  BY PointIs
<1> SUFFICES ASSUME y = 0 PROVE FALSE
  BY <1>1
<1>2. PICK e \in Int, j \in Int : e = x * x * x + CURVE_B /\ e = j * p
  <2>1. x * x * x + CURVE_B = (-k) * p /\ -k \in Int /\ x * x * x + CURVE_B \in Int
    BY <1>1, CurveType, PrimeType
  <2> QED
    BY <2>1
<1>3. e % p = 0
  BY <1>2, NoRest
<1>4. x \in 0 .. p - 1
  BY <1>1, PrimeType
<1> QED
  BY <1>2, <1>3, <1>4, CurveAssumption

LEMMA OppositeIs ==
    ASSUME NEW s \in Points
    PROVE  /\ Opposite(s) = [x |-> s.x, y |-> p - s.y] /\ Opposite(s) \in Points
           /\ Opposite(s) # s /\ Opposite(Opposite(s)) = s
<1>1. PICK x \in Int, y \in Int, k \in Int :
               /\ s = [x |-> x, y |-> y] /\ 0 <= x /\ x < p /\ 0 <= y /\ y < p
               /\ y * y = x * x * x + CURVE_B + k * p
  BY PointIs
<1>2. y # 0 /\ s # Infinity
  BY <1>1, NoHalf, NoInfinity
<1>3. (p - y) % p = p - y /\ p - y \in Int /\ 0 <= p - y /\ p - y < p /\ x % p = x
  BY <1>1, <1>2, PrimeType
<1>4. Opposite(s) = [x |-> x, y |-> p - y]
  BY <1>1, <1>2, <1>3 DEF Opposite
<1>5. PICK q \in Int : q = p - y
  BY <1>3
<1>6. q * q = x * x * x + CURVE_B + (k + p - 2 * y) * p /\ k + p - 2 * y \in Int
  BY <1>1, <1>5, PrimeType, CurveType
<1>7. [x |-> x % p, y |-> q % p] \in Points
  BY <1>6, IsPoint
<1>8. Opposite(s) \in Points
  BY <1>3, <1>4, <1>5, <1>7
<1>9. p - y # y
  BY PrimeType, CurveAssumption, <1>1
<1>10. Opposite(Opposite(s)) = s
  <2>1. Opposite(s) # Infinity
    BY <1>8, NoInfinity
  <2>2. p - (p - y) = y /\ y % p = y
    BY <1>1, PrimeType
  <2> QED
    BY <1>1, <1>4, <2>1, <2>2 DEF Opposite
<1> QED
  BY <1>1, <1>4, <1>8, <1>9, <1>10

\* Points with the same x are equal or opposite.
LEMMA SameX1 ==
    ASSUME NEW s \in Points, NEW t \in Points, s.x = t.x, t # s
    PROVE  t = Opposite(s)
<1>1. PICK x \in Int, y \in Int, k \in Int :
               /\ s = [x |-> x, y |-> y] /\ 0 <= x /\ x < p /\ 0 <= y /\ y < p
               /\ y * y = x * x * x + CURVE_B + k * p
  BY PointIs
<1>2. PICK v \in Int, j \in Int :
               /\ t = [x |-> x, y |-> v] /\ 0 <= v /\ v < p
               /\ v * v = x * x * x + CURVE_B + j * p
  <2>1. PICK u \in Int, v \in Int, j \in Int :
               /\ t = [x |-> u, y |-> v] /\ 0 <= u /\ u < p /\ 0 <= v /\ v < p
               /\ v * v = u * u * u + CURVE_B + j * p
    BY PointIs
  <2>2. u = x
    BY <1>1, <2>1
  <2> QED
    BY <2>1, <2>2, Zenon
<1>3. (y - v) * (y + v) = (k - j) * p /\ k - j \in Int /\ (y - v) * (y + v) \in Int
  BY <1>1, <1>2, PrimeType, CurveType
<1>4. ((y - v) * (y + v)) % p = 0
  <2>1. PICK e \in Int, i \in Int : e = (y - v) * (y + v) /\ e = i * p
    BY <1>3
  <2>2. e % p = 0
    BY <2>1, NoRest
  <2> QED
    BY <2>1, <2>2
<1>5. (y - v) % p # 0
  <2> SUFFICES ASSUME (y - v) % p = 0 PROVE FALSE
    OBVIOUS
  <2>1. y # v
    BY <1>1, <1>2
  <2> QED
    BY <1>1, <1>2, <2>1, PrimeType
<1>6. (y + v) % p = 0
  BY <1>4, <1>5, NoZeroProduct
<1>7. y + v = p
  <2>1. y + v < 2 * p /\ y # 0
    BY <1>1, <1>2, NoHalf, PrimeType
  <2>2. 0 < y + v
    BY <1>1, <1>2, <2>1
  <2>3. PICK q \in Int : y + v = q * p + 0
    BY <1>6, Quotient
  <2>4. q = 1
    BY <2>1, <2>2, <2>3, PrimeType
  <2> QED
    BY <2>3, <2>4, PrimeType
<1> QED
  BY <1>1, <1>2, <1>7, OppositeIs

-----------------------------------------------------------------------------
(* The law                                                                 *)

Over(d) == CHOOSE k \in 1 .. p - 1 : (k * d) % p = 1

Slope(s, t) ==
    IF s = t THEN (3 * s.x * s.x * Over((2 * s.y) % p)) % p
    ELSE ((t.y - s.y) * Over((t.x - s.x) % p)) % p

LEMMA PlusBy ==
    ASSUME NEW s \in Points, NEW t \in Points, t # Opposite(s)
    PROVE  LET l == Slope(s, t)
               x == (l * l - s.x - t.x) % p
           IN  Plus(s, t) = [x |-> x, y |-> (l * (s.x - x) - s.y) % p]
<1>1. s # Infinity /\ t # Infinity
  BY NoInfinity
<1> QED
  BY <1>1, Zenon DEF Plus, Slope, Over

LEMMA OverIs ==
    ASSUME NEW d \in Int, d % p # 0
    PROVE  \E k \in Int, j \in Int : Over(d % p) = k /\ k * d = 1 + j * p
<1>1. PICK r \in Int : r = d % p /\ r % p = d % p
  BY SameOfSame
<1>2. PICK w \in 1 .. p - 1 : (r * w) % p = 1
  BY <1>1, HasInverse
<1>3. w * r = r * w
  BY PrimeType
<1>4. \E k \in 1 .. p - 1 : (k * r) % p = 1
  BY <1>2, <1>3
<1> DEFINE k == Over(r)
<1>5. k \in 1 .. p - 1 /\ (k * r) % p = 1
  BY <1>4, Zenon DEF Over
<1> HIDE DEF k
<1>6. PICK c \in Int : c = k
  BY <1>5, PrimeType
<1>7. PICK i \in Int : r = d + i * p
  BY <1>1, Differ
<1>8. PICK q \in Int : c * r = q * p + 1
  BY <1>5, <1>6, Quotient
<1>9. PICK j \in Int : j = q - c * i
  BY <1>6
<1>10. c * d = 1 + j * p
  BY <1>7, <1>8, <1>9, PrimeType
<1> QED
  BY <1>1, <1>6, <1>10 DEF k

LEMMA SlopeIs ==
    ASSUME NEW s \in Points, NEW t \in Points, t # Opposite(s)
    PROVE  \E l \in Int, k \in Int, j \in Int :
               /\ Slope(s, t) = l
               /\ l * (t.x - s.x) = (t.y - s.y) + k * p
               /\ l * (s.y + t.y) = (s.x * s.x + s.x * t.x + t.x * t.x) + j * p
<1>1. PICK x \in Int, y \in Int, c \in Int :
               /\ s = [x |-> x, y |-> y] /\ 0 <= x /\ x < p /\ 0 <= y /\ y < p
               /\ y * y = x * x * x + CURVE_B + c * p
  BY PointIs
<1>2. PICK u \in Int, v \in Int, e \in Int :
               /\ t = [x |-> u, y |-> v] /\ 0 <= u /\ u < p /\ 0 <= v /\ v < p
               /\ v * v = u * u * u + CURVE_B + e * p
  BY PointIs
<1>3. CASE s = t
  <2>1. PICK d \in Int : d = 2 * y
    OBVIOUS
  <2>2. d % p # 0
    <3>1. y # 0
      BY <1>1, NoHalf
    <3>2. SUFFICES ASSUME d % p = 0 PROVE FALSE
      OBVIOUS
    <3>3. PICK q \in Int : d = q * p + 0
      BY <3>2, Quotient
    <3>4. q = 1
      BY <1>1, <2>1, <3>1, <3>3, PrimeType
    <3> QED
      BY <2>1, <3>3, <3>4, PrimeType, CurveAssumption
  <2>3. PICK k \in Int, j \in Int : Over(d % p) = k /\ k * d = 1 + j * p
    BY <2>2, OverIs
  <2>4. PICK f \in Int, l \in Int : f = 3 * x * x * k /\ l = f % p /\ l % p = f % p
    BY SameOfSame
  <2>5. Slope(s, t) = l
    BY <1>1, <1>3, <2>1, <2>3, <2>4 DEF Slope
  <2>6. PICK i \in Int : l = f + i * p
    BY <2>4, Differ
  <2>7. PICK h \in Int : h = 3 * x * x * j + i * d
    OBVIOUS
  <2>8. l * d = 3 * x * x + h * p
    BY <2>3, <2>4, <2>6, <2>7, PrimeType
  <2>9. u = x /\ v = y
    BY <1>1, <1>2, <1>3
  <2>10. /\ l * (u - x) = (v - y) + 0 * p
         /\ l * (y + v) = (x * x + x * u + u * u) + h * p
    BY <2>1, <2>8, <2>9, PrimeType
  <2> QED
    BY <1>1, <1>2, <2>5, <2>10
<1>4. CASE s # t
  <2>1. PICK d \in Int : d = u - x
    OBVIOUS
  <2>2. u # x
    BY <1>1, <1>2, <1>4, SameX1
  <2>3. d % p # 0
    <3>1. SUFFICES ASSUME d % p = 0 PROVE FALSE
      OBVIOUS
    <3>2. PICK q \in Int : d = q * p + 0
      BY <3>1, Quotient
    <3>3. q = 0
      BY <1>1, <1>2, <2>1, <3>2, PrimeType
    <3> QED
      BY <2>1, <2>2, <3>2, <3>3, PrimeType
  <2>4. PICK k \in Int, j \in Int : Over(d % p) = k /\ k * d = 1 + j * p
    BY <2>3, OverIs
  <2>5. PICK f \in Int, l \in Int : f = (v - y) * k /\ l = f % p /\ l % p = f % p
    BY SameOfSame
  <2>6. Slope(s, t) = l
    BY <1>1, <1>2, <1>4, <2>1, <2>4, <2>5 DEF Slope
  <2>7. PICK i \in Int : l = f + i * p
    BY <2>5, Differ
  <2>8. PICK h \in Int : h = (v - y) * j + i * d
    OBVIOUS
  <2>9. l * d = (v - y) + h * p
    BY <2>4, <2>5, <2>7, <2>8, PrimeType
  <2>10. PICK L \in Int, R \in Int, g \in Int :
           /\ L = l * (y + v) /\ R = x * x + x * u + u * u
           /\ g = h * (y + v) + e - c
    OBVIOUS
  <2>11. L * d = R * d + g * p
    <3>1. PICK B \in Int, P \in Int : B = CURVE_B /\ P = p
      BY CurveType, PrimeType
    <3>2. /\ l * d = (v - y) + h * P /\ v * v = u * u * u + B + e * P
          /\ y * y = x * x * x + B + c * P
      BY <1>1, <1>2, <2>9, <3>1
    <3>3. L * d = (l * d) * (y + v)
      BY <2>10
    <3>4. L * d = (v * v - y * y) + (h * (y + v)) * P
      BY <3>2, <3>3
    <3>5. v * v - y * y = R * d + (e - c) * P
      BY <3>2, <2>1, <2>10
    <3> QED
      BY <2>10, <3>1, <3>4, <3>5
  <2>12. L * d \in Int /\ R * d \in Int
    OBVIOUS
  <2>13. (L * d) % p = (R * d) % p
    BY <2>11, <2>12, Same
  <2>14. L % p = R % p
    BY <2>3, <2>13, Cancel
  <2>15. PICK z \in Int : L = R + z * p
    BY <2>14, Differ
  <2> QED
    BY <1>1, <1>2, <2>1, <2>6, <2>9, <2>10, <2>15
<1> QED
  BY <1>3, <1>4

\* The sum in integers.
LEMMA PlusIs ==
    ASSUME NEW s \in Points, NEW t \in Points, t # Opposite(s)
    PROVE  \E l \in Int, k \in Int, j \in Int :
               /\ l * (t.x - s.x) = (t.y - s.y) + k * p
               /\ l * (s.y + t.y) = (s.x * s.x + s.x * t.x + t.x * t.x) + j * p
               /\ Plus(s, t) = [x |-> (l * l - s.x - t.x) % p,
                                y |-> (l * (s.x - (l * l - s.x - t.x)) - s.y) % p]
               /\ Plus(s, t) \in Points
<1>1. PICK x \in Int, y \in Int, c \in Int :
               /\ s = [x |-> x, y |-> y] /\ 0 <= x /\ x < p /\ 0 <= y /\ y < p
               /\ y * y = x * x * x + CURVE_B + c * p
  BY PointIs
<1>2. PICK u \in Int, v \in Int, e \in Int :
               /\ t = [x |-> u, y |-> v] /\ 0 <= u /\ u < p /\ 0 <= v /\ v < p
               /\ v * v = u * u * u + CURVE_B + e * p
  BY PointIs
<1>3. PICK l \in Int, k \in Int, j \in Int :
               /\ Slope(s, t) = l
               /\ l * (u - x) = (v - y) + k * p
               /\ l * (y + v) = (x * x + x * u + u * u) + j * p
  BY <1>1, <1>2, SlopeIs
<1>4. PICK X \in Int, Y \in Int : X = l * l - x - u /\ Y = l * (x - X) - y
  OBVIOUS
<1>5. PICK w \in Int : w = X % p /\ w % p = X % p
  BY SameOfSame
<1>6. Plus(s, t) = [x |-> w, y |-> (l * (x - w) - y) % p]
  <2>1. s.x = x /\ s.y = y /\ t.x = u /\ w = (l * l - x - u) % p
    BY <1>1, <1>2, <1>4, <1>5
  <2> QED
    BY <1>3, <2>1, PlusBy, Zenon
<1>7. (l * (x - w) - y) % p = Y % p
  <2>1. PICK i \in Int : w = X + i * p
    BY <1>5, Differ
  <2>2. PICK q \in Int, h \in Int : q = l * (x - w) - y /\ h = -(l * i)
    OBVIOUS
  <2>3. q = Y + h * p
    BY <1>4, <2>1, <2>2, PrimeType
  <2>4. q % p = Y % p
    BY <2>3, Same
  <2> QED
    BY <2>2, <2>4
<1>8. Plus(s, t) = [x |-> X % p, y |-> Y % p]
  BY <1>5, <1>6, <1>7, Zenon
<1>9. Plus(s, t) \in Points
  <2>1. PICK B \in Int, P \in Int : B = CURVE_B /\ P = p
    BY CurveType, PrimeType
  <2>2. /\ l * (u - x) = (v - y) + k * P /\ l * (y + v) = (x * x + x * u + u * u) + j * P
        /\ y * y = x * x * x + B + c * P
    BY <1>1, <1>3, <2>1
  <2>3. PICK E \in Int : E = 2 * l * y + l * l * (u - x) - (x * x + x * u + u * u)
    OBVIOUS
  <2>4. Y * Y - (X * X * X + B) = (y * y - (x * x * x + B)) + (X - x) * E
    BY <1>4, <2>3
  <2>5. E = (l * k + j) * P
    <3>1. l * l * (u - x) = l * ((v - y) + k * P)
      BY <2>2
    <3> QED
      BY <2>2, <2>3, <3>1
  <2>6. PICK h \in Int : h = c + (X - x) * (l * k + j)
    OBVIOUS
  <2>7. Y * Y = X * X * X + B + h * P
    <3>1. (X - x) * E = (X - x) * (l * k + j) * P
      BY <2>5
    <3> QED
      BY <2>2, <2>4, <2>6, <3>1
  <2>8. Y * Y = X * X * X + CURVE_B + h * p
    BY <2>1, <2>7
  <2> QED
    BY <1>8, <2>8, IsPoint
<1>10. s.x = x /\ s.y = y /\ t.x = u /\ t.y = v
  BY <1>1, <1>2
<1> QED
  BY <1>3, <1>4, <1>8, <1>9, <1>10, Zenon

-----------------------------------------------------------------------------
(* The operations on points, and the points they give                      *)

Finite(a, t, n) ==
    \E u, v, w : /\ a = Gej(u, v, w, FALSE)
                 /\ Is(u, t.x * (n * n), 6) /\ Is(v, t.y * (n * n * n), 4) /\ Is(w, n, 2)

AtInfinity(a) ==
    \E u, v, w : /\ a = Gej(u, v, w, TRUE)
                 /\ \E A \in Int, B \in Int, C \in Int : Is(u, A, 6) /\ Is(v, B, 4) /\ Is(w, C, 2)

\* a stands for t, with the magnitudes that the operations leave.
Stands(a, t) ==
    \/ t = Infinity /\ AtInfinity(a)
    \/ t \in Points /\ \E n \in Int : n % p # 0 /\ Finite(a, t, n)

\* The ratio, where one is told.
RatioIs(a, w) ==
    a.inf \/ w.r.inf \/ ~Sound(w.rzr) \/ w.r.z.v = (a.z.v * w.rzr.v) % p

LEMMA Parts ==
    ASSUME NEW u, NEW v, NEW w, NEW i
    PROVE  /\ Gej(u, v, w, i).x = u /\ Gej(u, v, w, i).y = v /\ Gej(u, v, w, i).z = w
           /\ Gej(u, v, w, i).inf = i
           /\ With(u, v).r = u /\ With(u, v).rzr = v
  BY DEF Gej, With

LEMMA ScaleIs ==
    ASSUME NEW A \in Int, NEW B \in Int, NEW w \in Int, NEW m \in Int, NEW u,
           Is(u, A * w, m), B = A % p
    PROVE  Is(u, B * w, m)
<1>1. B % p = A % p
  BY SameOfSame
<1>2. (A * w) % p = (B * w) % p
  <2>1. PICK k \in Int : A = B + k * p
    BY <1>1, Differ
  <2>2. PICK c \in Int, d \in Int, e \in Int : c = A * w /\ d = B * w /\ e = k * w
    OBVIOUS
  <2>3. c = d + e * p
    <3>1. PICK P \in Int : P = p
      BY PrimeType
    <3>2. A * w = (B + k * P) * w
      BY <2>1, <3>1
    <3> QED
      BY <2>2, <3>1, <3>2
  <2>4. c % p = d % p
    BY <2>3, Same
  <2> QED
    BY <2>2, <2>4
<1>3. A * w \in Int /\ B * w \in Int /\ m <= m
  OBVIOUS
<1> QED
  BY <1>2, <1>3, Also

LEMMA FiniteStands ==
    ASSUME NEW X \in Int, NEW Y \in Int, NEW M \in Int, NEW u, NEW v, NEW w, NEW r \in Points,
           r = [x |-> X % p, y |-> Y % p], M % p # 0,
           Is(u, X * (M * M), 6), Is(v, Y * (M * M * M), 4), Is(w, M, 2)
    PROVE  Stands(Gej(u, v, w, FALSE), r)
<1>1. PICK x \in Int, y \in Int : x = X % p /\ y = Y % p
  BY SameOfSame
<1>2. r.x = x /\ r.y = y
  BY <1>1
<1>3. PICK w2 \in Int, w3 \in Int : w2 = M * M /\ w3 = M * M * M
  OBVIOUS
<1>4. Is(u, X * w2, 6) /\ Is(v, Y * w3, 4)
  BY <1>3
<1>5. Is(u, x * w2, 6) /\ Is(v, y * w3, 4)
  <2>1. 6 \in Int /\ 4 \in Int /\ X \in Int /\ x \in Int /\ Y \in Int /\ y \in Int
        /\ w2 \in Int /\ w3 \in Int
    OBVIOUS
  <2> QED
    BY <1>1, <1>4, <2>1, ScaleIs, Zenon
<1>6. Is(u, r.x * (M * M), 6) /\ Is(v, r.y * (M * M * M), 4)
  BY <1>2, <1>3, <1>5, Zenon
<1> QED
  BY <1>6, Zenon DEF Stands, Finite

LEMMA ProductIs ==
    ASSUME NEW A \in Int, NEW B \in Int, NEW C \in Int, NEW m \in Int, NEW j \in Int,
           NEW k \in Int, NEW a, NEW b, NEW c,
           Is(a, A, m), Is(b, B, j), Is(c, C, k), C = A * B
    PROVE  c.v = (a.v * b.v) % p
<1>1. PICK x \in Int, y \in Int, z \in Int :
          a.v = x /\ b.v = y /\ c.v = z /\ x % p = A % p /\ y % p = B % p /\ z = C % p
  BY ItsValue
<1>2. (x * y) % p = (A * B) % p
  BY <1>1, SameProduct
<1> QED
  BY <1>1, <1>2

LEMMA DoubleStands ==
    ASSUME NEW a, NEW t, Stands(a, t)
    PROVE  Stands(double_var(a).r, Plus(t, t)) /\ RatioIs(a, double_var(a))
<1>1. CASE t = Infinity /\ AtInfinity(a)
  <2>1. a.inf
    <3>1. PICK u, v, w : a = Gej(u, v, w, TRUE)
      BY <1>1, Zenon DEF AtInfinity
    <3> QED
      BY <3>1 DEF Gej
  <2>2. double_var(a) = With(a, set_int(1))
    BY <2>1, Zenon DEF double_var
  <2>3. Plus(t, t) = Infinity
    BY <1>1, Zenon DEF Plus
  <2>4. double_var(a).r = a
    BY <2>2 DEF With
  <2> QED
    BY <1>1, <2>1, <2>3, <2>4, Zenon DEF Stands, RatioIs
<1>2. CASE t \in Points /\ \E n \in Int : n % p # 0 /\ Finite(a, t, n)
  <2>0. t \in Points
    BY <1>2
  <2>1. PICK n \in Int : n % p # 0 /\ Finite(a, t, n)
    BY <1>2
  <2>2. PICK u, v, w : /\ a = Gej(u, v, w, FALSE)
                 /\ Is(u, t.x * (n * n), 6) /\ Is(v, t.y * (n * n * n), 4) /\ Is(w, n, 2)
    BY <2>1, Zenon DEF Finite
  <2>3. PICK x \in Int, y \in Int : t.x = x /\ t.y = y /\ y # 0 /\ 0 <= y /\ y < p
    BY <1>2, PointIs, NoHalf
  <2>4. t # Opposite(t)
    BY <1>2, OppositeIs
  <2>5. PICK l \in Int, k \in Int, j \in Int :
          /\ l * (y + y) = (x * x + x * x + x * x) + j * p
          /\ Plus(t, t) = [x |-> (l * l - x - x) % p, y |-> (l * (x - (l * l - x - x)) - y) % p]
          /\ Plus(t, t) \in Points
    <3>1. \A s \in Points, q \in Points : q # Opposite(s) =>
              \E l \in Int, k \in Int, j \in Int :
               /\ l * (q.x - s.x) = (q.y - s.y) + k * p
               /\ l * (s.y + q.y) = (s.x * s.x + s.x * q.x + q.x * q.x) + j * p
               /\ Plus(s, q) = [x |-> (l * l - s.x - q.x) % p,
                                y |-> (l * (s.x - (l * l - s.x - q.x)) - s.y) % p]
               /\ Plus(s, q) \in Points
      BY PlusIs
    <3> QED
      BY <2>0, <2>3, <2>4, <3>1, Zenon
  <2>6. Congruent(l * (2 * y), 3 * x * x)
    <3>1. l * (2 * y) = 3 * x * x + j * p
      BY <2>5, PrimeType
    <3> QED
      BY <3>1 DEF Congruent
  <2>7. Is(u, x * (n * n), 6) /\ Is(v, y * (n * n * n), 4) /\ Is(w, n, 2)
    BY <2>2, <2>3, Zenon
  <2>8a. Doubled(x, y, l, n, u, v, w)
    <3>1. x \in Int /\ y \in Int /\ l \in Int /\ n \in Int
      OBVIOUS
    <3> QED
      BY <2>6, <2>7, <3>1, DoubleIs, Zenon
  <2>8_1. PICK u1, v1, w1, rzr : \E M \in Int :
             /\ M = 2 * y * (n * n * n * n)
             /\ double_var(Gej(u, v, w, FALSE)) = With(Gej(u1, v1, w1, FALSE), rzr)
             /\ Is(u1, (l * l - x - x) * (M * M), 6)
             /\ Is(v1, (l * (x - (l * l - x - x)) - y) * (M * M * M), 4)
             /\ Is(w1, M, 2) /\ Is(rzr, 2 * y * (n * n * n), 2)
    BY <2>8a, Zenon DEF Doubled
  <2>8. PICK M \in Int :
             /\ M = 2 * y * (n * n * n * n)
             /\ double_var(Gej(u, v, w, FALSE)) = With(Gej(u1, v1, w1, FALSE), rzr)
             /\ Is(u1, (l * l - x - x) * (M * M), 6)
             /\ Is(v1, (l * (x - (l * l - x - x)) - y) * (M * M * M), 4)
             /\ Is(w1, M, 2) /\ Is(rzr, 2 * y * (n * n * n), 2)
    BY <2>8_1, Zenon
  <2>9. M % p # 0
    <3>1. y % p # 0 /\ 2 % p # 0
      BY <2>3, PrimeType
    <3>2. PICK n2 \in Int, n4 \in Int, y2 \in Int : n2 = n * n /\ n4 = n2 * n2 /\ y2 = 2 * y
      OBVIOUS
    <3>3. n2 % p # 0
      BY <2>1, <3>2, NoZeroProduct
    <3>4. n4 % p # 0
      BY <3>2, <3>3, NoZeroProduct
    <3>5. y2 % p # 0
      BY <3>1, <3>2, NoZeroProduct
    <3>6. M = y2 * n4
      BY <2>8, <3>2
    <3> QED
      BY <3>4, <3>5, <3>6, NoZeroProduct
  <2>10. PICK X \in Int, Y \in Int : X = l * l - x - x /\ Y = l * (x - X) - y
    OBVIOUS
  <2>11. Plus(t, t) = [x |-> X % p, y |-> Y % p] /\ Is(u1, X * (M * M), 6) /\ Is(v1, Y * (M * M * M), 4)
    BY <2>5, <2>8, <2>10, Zenon
  <2>12. Stands(Gej(u1, v1, w1, FALSE), Plus(t, t))
    BY <2>5, <2>8, <2>9, <2>11, FiniteStands, Zenon
  <2>13. w1.v = (w.v * rzr.v) % p
    <3>1. PICK R \in Int : R = 2 * y * (n * n * n)
      OBVIOUS
    <3>2. M = n * R
      BY <2>8, <3>1
    <3> QED
      BY <2>7, <2>8, <3>1, <3>2, ProductIs
  <2>14. double_var(a).r = Gej(u1, v1, w1, FALSE) /\ double_var(a).rzr = rzr
    <3>1. double_var(a) = With(Gej(u1, v1, w1, FALSE), rzr)
      BY <2>2, <2>8, Zenon
    <3>2. With(Gej(u1, v1, w1, FALSE), rzr).r = Gej(u1, v1, w1, FALSE)
          /\ With(Gej(u1, v1, w1, FALSE), rzr).rzr = rzr
      BY Zenon DEF With
    <3> QED
      BY <3>1, <3>2, Zenon
  <2>15. double_var(a).r.z = w1 /\ a.z = w
    <3>1. Gej(u1, v1, w1, FALSE).z = w1 /\ Gej(u, v, w, FALSE).z = w
      BY Zenon DEF Gej
    <3> QED
      BY <2>2, <2>14, <3>1, Zenon
  <2> QED
    BY <2>12, <2>13, <2>14, <2>15, Zenon DEF RatioIs
<1> QED
  BY <1>1, <1>2, Zenon DEF Stands

\* The coordinates of two points on one z.
Common(s, t, n, u1, u2, s1, s2) ==
    /\ Is(u1, s.x * (n * n), 1) /\ Is(u2, t.x * (n * n), 1)
    /\ Is(s1, s.y * (n * n * n), 1) /\ Is(s2, t.y * (n * n * n), 1)

\* From the one's z, with the other's.
Brought(A, bz, n) == \/ bz = NoZ /\ n = A
                     \/ bz # NoZ /\ \E B \in Int : Is(bz, B, 2) /\ n = A * B

LEMMA ApartZero ==
    ASSUME NEW x \in Int, NEW y \in Int, NEW w \in Int, NEW u, NEW v, w % p # 0,
           Is(u, x * w, 1), Is(v, y * w, 1), 0 <= x, x < p, 0 <= y, y < p
    PROVE  /\ normalizes_to_zero(Apart(u, v)) <=> x = y
           /\ x # y => ((y - x) * w) % p # 0
<1>1. PICK d \in Int, e \in Int : d = y - x /\ e = d * w
  OBVIOUS
<1>2. Is(Apart(u, v), e, 3)
  <2>1. Is(Apart(u, v), (y - x) * w, 3)
    BY ApartIs, Zenon
  <2> QED
    BY <1>1, <2>1, Zenon
<1>3. normalizes_to_zero(Apart(u, v)) <=> e % p = 0
  BY <1>2, ZeroIs
<1>4. x = y => e = 0 * p
  BY <1>1, PrimeType
<1>5. x = y => e % p = 0
  BY <1>4, NoRest
<1>6. x # y => d % p # 0
  <2>1. SUFFICES ASSUME x # y, d % p = 0 PROVE FALSE
    OBVIOUS
  <2>2. PICK q \in Int : d = q * p + 0
    BY <2>1, Quotient
  <2>3. q = 0
    BY <1>1, <2>2, PrimeType
  <2> QED
    BY <1>1, <2>1, <2>2, <2>3, PrimeType
<1>7. x # y => e % p # 0
  BY <1>1, <1>6, NoZeroProduct
<1> QED
  BY <1>1, <1>3, <1>5, <1>7

LEMMA NotNoZ ==
    ASSUME NEW B \in Int, NEW b, Is(b, B, 2)
    PROVE  b # NoZ
<1>1. PICK m \in Int : b.m = m /\ m <= 2
  BY ItsValue
<1>2. NoZ.m = 99
  BY DEF NoZ, Broken
<1> QED
  BY <1>1, <1>2

LEMMA OtherFlag ==
    ASSUME NEW u, NEW v, NEW w, NEW i, NEW j
    PROVE  [Gej(u, v, w, i) EXCEPT !.inf = j] = Gej(u, v, w, j)
  BY DEF Gej

LEMMA AddStands ==
    ASSUME NEW A \in Int, NEW n \in Int, NEW a, NEW s \in Points, NEW t \in Points,
           NEW u1, NEW u2, NEW s1, NEW s2, NEW bz,
           A % p # 0, n % p # 0, Finite(a, s, A), Common(s, t, n, u1, u2, s1, s2),
           Brought(A, bz, n)
    PROVE  /\ Stands(Add(a, u1, u2, s1, s2, bz).r, Plus(s, t))
           /\ RatioIs(a, Add(a, u1, u2, s1, s2, bz))
<1>1. PICK x \in Int, y \in Int, c \in Int :
               /\ s = [x |-> x, y |-> y] /\ 0 <= x /\ x < p /\ 0 <= y /\ y < p
               /\ y * y = x * x * x + CURVE_B + c * p
  BY PointIs
<1>2. PICK xx \in Int, yy \in Int, e \in Int :
               /\ t = [x |-> xx, y |-> yy] /\ 0 <= xx /\ xx < p /\ 0 <= yy /\ yy < p
               /\ yy * yy = xx * xx * xx + CURVE_B + e * p
  BY PointIs
<1>3. s.x = x /\ s.y = y /\ t.x = xx /\ t.y = yy
  BY <1>1, <1>2
<1>4. /\ Is(u1, x * (n * n), 1) /\ Is(u2, xx * (n * n), 1)
      /\ Is(s1, y * (n * n * n), 1) /\ Is(s2, yy * (n * n * n), 1)
  BY <1>3, Zenon DEF Common
<1>5. PICK n2 \in Int, n3 \in Int : n2 = n * n /\ n3 = n * n * n
  OBVIOUS
<1>6. n2 % p # 0 /\ n3 % p # 0
  <2>1. n2 % p # 0
    BY <1>5, NoZeroProduct
  <2>2. n3 = n2 * n
    BY <1>5
  <2> QED
    BY <2>1, <2>2, NoZeroProduct
<1>7. /\ normalizes_to_zero(Apart(u1, u2)) <=> x = xx
      /\ x # xx => ((xx - x) * n2) % p # 0
  BY <1>1, <1>2, <1>4, <1>5, <1>6, ApartZero, Zenon
<1>8. normalizes_to_zero(Apart(s1, s2)) <=> y = yy
  BY <1>1, <1>2, <1>4, <1>5, <1>6, ApartZero, Zenon
<1>9. PICK u, v, w : /\ a = Gej(u, v, w, FALSE)
                     /\ Is(u, s.x * (A * A), 6) /\ Is(v, s.y * (A * A * A), 4) /\ Is(w, A, 2)
  BY Zenon DEF Finite
<1> DEFINE sum == Add(a, u1, u2, s1, s2, bz)
<1>10. CASE x = xx /\ y = yy
  <2>1. sum = double_var(a)
    BY <1>7, <1>8, <1>10, Zenon DEF Add, Apart
  <2>2. s = t
    BY <1>1, <1>2, <1>10
  <2>3. Stands(a, s)
    BY Zenon DEF Stands
  <2> QED
    BY <2>1, <2>2, <2>3, DoubleStands, Zenon
<1>11. CASE x = xx /\ y # yy
  <2>1. sum = With([a EXCEPT !.inf = TRUE], set_int(0))
    BY <1>7, <1>8, <1>11, Zenon DEF Add, Apart
  <2>2. [a EXCEPT !.inf = TRUE] = Gej(u, v, w, TRUE)
    <3>1. [Gej(u, v, w, FALSE) EXCEPT !.inf = TRUE] = Gej(u, v, w, TRUE)
      <4>1. \A i, j : [Gej(u, v, w, i) EXCEPT !.inf = j] = Gej(u, v, w, j)
        BY OtherFlag, Zenon
      <4> QED
        BY <4>1, Zenon
    <3> QED
      BY <1>9, <3>1, Zenon
  <2>3. sum.r = Gej(u, v, w, TRUE)
    <3>1. With(Gej(u, v, w, TRUE), set_int(0)).r = Gej(u, v, w, TRUE)
      BY Zenon DEF With
    <3> QED
      BY <2>1, <2>2, <3>1, Zenon
  <2>4. Gej(u, v, w, TRUE).inf
    BY DEF Gej
  <2>5. t = Opposite(s)
    <3>1. s.x = t.x /\ t # s
      BY <1>3, <1>11
    <3> QED
      BY <3>1, SameX1
  <2>6. Plus(s, t) = Infinity
    <3>1. s # Infinity /\ t # Infinity
      BY NoInfinity
    <3> QED
      BY <2>5, <3>1, Zenon DEF Plus
  <2>7. AtInfinity(Gej(u, v, w, TRUE))
    <3>1. s.x * (A * A) \in Int /\ s.y * (A * A * A) \in Int
      BY <1>3
    <3> QED
      BY <1>9, <3>1, Zenon DEF AtInfinity
  <2> QED
    BY <2>3, <2>4, <2>6, <2>7, Zenon DEF Stands, RatioIs
<1>12. CASE x # xx
  <2>1. t # Opposite(s)
    <3>1. Opposite(s) = [x |-> s.x, y |-> p - s.y]
      BY OppositeIs
    <3> QED
      BY <1>3, <1>12, <3>1
  <2>2. PICK l \in Int, k \in Int :
          /\ l * (xx - x) = (yy - y) + k * p
          /\ Plus(s, t) = [x |-> (l * l - x - xx) % p,
                           y |-> (l * (x - (l * l - x - xx)) - y) % p]
          /\ Plus(s, t) \in Points
    <3>1. PICK l \in Int, k \in Int, j \in Int :
               /\ l * (t.x - s.x) = (t.y - s.y) + k * p
               /\ l * (s.y + t.y) = (s.x * s.x + s.x * t.x + t.x * t.x) + j * p
               /\ Plus(s, t) = [x |-> (l * l - s.x - t.x) % p,
                                y |-> (l * (s.x - (l * l - s.x - t.x)) - s.y) % p]
               /\ Plus(s, t) \in Points
      BY <2>1, PlusIs, Zenon
    <3> QED
      BY <1>3, <3>1, Zenon
  <2>3. Congruent(l * (xx - x), yy - y)
    BY <2>2, Zenon DEF Congruent
  <2> DEFINE h == Apart(u1, u2)
  <2> DEFINE rzr == IF bz = NoZ THEN h ELSE mul(h, bz)
  <2>4. PICK H \in Int : H = (xx - x) * (n * n)
    OBVIOUS
  <2>5. Is(h, H, 3)
    <3>1. Is(Apart(u1, u2), (xx - x) * n2, 3)
      BY <1>4, <1>5, ApartIs, Zenon
    <3> QED
      BY <1>5, <2>4, <3>1, Zenon
  <2>6. \E R \in Int : Is(rzr, R, 3) /\ A * R = n * ((xx - x) * (n * n))
    <3>1. CASE bz = NoZ
      <4>1. rzr = h /\ n = A
        BY <3>1, Zenon DEF Brought
      <4> QED
        BY <2>4, <2>5, <4>1, Zenon
    <3>2. CASE bz # NoZ
      <4>1. rzr = mul(h, bz)
        BY <3>2, Zenon
      <4>2. PICK B \in Int : Is(bz, B, 2) /\ n = A * B
        BY <3>2, Zenon DEF Brought
      <4>3. Is(mul(h, bz), H * B, 1) /\ H * B \in Int
        BY <2>5, <4>2, MulIs
      <4>4. Is(mul(h, bz), H * B, 3)
        BY <4>3, Also
      <4>5. A * (H * B) = n * H
        BY <4>2
      <4> QED
        BY <2>4, <4>1, <4>3, <4>4, <4>5, Zenon
    <3> QED
      BY <3>1, <3>2
  <2>7. PICK R \in Int : Is(rzr, R, 3) /\ A * R = n * ((xx - x) * (n * n))
    BY <2>6
  <2>8. Is(a.z, A, 2) /\ a.z = w
    <3>1. Gej(u, v, w, FALSE).z = w
      BY Zenon DEF Gej
    <3> QED
      BY <1>9, <3>1, Zenon
  <2>9. ((xx - x) * (n * n)) % p # 0
    BY <1>5, <1>7, <1>12, Zenon
  <2> HIDE DEF rzr
  <2>10. Added(x, xx, y, l, n, rzr, sum)
    <3>1. rzr = IF bz = NoZ THEN Apart(u1, u2) ELSE mul(Apart(u1, u2), bz)
      BY DEF rzr
    <3> QED
      BY <1>4, <2>3, <2>7, <2>8, <2>9, <3>1, ChordIs, Zenon
  <2>11_1. PICK u0, v0, w0 : \E M \in Int :
        /\ M = n * ((xx - x) * (n * n))
        /\ sum = With(Gej(u0, v0, w0, FALSE), rzr)
        /\ Is(u0, (l * l - x - xx) * (M * M), 6)
        /\ Is(v0, (l * (x - (l * l - x - xx)) - y) * (M * M * M), 4)
        /\ Is(w0, M, 2)
    BY <2>10, Zenon DEF Added
  <2>11. PICK M \in Int :
        /\ M = n * ((xx - x) * (n * n))
        /\ sum = With(Gej(u0, v0, w0, FALSE), rzr)
        /\ Is(u0, (l * l - x - xx) * (M * M), 6)
        /\ Is(v0, (l * (x - (l * l - x - xx)) - y) * (M * M * M), 4)
        /\ Is(w0, M, 2)
    BY <2>11_1, Zenon
  <2>12. M % p # 0
    <3>1. M = n * H /\ H % p # 0
      BY <2>4, <2>9, <2>11
    <3> QED
      BY <3>1, NoZeroProduct
  <2>13. PICK X \in Int, Y \in Int : X = l * l - x - xx /\ Y = l * (x - X) - y
    OBVIOUS
  <2>14. Plus(s, t) = [x |-> X % p, y |-> Y % p] /\ Is(u0, X * (M * M), 6) /\ Is(v0, Y * (M * M * M), 4)
    BY <2>2, <2>11, <2>13, Zenon
  <2>15. Stands(Gej(u0, v0, w0, FALSE), Plus(s, t))
    BY <2>2, <2>11, <2>12, <2>14, FiniteStands, Zenon
  <2>16. w0.v = (w.v * rzr.v) % p
    <3>1. M = A * R
      BY <2>7, <2>11
    <3>2. Is(w, A, 2) /\ Is(rzr, R, 3) /\ Is(w0, M, 2)
      BY <1>9, <2>7, <2>11
    <3> QED
      BY <3>1, <3>2, ProductIs
  <2>17. sum.r = Gej(u0, v0, w0, FALSE) /\ sum.rzr = rzr
    <3>1. With(Gej(u0, v0, w0, FALSE), rzr).r = Gej(u0, v0, w0, FALSE)
          /\ With(Gej(u0, v0, w0, FALSE), rzr).rzr = rzr
      BY Zenon DEF With
    <3> QED
      BY <2>11, <3>1, Zenon
  <2>18. sum.r.z = w0
    <3>1. Gej(u0, v0, w0, FALSE).z = w0
      BY Zenon DEF Gej
    <3> QED
      BY <2>17, <3>1, Zenon
  <2> QED
    BY <2>8, <2>15, <2>16, <2>17, <2>18, Zenon DEF RatioIs
<1> QED
  BY <1>10, <1>11, <1>12

-----------------------------------------------------------------------------
(* Every operation gives what the law does.                                *)

\* An affine point.
StandsGe(b, t) ==
    \/ /\ t = Infinity
       /\ \E u, v : /\ b = Ge(u, v, TRUE)
                    /\ \E A \in Int, B \in Int : Is(u, A, 6) /\ Is(v, B, 4)
    \/ t \in Points /\ \E u, v : b = Ge(u, v, FALSE) /\ Is(u, t.x, 6) /\ Is(v, t.y, 4)

Form(a, t, n, x, y, u, v, w) ==
    /\ t = [x |-> x, y |-> y] /\ 0 <= x /\ x < p /\ 0 <= y /\ y < p
    /\ t.x = x /\ t.y = y
    /\ n % p # 0 /\ Finite(a, t, n) /\ a = Gej(u, v, w, FALSE)
    /\ Is(u, x * (n * n), 6) /\ Is(v, y * (n * n * n), 4) /\ Is(w, n, 2)
    /\ a.x = u /\ a.y = v /\ a.z = w /\ ~a.inf

LEMMA FiniteForm ==
    ASSUME NEW a, NEW t \in Points, Stands(a, t)
    PROVE  \E u, v, w : \E n \in Int, x \in Int, y \in Int :
                                                         Form(a, t, n, x, y, u, v, w)
<1>1. PICK x \in Int, y \in Int :
          t = [x |-> x, y |-> y] /\ 0 <= x /\ x < p /\ 0 <= y /\ y < p
  BY PointIs
<1>2. t.x = x /\ t.y = y
  BY <1>1
<1>3. PICK n \in Int : n % p # 0 /\ Finite(a, t, n)
  BY NoInfinity, Zenon DEF Stands
<1>4. PICK u, v, w : /\ a = Gej(u, v, w, FALSE)
                 /\ Is(u, t.x * (n * n), 6) /\ Is(v, t.y * (n * n * n), 4) /\ Is(w, n, 2)
  BY <1>3, Zenon DEF Finite
<1>5. a.x = u /\ a.y = v /\ a.z = w /\ ~a.inf
  <2>1. a = [x |-> u, y |-> v, z |-> w, inf |-> FALSE]
    BY <1>4, Zenon DEF Gej
  <2> QED
    BY <2>1
<1> QED
  BY <1>1, <1>2, <1>3, <1>4, <1>5, Zenon DEF Form

LEMMA InfinityForm ==
    ASSUME NEW a, Stands(a, Infinity)
    PROVE  a.inf /\ AtInfinity(a)
<1>1. AtInfinity(a)
  BY NoInfinity, Zenon DEF Stands
<1>2. PICK u, v, w : a = Gej(u, v, w, TRUE)
  BY <1>1, Zenon DEF AtInfinity
<1> QED
  BY <1>1, <1>2 DEF Gej

LEMMA StandsForOne ==
    ASSUME NEW a, NEW t, Stands(a, t)
    PROVE  (t = Infinity /\ a.inf) \/ (t \in Points /\ t # Infinity /\ ~a.inf)
<1>1. CASE t = Infinity
  BY <1>1, InfinityForm, Zenon
<1>2. CASE t # Infinity
  <2>1. t \in Points
    BY <1>2, Zenon DEF Stands
  <2> QED
    <3>1_1. PICK u, v, w : \E n \in Int, x \in Int, y \in Int :
                                                          Form(a, t, n, x, y, u, v, w)
      BY <2>1, FiniteForm, Zenon
    <3>1. PICK n \in Int, x \in Int, y \in Int :
                                                          Form(a, t, n, x, y, u, v, w)
      BY <3>1_1, Zenon
    <3> QED
      BY <1>2, <2>1, <3>1, Zenon DEF Form
<1> QED
  BY <1>1, <1>2

AffineForm(b, t, x, y, u, v) ==
    /\ t = [x |-> x, y |-> y] /\ 0 <= x /\ x < p /\ 0 <= y /\ y < p
    /\ t.x = x /\ t.y = y /\ b = Ge(u, v, FALSE) /\ Is(u, x, 6) /\ Is(v, y, 4)
    /\ b.x = u /\ b.y = v /\ ~b.inf

LEMMA GeForm ==
    ASSUME NEW b, NEW t \in Points, StandsGe(b, t)
    PROVE  \E u, v : \E x \in Int, y \in Int :
                                           AffineForm(b, t, x, y, u, v)
<1>1. PICK x \in Int, y \in Int :
          t = [x |-> x, y |-> y] /\ 0 <= x /\ x < p /\ 0 <= y /\ y < p
  BY PointIs
<1>2. t.x = x /\ t.y = y
  BY <1>1
<1>3. PICK u, v : b = Ge(u, v, FALSE) /\ Is(u, t.x, 6) /\ Is(v, t.y, 4)
  BY NoInfinity, Zenon DEF StandsGe
<1>4. b.x = u /\ b.y = v /\ ~b.inf
  <2>1. b = [x |-> u, y |-> v, inf |-> FALSE]
    BY <1>3, Zenon DEF Ge
  <2> QED
    BY <2>1
<1> QED
  BY <1>1, <1>2, <1>3, <1>4, Zenon DEF AffineForm

LEMMA GeInfinityForm ==
    ASSUME NEW b, StandsGe(b, Infinity)
    PROVE  /\ b.inf
           /\ \E A \in Int, B \in Int : Is(b.x, A, 6) /\ Is(b.y, B, 4)
<1>1. PICK u, v : /\ b = Ge(u, v, TRUE)
                  /\ \E A \in Int, B \in Int : Is(u, A, 6) /\ Is(v, B, 4)
  BY NoInfinity, Zenon DEF StandsGe
<1>2. b.x = u /\ b.y = v /\ b.inf
  <2>1. b = [x |-> u, y |-> v, inf |-> TRUE]
    BY <1>1, Zenon DEF Ge
  <2> QED
    BY <2>1
<1> QED
  BY <1>1, <1>2, Zenon

LEMMA OneMore ==
    ASSUME NEW A \in Int, NEW m \in Int, NEW u, Is(u, A, m)
    PROVE  (u.v * set_int(1).v) % p = u.v
<1>1. PICK x \in Int : u.v = x /\ x % p = x
  BY ItsValue, SameOfSame
<1>2. set_int(1).v = 1
  BY PrimeType DEF set_int, Fe
<1> QED
  BY <1>1, <1>2

\* mul by a square, and by a cube.
LEMMA TimesSquare ==
    ASSUME NEW A \in Int, NEW B \in Int, NEW m \in Int, NEW k \in Int, NEW a, NEW b,
           Is(a, A, m), Is(b, B, k), m <= 8, k <= 8
    PROVE  /\ Is(mul(a, sqr(b)), A * (B * B), 1)
           /\ Is(mul(mul(a, sqr(b)), b), (A * (B * B)) * B, 1)
<1>1. Is(sqr(b), B * B, 1) /\ B * B \in Int
  BY SqrIs
<1>2. Is(mul(a, sqr(b)), A * (B * B), 1) /\ A * (B * B) \in Int
  BY <1>1, MulIs
<1>3. Is(mul(mul(a, sqr(b)), b), (A * (B * B)) * B, 1)
  BY <1>2, MulIs
<1> QED
  BY <1>2, <1>3

LEMMA RatioOne ==
    ASSUME NEW a, NEW t \in Points, Stands(a, t)
    PROVE  a.z.v = (a.z.v * set_int(1).v) % p
<1>1_1. PICK u, v, w : \E n \in Int, x \in Int, y \in Int :
                                                      Form(a, t, n, x, y, u, v, w)
  BY FiniteForm, Zenon
<1>1. PICK n \in Int, x \in Int, y \in Int :
                                                      Form(a, t, n, x, y, u, v, w)
  BY <1>1_1, Zenon
<1>2. Is(w, n, 2) /\ a.z = w
  BY <1>1, Zenon DEF Form
<1>3. (w.v * set_int(1).v) % p = w.v
  BY <1>2, OneMore
<1> QED
  BY <1>2, <1>3, Zenon

LEMMA AddVarStands ==
    ASSUME NEW a, NEW b, NEW s, NEW t, Stands(a, s), Stands(b, t)
    PROVE  Stands(add_var(a, b).r, Plus(s, t)) /\ RatioIs(a, add_var(a, b))
<1>1. CASE s = Infinity
  <2>1. a.inf
    BY <1>1, InfinityForm, Zenon
  <2>2. add_var(a, b).r = b
    <3>1. add_var(a, b) = With(b, Broken)
      BY <2>1, Zenon DEF add_var
    <3> QED
      BY <3>1 DEF With
  <2>3. Plus(s, t) = t
    BY <1>1, Zenon DEF Plus
  <2> QED
    BY <2>1, <2>2, <2>3, Zenon DEF RatioIs
<1>2. CASE s # Infinity /\ t = Infinity
  <2>1. b.inf /\ ~a.inf /\ s \in Points
    BY <1>2, StandsForOne, Zenon
  <2>2. add_var(a, b).r = a /\ add_var(a, b).rzr = set_int(1)
    <3>1. add_var(a, b) = With(a, set_int(1))
      BY <2>1, Zenon DEF add_var
    <3> QED
      BY <3>1 DEF With
  <2>3. Plus(s, t) = s
    BY <1>2, Zenon DEF Plus
  <2>5. a.z.v = (a.z.v * set_int(1).v) % p
    BY <2>1, RatioOne, Zenon
  <2> QED
    BY <2>1, <2>2, <2>3, <2>5, Zenon DEF RatioIs
<1>3. CASE s # Infinity /\ t # Infinity
  <2>1. s \in Points /\ t \in Points /\ ~a.inf /\ ~b.inf
    BY <1>3, StandsForOne, Zenon
  <2>a_1. PICK u, v, w : \E A \in Int, x \in Int, y \in Int :
                                                        Form(a, s, A, x, y, u, v, w)
    BY <2>1, FiniteForm, Zenon
  <2>a. PICK A \in Int, x \in Int, y \in Int :
                                                        Form(a, s, A, x, y, u, v, w)
    BY <2>a_1, Zenon
  <2>b_1. PICK uu, vv, ww : \E B \in Int, xx \in Int, yy \in Int :
                                                             Form(b, t, B, xx, yy, uu, vv, ww)
    BY <2>1, FiniteForm, Zenon
  <2>b. PICK B \in Int, xx \in Int, yy \in Int :
                                                             Form(b, t, B, xx, yy, uu, vv, ww)
    BY <2>b_1, Zenon
  <2>2. /\ s.x = x /\ s.y = y
        /\ A % p # 0 /\ Finite(a, s, A)
        /\ Is(u, x * (A * A), 6) /\ Is(v, y * (A * A * A), 4) /\ Is(w, A, 2)
        /\ a.x = u /\ a.y = v /\ a.z = w
    BY <2>a, Zenon DEF Form
  <2>3. /\ t.x = xx /\ t.y = yy
        /\ B % p # 0
        /\ Is(uu, xx * (B * B), 6) /\ Is(vv, yy * (B * B * B), 4) /\ Is(ww, B, 2)
        /\ b.x = uu /\ b.y = vv /\ b.z = ww
    BY <2>b, Zenon DEF Form
  <2>4. PICK n \in Int, X \in Int, Y \in Int, XX \in Int, YY \in Int :
          /\ n = A * B /\ X = x * (A * A) /\ Y = y * (A * A * A)
          /\ XX = xx * (B * B) /\ YY = yy * (B * B * B)
    OBVIOUS
  <2>5. Is(u, X, 6) /\ Is(v, Y, 4) /\ Is(w, A, 2) /\ Is(uu, XX, 6) /\ Is(vv, YY, 4) /\ Is(ww, B, 2)
    BY <2>2, <2>3, <2>4
  <2>6. /\ Is(mul(u, sqr(ww)), X * (B * B), 1) /\ Is(mul(mul(v, sqr(ww)), ww), (Y * (B * B)) * B, 1)
        /\ Is(mul(uu, sqr(w)), XX * (A * A), 1)
        /\ Is(mul(mul(vv, sqr(w)), w), (YY * (A * A)) * A, 1)
    BY <2>5, TimesSquare
  <2>7. /\ X * (B * B) = x * (n * n) /\ (Y * (B * B)) * B = y * (n * n * n)
        /\ XX * (A * A) = xx * (n * n) /\ (YY * (A * A)) * A = yy * (n * n * n)
    BY <2>4
  <2>8. Common(s, t, n, mul(u, sqr(ww)), mul(uu, sqr(w)),
               mul(mul(v, sqr(ww)), ww), mul(mul(vv, sqr(w)), w))
    BY <2>2, <2>3, <2>6, <2>7, Zenon DEF Common
  <2>9. Brought(A, ww, n)
    <3>1. ww # NoZ
      BY <2>5, NotNoZ
    <3> QED
      BY <2>4, <2>5, <3>1, Zenon DEF Brought
  <2>10. n % p # 0
    BY <2>2, <2>3, <2>4, NoZeroProduct
  <2>11. add_var(a, b) = Add(a, mul(u, sqr(ww)), mul(uu, sqr(w)),
               mul(mul(v, sqr(ww)), ww), mul(mul(vv, sqr(w)), w), ww)
    BY <2>1, <2>2, <2>3, Zenon DEF add_var
  <2> QED
    <3>1. n \in Int /\ A \in Int
      OBVIOUS
    <3>2. /\ Stands(Add(a, mul(u, sqr(ww)), mul(uu, sqr(w)),
               mul(mul(v, sqr(ww)), ww), mul(mul(vv, sqr(w)), w), ww).r, Plus(s, t))
          /\ RatioIs(a, Add(a, mul(u, sqr(ww)), mul(uu, sqr(w)),
               mul(mul(v, sqr(ww)), ww), mul(mul(vv, sqr(w)), w), ww))
      BY <2>1, <2>2, <2>8, <2>9, <2>10, <3>1, AddStands, Zenon
    <3> QED
      BY <2>11, <3>2, Zenon
<1> QED
  BY <1>1, <1>2, <1>3

LEMMA SetGeStands ==
    ASSUME NEW b, NEW t, StandsGe(b, t)
    PROVE  Stands(set_ge(b), t)
<1>0. Is(set_int(1), 1, 1) /\ Is(set_int(1), 1, 2) /\ 1 \in Int
  BY SetIs, Also
<1>1. CASE t = Infinity
  <2>1. PICK u, v : /\ b = Ge(u, v, TRUE)
                    /\ \E A \in Int, B \in Int : Is(u, A, 6) /\ Is(v, B, 4)
    BY <1>1, NoInfinity, Zenon DEF StandsGe
  <2>2. b.x = u /\ b.y = v /\ b.inf = TRUE
    <3>1. b = [x |-> u, y |-> v, inf |-> TRUE]
      BY <2>1, Zenon DEF Ge
    <3> QED
      BY <3>1, Zenon
  <2>3. set_ge(b) = Gej(u, v, set_int(1), TRUE)
    BY <2>2, Zenon DEF set_ge
  <2> QED
    BY <1>0, <1>1, <2>1, <2>3, Zenon DEF Stands, AtInfinity
<1>2. CASE t # Infinity
  <2>0. t \in Points
    BY <1>2, Zenon DEF StandsGe
  <2>1_1. PICK u, v : \E x \in Int, y \in Int :
                                          AffineForm(b, t, x, y, u, v)
    BY <2>0, GeForm, Zenon
  <2>1. PICK x \in Int, y \in Int :
                                          AffineForm(b, t, x, y, u, v)
    BY <2>1_1, Zenon
  <2>2. /\ t.x = x /\ t.y = y /\ b = Ge(u, v, FALSE) /\ Is(u, x, 6) /\ Is(v, y, 4)
        /\ b.x = u /\ b.y = v
    BY <2>1, Zenon DEF AffineForm
  <2>3. b.inf = FALSE
    <3>1. b = [x |-> u, y |-> v, inf |-> FALSE]
      BY <2>2, Zenon DEF Ge
    <3> QED
      BY <3>1, Zenon
  <2>4. set_ge(b) = Gej(u, v, set_int(1), FALSE)
    BY <2>2, <2>3, Zenon DEF set_ge
  <2>5. x * (1 * 1) = x /\ y * (1 * 1 * 1) = y
    OBVIOUS
  <2>6. Finite(set_ge(b), t, 1)
    BY <1>0, <2>2, <2>4, <2>5, Zenon DEF Finite
  <2>7. 1 % p # 0
    BY PrimeType
  <2> QED
    BY <1>0, <2>0, <2>6, <2>7, Zenon DEF Stands
<1> QED
  BY <1>1, <1>2

LEMMA AddGeVarStands ==
    ASSUME NEW a, NEW b, NEW s, NEW t, Stands(a, s), StandsGe(b, t)
    PROVE  Stands(add_ge_var(a, b).r, Plus(s, t)) /\ RatioIs(a, add_ge_var(a, b))
<1>1. CASE s = Infinity
  <2>1. a.inf
    BY <1>1, InfinityForm, Zenon
  <2>2. add_ge_var(a, b).r = set_ge(b)
    <3>1. add_ge_var(a, b) = With(set_ge(b), Broken)
      BY <2>1, Zenon DEF add_ge_var
    <3> QED
      BY <3>1 DEF With
  <2>3. Plus(s, t) = t
    BY <1>1, Zenon DEF Plus
  <2> QED
    BY <2>1, <2>2, <2>3, SetGeStands, Zenon DEF RatioIs
<1>2. CASE s # Infinity /\ t = Infinity
  <2>1. b.inf /\ ~a.inf /\ s \in Points
    BY <1>2, StandsForOne, GeInfinityForm, Zenon
  <2>2. add_ge_var(a, b).r = a /\ add_ge_var(a, b).rzr = set_int(1)
    <3>1. add_ge_var(a, b) = With(a, set_int(1))
      BY <2>1, Zenon DEF add_ge_var
    <3> QED
      BY <3>1 DEF With
  <2>3. Plus(s, t) = s
    BY <1>2, Zenon DEF Plus
  <2>5. a.z.v = (a.z.v * set_int(1).v) % p
    BY <2>1, RatioOne, Zenon
  <2> QED
    BY <2>1, <2>2, <2>3, <2>5, Zenon DEF RatioIs
<1>3. CASE s # Infinity /\ t # Infinity
  <2>1. s \in Points /\ t \in Points /\ ~a.inf
    BY <1>3, StandsForOne, Zenon DEF StandsGe
  <2>a_1. PICK u, v, w : \E A \in Int, x \in Int, y \in Int :
                                                        Form(a, s, A, x, y, u, v, w)
    BY <2>1, FiniteForm, Zenon
  <2>a. PICK A \in Int, x \in Int, y \in Int :
                                                        Form(a, s, A, x, y, u, v, w)
    BY <2>a_1, Zenon
  <2>b_1. PICK uu, vv : \E xx \in Int, yy \in Int :
                                              AffineForm(b, t, xx, yy, uu, vv)
    BY <2>1, GeForm, Zenon
  <2>b. PICK xx \in Int, yy \in Int :
                                              AffineForm(b, t, xx, yy, uu, vv)
    BY <2>b_1, Zenon
  <2>2. /\ s.x = x /\ s.y = y
        /\ A % p # 0 /\ Finite(a, s, A)
        /\ Is(u, x * (A * A), 6) /\ Is(v, y * (A * A * A), 4) /\ Is(w, A, 2)
        /\ a.x = u /\ a.y = v /\ a.z = w
    BY <2>a, Zenon DEF Form
  <2>3. /\ t.x = xx /\ t.y = yy /\ Is(uu, xx, 6) /\ Is(vv, yy, 4)
        /\ b.x = uu /\ b.y = vv /\ ~b.inf
    BY <2>b, Zenon DEF AffineForm
  <2>4. PICK X \in Int, Y \in Int : X = x * (A * A) /\ Y = y * (A * A * A)
    OBVIOUS
  <2>5. Is(u, X, 6) /\ Is(v, Y, 4) /\ Is(w, A, 2)
    BY <2>2, <2>4
  <2>6. /\ Is(normalize_weak(u), X, 1) /\ Is(normalize_weak(v), Y, 1)
        /\ Is(mul(uu, sqr(w)), xx * (A * A), 1)
        /\ Is(mul(mul(vv, sqr(w)), w), (yy * (A * A)) * A, 1)
    BY <2>3, <2>5, TimesSquare, WeakIs
  <2>7. (yy * (A * A)) * A = yy * (A * A * A)
    OBVIOUS
  <2>8. Common(s, t, A, normalize_weak(u), mul(uu, sqr(w)),
               normalize_weak(v), mul(mul(vv, sqr(w)), w))
    BY <2>2, <2>3, <2>4, <2>6, <2>7, Zenon DEF Common
  <2>9. Brought(A, NoZ, A) /\ A \in Int
    BY Zenon DEF Brought
  <2>11. add_ge_var(a, b) = Add(a, normalize_weak(u), mul(uu, sqr(w)),
               normalize_weak(v), mul(mul(vv, sqr(w)), w), NoZ)
    BY <2>1, <2>2, <2>3, Zenon DEF add_ge_var
  <2>12. /\ Stands(Add(a, normalize_weak(u), mul(uu, sqr(w)),
               normalize_weak(v), mul(mul(vv, sqr(w)), w), NoZ).r, Plus(s, t))
         /\ RatioIs(a, Add(a, normalize_weak(u), mul(uu, sqr(w)),
               normalize_weak(v), mul(mul(vv, sqr(w)), w), NoZ))
    <3>1. A % p # 0 /\ Finite(a, s, A) /\ A \in Int
      BY <2>2
    <3> QED
      BY <2>1, <2>8, <2>9, <3>1, AddStands, Zenon
  <2> QED
    BY <2>11, <2>12, Zenon
<1> QED
  BY <1>1, <1>2, <1>3

LEMMA OppositeType ==
    ASSUME NEW s, s \in Points \/ s = Infinity
    PROVE  Opposite(s) \in Points \/ Opposite(s) = Infinity
<1>1. CASE s = Infinity
  BY <1>1, Zenon DEF Opposite
<1>2. CASE s \in Points
  BY <1>2, OppositeIs
<1> QED
  BY <1>1, <1>2

LEMMA NegatedParts ==
    ASSUME NEW u, NEW v, NEW w, NEW i
    PROVE  gej_neg(Gej(u, v, w, i)) = Gej(u, fe_negate(normalize_weak(v), 1), w, i)
  BY DEF gej_neg, Gej

LEMMA NegatedIs ==
    ASSUME NEW A \in Int, NEW v, Is(v, A, 4)
    PROVE  Is(fe_negate(normalize_weak(v), 1), -A, 4)
<1>1. Is(normalize_weak(v), A, 1)
  BY WeakIs
<1>2. Is(fe_negate(normalize_weak(v), 1), -A, 2) /\ -A \in Int
  BY <1>1, NegateIs
<1> QED
  BY <1>2, Also

LEMMA NegateStands ==
    ASSUME NEW a, NEW s, Stands(a, s)
    PROVE  Stands(gej_neg(a), Opposite(s)) /\ gej_neg(a).inf = a.inf /\ gej_neg(a).z = a.z
<1>1. CASE s = Infinity
  <2>1. PICK u, v, w : /\ a = Gej(u, v, w, TRUE)
                 /\ \E A \in Int, B \in Int, C \in Int : Is(u, A, 6) /\ Is(v, B, 4) /\ Is(w, C, 2)
    BY <1>1, InfinityForm, Zenon DEF AtInfinity
  <2>2. PICK A \in Int, B \in Int, C \in Int : Is(u, A, 6) /\ Is(v, B, 4) /\ Is(w, C, 2)
    BY <2>1
  <2> DEFINE f == fe_negate(normalize_weak(v), 1)
  <2>3. Is(f, -B, 4) /\ -B \in Int
    BY <2>2, NegatedIs
  <2>4. gej_neg(a) = Gej(u, f, w, TRUE)
    <3>1. \A i : gej_neg(Gej(u, v, w, i)) = Gej(u, f, w, i)
      BY NegatedParts, Zenon
    <3> QED
      BY <2>1, <3>1, Zenon
  <2>5. gej_neg(a).inf = a.inf /\ gej_neg(a).z = a.z
    <3>1. \A i : Gej(u, f, w, i).inf = Gej(u, v, w, i).inf /\ Gej(u, f, w, i).z = Gej(u, v, w, i).z
      BY DEF Gej
    <3> QED
      BY <2>1, <2>4, <3>1, Zenon
  <2>6. Opposite(s) = Infinity
    BY <1>1, Zenon DEF Opposite
  <2> QED
    BY <2>2, <2>3, <2>4, <2>5, <2>6, Zenon DEF Stands, AtInfinity
<1>2. CASE s # Infinity
  <2>0. s \in Points
    BY <1>2, Zenon DEF Stands
  <2>1_1. PICK u, v, w : \E n \in Int, x \in Int, y \in Int :
                                                        Form(a, s, n, x, y, u, v, w)
    BY <2>0, FiniteForm, Zenon
  <2>1. PICK n \in Int, x \in Int, y \in Int :
                                                        Form(a, s, n, x, y, u, v, w)
    BY <2>1_1, Zenon
  <2>2. /\ s.x = x /\ s.y = y /\ n % p # 0 /\ a = Gej(u, v, w, FALSE)
        /\ Is(u, x * (n * n), 6) /\ Is(v, y * (n * n * n), 4) /\ Is(w, n, 2)
    BY <2>1, Zenon DEF Form
  <2> DEFINE f == fe_negate(normalize_weak(v), 1)
  <2>3. PICK V \in Int, N \in Int, O \in Int : V = y * (n * n * n) /\ N = n * n * n /\ O = (p - y) * N
    BY PrimeType
  <2>4. Is(f, -V, 4) /\ -V \in Int
    BY <2>2, <2>3, NegatedIs
  <2>5. O = -V + N * p
    BY <2>3, PrimeType
  <2>6. O % p = (-V) % p
    BY <2>4, <2>5, Same
  <2>7. Is(f, O, 4)
    BY <2>4, <2>6, Also
  <2>8. gej_neg(a) = Gej(u, f, w, FALSE)
    <3>1. \A i : gej_neg(Gej(u, v, w, i)) = Gej(u, f, w, i)
      BY NegatedParts, Zenon
    <3> QED
      BY <2>2, <3>1, Zenon
  <2>9. gej_neg(a).inf = a.inf /\ gej_neg(a).z = a.z
    <3>1. \A i : Gej(u, f, w, i).inf = Gej(u, v, w, i).inf /\ Gej(u, f, w, i).z = Gej(u, v, w, i).z
      BY DEF Gej
    <3> QED
      BY <2>2, <2>8, <3>1, Zenon
  <2>10. Opposite(s) \in Points /\ Opposite(s).x = x /\ Opposite(s).y = p - y
    BY <2>0, <2>2, OppositeIs
  <2>11. Finite(gej_neg(a), Opposite(s), n)
    BY <2>2, <2>3, <2>7, <2>8, <2>10, Zenon DEF Finite
  <2> QED
    BY <2>2, <2>9, <2>10, <2>11, Zenon DEF Stands
<1> QED
  BY <1>1, <1>2

Rescaled(u, v, w, i, f) ==
    rescale(Gej(u, v, w, i), f) = Gej(mul(u, sqr(f)), mul(mul(v, sqr(f)), f), mul(w, f), i)

LEMMA RescaledParts ==
    ASSUME NEW u, NEW v, NEW w, NEW i, NEW f
    PROVE  Rescaled(u, v, w, i, f)
<1>1. /\ Gej(u, v, w, i).x = u /\ Gej(u, v, w, i).y = v /\ Gej(u, v, w, i).z = w
      /\ Gej(u, v, w, i).inf = i
  BY DEF Gej
<1> QED
  BY <1>1, Zenon DEF rescale, Rescaled

LEMMA RescaleStands ==
    ASSUME NEW S \in Int, NEW a, NEW t, NEW f, Stands(a, t), Is(f, S, 2), S % p # 0
    PROVE  Stands(rescale(a, f), t) /\ rescale(a, f).z.v = (a.z.v * f.v) % p
<1>1. CASE t = Infinity
  <2>1. PICK u, v, w : /\ a = Gej(u, v, w, TRUE)
                 /\ \E A \in Int, B \in Int, C \in Int : Is(u, A, 6) /\ Is(v, B, 4) /\ Is(w, C, 2)
    BY <1>1, InfinityForm, Zenon DEF AtInfinity
  <2>2. PICK A \in Int, B \in Int, C \in Int : Is(u, A, 6) /\ Is(v, B, 4) /\ Is(w, C, 2)
    BY <2>1
  <2>3. /\ Is(mul(u, sqr(f)), A * (S * S), 1)
        /\ Is(mul(mul(v, sqr(f)), f), (B * (S * S)) * S, 1)
        /\ Is(mul(w, f), C * S, 1)
        /\ A * (S * S) \in Int /\ (B * (S * S)) * S \in Int /\ C * S \in Int
    BY <2>2, TimesSquare, MulIs
  <2>4. /\ Is(mul(u, sqr(f)), A * (S * S), 6)
        /\ Is(mul(mul(v, sqr(f)), f), (B * (S * S)) * S, 4)
        /\ Is(mul(w, f), C * S, 2)
    BY <2>3, Also
  <2>5. rescale(a, f) = Gej(mul(u, sqr(f)), mul(mul(v, sqr(f)), f), mul(w, f), TRUE)
    <3>1. Rescaled(u, v, w, TRUE, f)
      BY RescaledParts, Zenon
    <3> QED
      BY <2>1, <3>1, Zenon DEF Rescaled
  <2>6. AtInfinity(rescale(a, f))
    BY <2>3, <2>4, <2>5, Zenon DEF AtInfinity
  <2>7. rescale(a, f).z = mul(w, f) /\ a.z = w
    <3>1. /\ Gej(mul(u, sqr(f)), mul(mul(v, sqr(f)), f), mul(w, f), TRUE).z = mul(w, f)
          /\ Gej(u, v, w, TRUE).z = w
      BY Zenon DEF Gej
    <3> QED
      BY <2>1, <2>5, <3>1, Zenon
  <2>8. mul(w, f).v = (w.v * f.v) % p
    BY <2>2, <2>3, ProductIs
  <2> QED
    BY <1>1, <2>6, <2>7, <2>8, Zenon DEF Stands
<1>2. CASE t # Infinity
  <2>0. t \in Points
    BY <1>2, Zenon DEF Stands
  <2>1_1. PICK u, v, w : \E n \in Int, x \in Int, y \in Int :
                                                        Form(a, t, n, x, y, u, v, w)
    BY <2>0, FiniteForm, Zenon
  <2>1. PICK n \in Int, x \in Int, y \in Int :
                                                        Form(a, t, n, x, y, u, v, w)
    BY <2>1_1, Zenon
  <2>2. /\ t.x = x /\ t.y = y /\ n % p # 0 /\ a = Gej(u, v, w, FALSE)
        /\ Is(u, x * (n * n), 6) /\ Is(v, y * (n * n * n), 4) /\ Is(w, n, 2)
    BY <2>1, Zenon DEF Form
  <2>3. PICK A \in Int, B \in Int, m \in Int : A = x * (n * n) /\ B = y * (n * n * n) /\ m = n * S
    OBVIOUS
  <2>4. Is(u, A, 6) /\ Is(v, B, 4) /\ Is(w, n, 2)
    BY <2>2, <2>3
  <2>5. /\ Is(mul(u, sqr(f)), A * (S * S), 1)
        /\ Is(mul(mul(v, sqr(f)), f), (B * (S * S)) * S, 1)
        /\ Is(mul(w, f), n * S, 1)
        /\ A * (S * S) \in Int /\ (B * (S * S)) * S \in Int /\ n * S \in Int
    BY <2>4, TimesSquare, MulIs
  <2>6. /\ Is(mul(u, sqr(f)), A * (S * S), 6)
        /\ Is(mul(mul(v, sqr(f)), f), (B * (S * S)) * S, 4)
        /\ Is(mul(w, f), m, 2)
    BY <2>3, <2>5, Also
  <2>7. A * (S * S) = x * (m * m) /\ (B * (S * S)) * S = y * (m * m * m)
    BY <2>3
  <2>8. rescale(a, f) = Gej(mul(u, sqr(f)), mul(mul(v, sqr(f)), f), mul(w, f), FALSE)
    <3>1. Rescaled(u, v, w, FALSE, f)
      BY RescaledParts, Zenon
    <3> QED
      BY <2>2, <3>1, Zenon DEF Rescaled
  <2>9. Finite(rescale(a, f), t, m)
    BY <2>2, <2>6, <2>7, <2>8, Zenon DEF Finite
  <2>10. m % p # 0
    BY <2>2, <2>3, NoZeroProduct
  <2>11. rescale(a, f).z = mul(w, f) /\ a.z = w
    <3>1. /\ Gej(mul(u, sqr(f)), mul(mul(v, sqr(f)), f), mul(w, f), FALSE).z = mul(w, f)
          /\ Gej(u, v, w, FALSE).z = w
      BY Zenon DEF Gej
    <3> QED
      BY <2>2, <2>8, <3>1, Zenon
  <2>12. mul(w, f).v = (w.v * f.v) % p
    BY <2>4, <2>5, ProductIs
  <2> QED
    BY <2>0, <2>9, <2>10, <2>11, <2>12, Zenon DEF Stands
<1> QED
  BY <1>1, <1>2

\* B and I are inverse.
Back(x, y, B, I) ==
    /\ ((x * (B * B)) * (I * I)) % p = x % p
    /\ ((y * (B * B * B)) * ((I * I) * I)) % p = y % p

LEMMA Undone ==
    ASSUME NEW x \in Int, NEW y \in Int, NEW B \in Int, NEW I \in Int,
           Congruent(B * I, 1)
    PROVE  Back(x, y, B, I)
<1>0. PICK k \in Int : B * I = 1 + k * p
  BY DEF Congruent
<1>1. PICK P \in Int, c \in Int, d \in Int, X \in Int, Y \in Int :
          /\ P = p /\ c = x * (2 * k + k * k * P)
          /\ d = y * (3 * k + 3 * k * k * P + k * k * k * P * P)
          /\ X = (x * (B * B)) * (I * I) /\ Y = (y * (B * B * B)) * ((I * I) * I)
  BY PrimeType
<1>2. B * I = 1 + k * P
  BY <1>0, <1>1
<1>3. X = x * ((B * I) * (B * I)) /\ Y = y * ((B * I) * (B * I) * (B * I))
  BY <1>1
<1>4. X = x + c * P /\ Y = y + d * P
  BY <1>1, <1>2, <1>3
<1>5. X % p = x % p
  <2>1. X = x + c * p
    BY <1>1, <1>4
  <2> QED
    BY <2>1, Same
<1>6. Y % p = y % p
  <2>1. Y = y + d * p
    BY <1>1, <1>4
  <2> QED
    BY <2>1, Same
<1> QED
  BY <1>1, <1>5, <1>6, Zenon DEF Back

Zinv(x, y, i, b) == \E f, g : b = Ge(f, g, i) /\ Is(f, x, 1) /\ Is(g, y, 1)

LEMMA ZinvIs ==
    ASSUME NEW x \in Int, NEW y \in Int, NEW B \in Int, NEW I \in Int,
           NEW zi, NEW a,
           Congruent(B * I, 1), Is(a.x, x * (B * B), 6), Is(a.y, y * (B * B * B), 4), Is(zi, I, 2)
    PROVE  Zinv(x, y, a.inf, set_gej_zinv(a, zi))
<1>1. PICK A \in Int, C \in Int : A = x * (B * B) /\ C = y * (B * B * B)
  OBVIOUS
<1>2. Is(a.x, A, 6) /\ Is(a.y, C, 4)
  BY <1>1
<1> DEFINE f == mul(a.x, sqr(zi))
<1> DEFINE g == mul(a.y, mul(sqr(zi), zi))
<1>3. Is(sqr(zi), I * I, 1) /\ I * I \in Int
  BY SqrIs
<1>4. Is(mul(sqr(zi), zi), (I * I) * I, 1) /\ (I * I) * I \in Int
  BY <1>3, MulIs
<1>5. /\ Is(f, A * (I * I), 1) /\ A * (I * I) \in Int
      /\ Is(g, C * ((I * I) * I), 1) /\ C * ((I * I) * I) \in Int
  BY <1>2, <1>3, <1>4, MulIs
<1>6. (A * (I * I)) % p = x % p /\ (C * ((I * I) * I)) % p = y % p
  <2>1. Back(x, y, B, I)
    BY Undone, Zenon
  <2> QED
    BY <1>1, <2>1, Zenon DEF Back
<1>7. Is(f, x, 1) /\ Is(g, y, 1)
  BY <1>5, <1>6, Also
<1>8. set_gej_zinv(a, zi) = Ge(f, g, a.inf)
  BY Zenon DEF set_gej_zinv
<1> QED
  BY <1>7, <1>8, Zenon DEF Zinv

\* What set_gej leaves: coordinates of magnitude 1, whatever the point.
Unscaled(b, t) ==
    \/ t = Infinity /\ b.inf
    \/ t \in Points /\ \E u, v : b = Ge(u, v, FALSE) /\ Is(u, t.x, 1) /\ Is(v, t.y, 1)

LEMMA SetGejStands ==
    ASSUME NEW a, NEW t, Stands(a, t)
    PROVE  Unscaled(set_gej(a), t)
<1>1. CASE t = Infinity
  <2>1. a.inf
    BY <1>1, InfinityForm, Zenon
  <2>2. set_gej(a).inf = a.inf
    BY DEF set_gej, set_gej_zinv, Ge
  <2> QED
    BY <1>1, <2>1, <2>2, Zenon DEF Unscaled
<1>2. CASE t # Infinity
  <2>0. t \in Points
    BY <1>2, Zenon DEF Stands
  <2>1_1. PICK u, v, w : \E n \in Int, x \in Int, y \in Int :
                                                        Form(a, t, n, x, y, u, v, w)
    BY <2>0, FiniteForm, Zenon
  <2>1. PICK n \in Int, x \in Int, y \in Int :
                                                        Form(a, t, n, x, y, u, v, w)
    BY <2>1_1, Zenon
  <2>2. /\ t.x = x /\ t.y = y /\ n % p # 0 /\ a = Gej(u, v, w, FALSE)
        /\ Is(u, x * (n * n), 6) /\ Is(v, y * (n * n * n), 4) /\ Is(w, n, 2)
        /\ a.x = u /\ a.y = v /\ a.z = w
    BY <2>1, Zenon DEF Form
  <2>3. PICK I \in Int : Is(fe_inv(w), I, 1) /\ (n * I) % p = 1
    BY <2>2, InverseIs
  <2>4. Is(fe_inv(w), I, 2)
    BY <2>3, Also
  <2>5. Congruent(n * I, 1)
    <3>1. (n * I) % p = 1 % p /\ n * I \in Int
      BY <2>3, PrimeType
    <3>2. \E k \in Int : n * I = 1 + k * p
      BY <3>1, Differ
    <3> QED
      BY <3>2 DEF Congruent
  <2>6. a.inf = FALSE
    <3>1. Gej(u, v, w, FALSE).inf = FALSE
      BY Zenon DEF Gej
    <3> QED
      BY <2>2, <3>1, Zenon
  <2>7. Zinv(x, y, a.inf, set_gej_zinv(a, fe_inv(w)))
    <3>1. Is(a.x, x * (n * n), 6) /\ Is(a.y, y * (n * n * n), 4)
      BY <2>2, Zenon
    <3> QED
      BY <2>4, <2>5, <3>1, ZinvIs, Zenon
  <2>8. set_gej(a) = set_gej_zinv(a, fe_inv(w))
    BY <2>2, Zenon DEF set_gej
  <2>9. Zinv(x, y, FALSE, set_gej(a))
    BY <2>6, <2>7, <2>8, Zenon
  <2> QED
    BY <2>0, <2>2, <2>9, Zenon DEF Unscaled, Zinv
<1> QED
  BY <1>1, <1>2

\* A point brought from its own z to another's, without an inversion.
Carried(x, y, A, B, I) ==
    /\ ((x * (B * B)) * ((A * I) * (A * I))) % p = (x * (A * A)) % p
    /\ (((y * (B * B * B)) * ((A * I) * (A * I))) * (A * I)) % p = (y * (A * A * A)) % p

LEMMA CarriedOver ==
    ASSUME NEW x \in Int, NEW y \in Int, NEW A \in Int, NEW B \in Int, NEW I \in Int,
           Congruent(B * I, 1)
    PROVE  Carried(x, y, A, B, I)
<1>0. PICK k \in Int : B * I = 1 + k * p
  BY DEF Congruent
<1>1. PICK P \in Int, c \in Int, d \in Int, X \in Int, Y \in Int, V \in Int, W \in Int :
          /\ P = p /\ V = x * (A * A) /\ W = y * (A * A * A)
          /\ c = V * (2 * k + k * k * P)
          /\ d = W * (3 * k + 3 * k * k * P + k * k * k * P * P)
          /\ X = (x * (B * B)) * ((A * I) * (A * I))
          /\ Y = ((y * (B * B * B)) * ((A * I) * (A * I))) * (A * I)
  BY PrimeType
<1>2. B * I = 1 + k * P
  BY <1>0, <1>1
<1>3. X = V * ((B * I) * (B * I)) /\ Y = W * ((B * I) * (B * I) * (B * I))
  BY <1>1
<1>4. X = V + c * P /\ Y = W + d * P
  BY <1>1, <1>2, <1>3
<1>5. X % p = V % p
  <2>1. X = V + c * p
    BY <1>1, <1>4
  <2> QED
    BY <2>1, Same
<1>6. Y % p = W % p
  <2>1. Y = W + d * p
    BY <1>1, <1>4
  <2> QED
    BY <2>1, Same
<1> QED
  BY <1>1, <1>5, <1>6, Zenon DEF Carried

LEMMA GeParts ==
    ASSUME NEW u, NEW v, NEW i
    PROVE  Ge(u, v, i).x = u /\ Ge(u, v, i).y = v /\ Ge(u, v, i).inf = i
  BY DEF Ge

\* b's z, of which the call has the inverse.
Inverted(b, t, zi) == t = Infinity \/ (b.z.v * zi.v) % p = 1

LEMMA InvertedIs ==
    ASSUME NEW B \in Int, NEW I \in Int, NEW b, NEW zi,
           Is(b, B, 2), Is(zi, I, 1), (b.v * zi.v) % p = 1
    PROVE  Congruent(B * I, 1)
<1>1. PICK x \in Int, y \in Int : b.v = x /\ zi.v = y /\ x % p = B % p /\ y % p = I % p
  BY ItsValue
<1>2. (x * y) % p = (B * I) % p
  BY <1>1, SameProduct
<1>3. (B * I) % p = 1 % p /\ B * I \in Int
  BY <1>1, <1>2, PrimeType
<1>4. \E k \in Int : B * I = 1 + k * p
  BY <1>3, Differ
<1> QED
  BY <1>4 DEF Congruent

LEMMA AddZinvStands ==
    ASSUME NEW I \in Int, NEW a, NEW b, NEW s, NEW t, NEW zi,
           Stands(a, s), Stands(b, t), Is(zi, I, 1), Inverted(b, t, zi)
    PROVE  Stands(add_zinv_var(a, Ge(b.x, b.y, b.inf), zi), Plus(s, t))
<1> DEFINE g == Ge(b.x, b.y, b.inf)
<1>0. g.x = b.x /\ g.y = b.y /\ g.inf = b.inf
  BY GeParts
<1> HIDE DEF g
<1>1. CASE t = Infinity
  <2>1. b.inf
    BY <1>1, InfinityForm, Zenon
  <2>2. add_zinv_var(a, g, zi) = a
    BY <1>0, <2>1, Zenon DEF add_zinv_var
  <2>3. Plus(s, t) = s
    <3>1. CASE s = Infinity
      BY <1>1, <3>1, Zenon DEF Plus
    <3>2. CASE s # Infinity
      BY <1>1, <3>2, Zenon DEF Plus
    <3> QED
      BY <3>1, <3>2
  <2> QED
    BY <2>2, <2>3, Zenon DEF g
<1>2. CASE t # Infinity
  <2>0. t \in Points
    BY <1>2, Zenon DEF Stands
  <2>b_1. PICK uu, vv, ww : \E B \in Int, xx \in Int, yy \in Int :
                                                             Form(b, t, B, xx, yy, uu, vv, ww)
    BY <2>0, FiniteForm, Zenon
  <2>b. PICK B \in Int, xx \in Int, yy \in Int :
                                                             Form(b, t, B, xx, yy, uu, vv, ww)
    BY <2>b_1, Zenon
  <2>3. /\ t.x = xx /\ t.y = yy /\ B % p # 0 /\ b = Gej(uu, vv, ww, FALSE)
        /\ Is(uu, xx * (B * B), 6) /\ Is(vv, yy * (B * B * B), 4) /\ Is(ww, B, 2)
        /\ b.x = uu /\ b.y = vv /\ b.z = ww /\ ~b.inf
    BY <2>b, Zenon DEF Form
  <2>4. Congruent(B * I, 1)
    <3>1. (ww.v * zi.v) % p = 1
      BY <1>2, <2>3, Zenon DEF Inverted
    <3> QED
      BY <2>3, <3>1, InvertedIs
  <2>5. g.inf = FALSE
    <3>1. Gej(uu, vv, ww, FALSE).inf = FALSE
      BY Zenon DEF Gej
    <3> QED
      BY <1>0, <2>3, <3>1, Zenon
  <2>6. CASE s = Infinity
    <3>1. a.inf
      BY <2>6, InfinityForm, Zenon
    <3>2. Is(zi, I, 2)
      BY Also
    <3>3. Zinv(xx, yy, FALSE, set_gej_zinv(g, zi))
      <4>1. Is(g.x, xx * (B * B), 6) /\ Is(g.y, yy * (B * B * B), 4)
        BY <1>0, <2>3, Zenon
      <4>2. Zinv(xx, yy, g.inf, set_gej_zinv(g, zi))
        BY <2>4, <3>2, <4>1, ZinvIs, Zenon
      <4> QED
        BY <2>5, <4>2, Zenon
    <3>4. PICK f, h : set_gej_zinv(g, zi) = Ge(f, h, FALSE) /\ Is(f, xx, 1) /\ Is(h, yy, 1)
      BY <3>3, Zenon DEF Zinv
    <3>5. add_zinv_var(a, g, zi) = Gej(f, h, set_int(1), FALSE)
      <4>1. Ge(f, h, FALSE).x = f /\ Ge(f, h, FALSE).y = h
        BY Zenon DEF Ge
      <4> QED
        BY <2>5, <3>1, <3>4, <4>1, Zenon DEF add_zinv_var
    <3>6. Is(f, xx, 6) /\ Is(h, yy, 4) /\ Is(set_int(1), 1, 2)
      BY <3>4, SetIs, Also
    <3>7. xx * (1 * 1) = xx /\ yy * (1 * 1 * 1) = yy /\ 1 % p # 0 /\ 1 \in Int
      BY PrimeType
    <3>8. Finite(Gej(f, h, set_int(1), FALSE), t, 1)
      BY <2>3, <3>6, <3>7, Zenon DEF Finite
    <3>9. Plus(s, t) = t
      BY <2>6, Zenon DEF Plus
    <3> QED
      BY <2>0, <3>5, <3>7, <3>8, <3>9, Zenon DEF Stands, g
  <2>7. CASE s # Infinity
    <3>0. s \in Points /\ ~a.inf
      BY <2>7, StandsForOne, Zenon
    <3>a_1. PICK u, v, w : \E A \in Int, x \in Int, y \in Int :
                                                          Form(a, s, A, x, y, u, v, w)
      BY <3>0, FiniteForm, Zenon
    <3>a. PICK A \in Int, x \in Int, y \in Int :
                                                          Form(a, s, A, x, y, u, v, w)
      BY <3>a_1, Zenon
    <3>1. /\ s.x = x /\ s.y = y
          /\ A % p # 0 /\ Finite(a, s, A)
          /\ Is(u, x * (A * A), 6) /\ Is(v, y * (A * A * A), 4) /\ Is(w, A, 2)
          /\ a.x = u /\ a.y = v /\ a.z = w
      BY <3>a, Zenon DEF Form
    <3>2. PICK X \in Int, Y \in Int, XX \in Int, YY \in Int, D \in Int :
              /\ X = x * (A * A) /\ Y = y * (A * A * A)
              /\ XX = xx * (B * B) /\ YY = yy * (B * B * B) /\ D = A * I
      OBVIOUS
    <3>3. Is(u, X, 6) /\ Is(v, Y, 4) /\ Is(w, A, 2) /\ Is(uu, XX, 6) /\ Is(vv, YY, 4)
      BY <2>3, <3>1, <3>2
    <3> DEFINE az == mul(w, zi)
    <3>4. Is(az, D, 1)
      BY <3>2, <3>3, MulIs
    <3> HIDE DEF az
    <3>5. /\ Is(normalize_weak(u), X, 1) /\ Is(normalize_weak(v), Y, 1)
          /\ Is(mul(uu, sqr(az)), XX * (D * D), 1) /\ XX * (D * D) \in Int
          /\ Is(mul(mul(vv, sqr(az)), az), (YY * (D * D)) * D, 1) /\ (YY * (D * D)) * D \in Int
      BY <3>3, <3>4, TimesSquare, WeakIs
    <3>6. /\ (XX * (D * D)) % p = (xx * (A * A)) % p /\ xx * (A * A) \in Int
          /\ ((YY * (D * D)) * D) % p = (yy * (A * A * A)) % p /\ yy * (A * A * A) \in Int
      <4>1. Carried(xx, yy, A, B, I)
        BY <2>4, CarriedOver, Zenon
      <4>2. xx * (A * A) \in Int /\ yy * (A * A * A) \in Int
        OBVIOUS
      <4> QED
        BY <3>2, <4>1, <4>2, Zenon DEF Carried
    <3>7. /\ Is(mul(uu, sqr(az)), xx * (A * A), 1)
          /\ Is(mul(mul(vv, sqr(az)), az), yy * (A * A * A), 1)
      BY <3>5, <3>6, Also
    <3>8. Common(s, t, A, normalize_weak(u), mul(uu, sqr(az)),
                 normalize_weak(v), mul(mul(vv, sqr(az)), az))
      BY <2>3, <3>1, <3>2, <3>5, <3>7, Zenon DEF Common
    <3>9. Brought(A, NoZ, A) /\ A \in Int
      BY Zenon DEF Brought
    <3>10. add_zinv_var(a, g, zi) = Add(a, normalize_weak(u), mul(uu, sqr(az)),
                 normalize_weak(v), mul(mul(vv, sqr(az)), az), NoZ).r
      BY <1>0, <2>3, <2>5, <3>0, <3>1, Zenon DEF add_zinv_var, az
    <3>11. Stands(Add(a, normalize_weak(u), mul(uu, sqr(az)),
                 normalize_weak(v), mul(mul(vv, sqr(az)), az), NoZ).r, Plus(s, t))
      <4>1. A % p # 0 /\ Finite(a, s, A) /\ A \in Int
        BY <3>1
      <4> QED
        BY <2>0, <3>0, <3>8, <3>9, <4>1, AddStands, Zenon
    <3> QED
      BY <3>10, <3>11, Zenon DEF g
  <2> QED
    BY <2>6, <2>7
<1> QED
  BY <1>1, <1>2

\* The numbers of add_ge: of t, m, rr, and of what it goes on with.
GeSum(T, M, R, Y, D, rho, mu, N) ==
    \/ M % p = 0 /\ R % p = 0 /\ rho = Y * 2 /\ mu = D /\ N = M
    \/ ~(M % p = 0 /\ R % p = 0) /\ rho = R /\ mu = M /\ N = (M * M) * (M * M)

\* And its result, which is b if a is infinite.
GeResult(a, b, C, T, rho, mu, N) ==
    \E u, v, w, z : \E Q \in Int, W \in Int :
        /\ Q = -((mu * mu) * T) /\ W = rho * rho + Q
        /\ Is(u, W * 4, 4) /\ Is(v, (-((W * 2 + Q) * rho + N)) * 4, 4)
        /\ Is(z, C * mu, 1) /\ Is(w, (C * mu) * 2, 2)
        /\ add_ge(a, b) = Gej(cmov(u, b.x, a.inf), cmov(v, b.y, a.inf),
                              cmov(w, set_int(1), a.inf), normalizes_to_zero(z) /\ ~a.inf)

\* From the choice on the two kinds of sums are alike.
GeTail(a, t, r, m, n, C, T, rho, mu, N) ==
    \E Q \in Int, W \in Int :
        LET q == fe_negate(mul(sqr(m), t), 1)
            x == normalize_weak(fe_add(sqr(r), q))
            y == normalize_weak(fe_negate(fe_add(mul(fe_add(mul_int(x, 2), q), r), n), 3))
            z == mul(a, m)
        IN  /\ Q = -((mu * mu) * T) /\ W = rho * rho + Q
            /\ Is(mul_int(x, 4), W * 4, 4)
            /\ Is(mul_int(y, 4), (-((W * 2 + Q) * rho + N)) * 4, 4)
            /\ Is(z, C * mu, 1) /\ Is(mul_int(z, 2), (C * mu) * 2, 2)

LEMMA GeResultIs ==
    ASSUME NEW T \in Int, NEW C \in Int, NEW rho \in Int, NEW mu \in Int, NEW N \in Int,
           NEW a, NEW t, NEW r, NEW m, NEW n,
           Is(a, C, 2), Is(t, T, 2), Is(r, rho, 2), Is(m, mu, 3), Is(n, N, 2)
    PROVE  GeTail(a, t, r, m, n, C, T, rho, mu, N)
<1> DEFINE q == fe_negate(mul(sqr(m), t), 1)
<1> DEFINE x == normalize_weak(fe_add(sqr(r), q))
<1> DEFINE s == fe_add(mul(fe_add(mul_int(x, 2), q), r), n)
<1> DEFINE y == normalize_weak(fe_negate(s, 3))
<1> DEFINE z == mul(a, m)
<1>1. PICK Q \in Int, W \in Int, S \in Int, V \in Int :
          /\ Q = -((mu * mu) * T) /\ W = rho * rho + Q
          /\ S = (W * 2 + Q) * rho + N /\ V = C * mu
  OBVIOUS
<1>2. Is(sqr(m), mu * mu, 1) /\ mu * mu \in Int
  BY SqrIs
<1>3. Is(mul(sqr(m), t), (mu * mu) * T, 1) /\ (mu * mu) * T \in Int
  BY <1>2, MulIs
<1>4. Is(q, Q, 2)
  BY <1>1, <1>3, NegateIs
<1> HIDE DEF q
<1>5. Is(sqr(r), rho * rho, 1) /\ rho * rho \in Int
  BY SqrIs
<1>6. Is(fe_add(sqr(r), q), W, 3)
  BY <1>1, <1>4, <1>5, AddIs
<1>7. Is(x, W, 1)
  BY <1>6, WeakIs
<1> HIDE DEF x
<1>8. Is(mul_int(x, 2), W * 2, 2) /\ Is(mul_int(x, 4), W * 4, 4) /\ W * 2 \in Int
  BY <1>7, IntIs
<1>9. Is(fe_add(mul_int(x, 2), q), W * 2 + Q, 4) /\ W * 2 + Q \in Int
  BY <1>4, <1>8, AddIs
<1>10. Is(mul(fe_add(mul_int(x, 2), q), r), (W * 2 + Q) * rho, 1) /\ (W * 2 + Q) * rho \in Int
  BY <1>9, MulIs
<1>11. Is(s, S, 3)
  BY <1>1, <1>10, AddIs
<1> HIDE DEF s
<1>12. Is(fe_negate(s, 3), -S, 4) /\ -S \in Int
  BY <1>11, NegateIs
<1>13. Is(y, -S, 1)
  BY <1>12, WeakIs
<1> HIDE DEF y
<1>14. Is(mul_int(y, 4), (-S) * 4, 4)
  BY <1>12, <1>13, IntIs
<1>15. Is(z, V, 1)
  BY <1>1, MulIs
<1> HIDE DEF z
<1>16. Is(mul_int(z, 2), V * 2, 2)
  BY <1>15, IntIs
<1> QED
  BY <1>1, <1>8, <1>14, <1>15, <1>16, Zenon DEF q, x, s, y, z, GeTail

GeChosen(a, b, C, T, M, R, Y, D) ==
    \E rho \in Int, mu \in Int, N \in Int :
        GeSum(T, M, R, Y, D, rho, mu, N) /\ GeResult(a, b, C, T, rho, mu, N)

LEMMA GeMade ==
    ASSUME NEW X \in Int, NEW Y \in Int, NEW C \in Int, NEW U \in Int, NEW V \in Int,
           NEW xx \in Int, NEW yy \in Int, NEW T \in Int, NEW M \in Int, NEW R \in Int,
           NEW D \in Int, NEW a, NEW b,
           Is(a.x, X, 6), Is(a.y, Y, 4), Is(a.z, C, 2), Is(b.x, xx, 6), Is(b.y, yy, 4),
           U = xx * (C * C), V = (yy * (C * C)) * C,
           T = X + U, M = Y + V, R = T * T + X * (-U), D = (-U) + X
    PROVE  GeChosen(a, b, C, T, M, R, Y, D)
<1> DEFINE u1 == normalize_weak(a.x)
<1> DEFINE u2 == mul(b.x, sqr(a.z))
<1> DEFINE s1 == normalize_weak(a.y)
<1> DEFINE s2 == mul(mul(b.y, sqr(a.z)), a.z)
<1> DEFINE t == fe_add(u1, u2)
<1> DEFINE m == fe_add(s1, s2)
<1> DEFINE f == fe_negate(u2, 1)
<1> DEFINE rr == fe_add(sqr(t), mul(u1, f))
<1> DEFINE e == Degenerate(m, rr)
<1> DEFINE rr_alt == cmov(mul_int(s1, 2), rr, ~e)
<1> DEFINE m_alt == cmov(fe_add(f, u1), m, ~e)
<1> DEFINE n == cmov(sqr(sqr(m_alt)), m, e)
<1> DEFINE q == fe_negate(mul(sqr(m_alt), t), 1)
<1> DEFINE x == normalize_weak(fe_add(sqr(rr_alt), q))
<1> DEFINE y == normalize_weak(fe_negate(fe_add(mul(fe_add(mul_int(x, 2), q), rr_alt), n), 3))
<1> DEFINE z == mul(a.z, m_alt)
<1>1. add_ge(a, b) = Gej(cmov(mul_int(x, 4), b.x, a.inf), cmov(mul_int(y, 4), b.y, a.inf),
                         cmov(mul_int(z, 2), set_int(1), a.inf), normalizes_to_zero(z) /\ ~a.inf)
  BY Zenon DEF add_ge
<1> HIDE DEF z, y, x, q, n, m_alt, rr_alt, e, rr, f, m, t, s2, s1, u2, u1
<1>2. Is(u1, X, 1) /\ Is(s1, Y, 1) /\ Is(u2, U, 1) /\ Is(s2, V, 1)
  BY WeakIs, TimesSquare DEF u1, u2, s1, s2
<1>3. Is(t, T, 2) /\ Is(m, M, 2)
  BY <1>2, AddIs DEF t, m
<1>4. Is(f, -U, 2) /\ -U \in Int
  BY <1>2, NegateIs DEF f
<1>5. Is(rr, R, 2)
  <2>1. Is(sqr(t), T * T, 1) /\ T * T \in Int
    BY <1>3, SqrIs
  <2>2. Is(mul(u1, f), X * (-U), 1) /\ X * (-U) \in Int
    BY <1>2, <1>4, MulIs
  <2> QED
    BY <2>1, <2>2, AddIs DEF rr
<1>6. Is(mul_int(s1, 2), Y * 2, 2) /\ Y * 2 \in Int
  BY <1>2, IntIs
<1>7. Is(fe_add(f, u1), D, 3)
  BY <1>2, <1>4, AddIs
<1>8. e \in BOOLEAN /\ (e <=> M % p = 0 /\ R % p = 0)
  <2>1. /\ normalizes_to_zero(m) <=> M % p = 0
        /\ normalizes_to_zero(rr) <=> R % p = 0
    BY <1>3, <1>5, ZeroIs
  <2> QED
    BY <2>1, Zenon DEF e, Degenerate
<1> DEFINE Gone(rho, mu, N) == Is(rr_alt, rho, 2) /\ Is(m_alt, mu, 3) /\ Is(n, N, 2)
<1>9. \E rho \in Int, mu \in Int, N \in Int :
          Gone(rho, mu, N) /\ GeSum(T, M, R, Y, D, rho, mu, N)
  <2>0. M * M \in Int /\ (M * M) * (M * M) \in Int
    OBVIOUS
  <2>a. /\ 1 \in Int /\ 2 \in Int /\ 3 \in Int /\ 1 <= 2 /\ 2 <= 2 /\ 2 <= 3 /\ 3 <= 3
        /\ 2 <= 32 /\ 3 <= 32
    OBVIOUS
  <2>b. (~e) \in BOOLEAN /\ e \in BOOLEAN
    BY <1>8
  <2>1. (~e => Is(rr_alt, R, 2)) /\ (e => Is(rr_alt, Y * 2, 2))
    BY <1>5, <1>6, <2>a, <2>b, CmovIs, Zenon DEF rr_alt
  <2>2. (~e => Is(m_alt, M, 3)) /\ (e => Is(m_alt, D, 3))
    BY <1>3, <1>7, <2>a, <2>b, CmovIs, Zenon DEF m_alt
  <2>3. CASE e
    <3>1. Is(sqr(m_alt), D * D, 1) /\ D * D \in Int
      BY <2>2, <2>3, SqrIs
    <3>2. Is(sqr(sqr(m_alt)), (D * D) * (D * D), 1) /\ (D * D) * (D * D) \in Int
      BY <3>1, SqrIs
    <3>3. Is(n, M, 2)
      BY <1>3, <2>3, <2>a, <2>b, <3>2, CmovIs, Zenon DEF n
    <3> QED
      BY <1>6, <1>8, <2>1, <2>2, <2>3, <3>3, Zenon DEF GeSum
  <2>4. CASE ~e
    <3>1. Is(sqr(m_alt), M * M, 1)
      BY <2>2, <2>4, SqrIs
    <3>2. Is(sqr(sqr(m_alt)), (M * M) * (M * M), 1)
      BY <2>0, <3>1, SqrIs
    <3>3. Is(n, (M * M) * (M * M), 2)
      BY <1>3, <2>0, <2>4, <2>a, <2>b, <3>2, CmovIs, Zenon DEF n
    <3> QED
      BY <1>8, <2>0, <2>1, <2>2, <2>4, <3>3, Zenon DEF GeSum
  <2> QED
    BY <2>3, <2>4
<1>10. PICK rho \in Int, mu \in Int, N \in Int :
           Gone(rho, mu, N) /\ GeSum(T, M, R, Y, D, rho, mu, N)
  BY <1>9
<1>11. GeTail(a.z, t, rr_alt, m_alt, n, C, T, rho, mu, N)
  BY <1>3, <1>10, GeResultIs, Zenon
<1>12. GeResult(a, b, C, T, rho, mu, N)
  <2>1. PICK Q \in Int, W \in Int :
          /\ Q = -((mu * mu) * T) /\ W = rho * rho + Q
          /\ Is(mul_int(x, 4), W * 4, 4)
          /\ Is(mul_int(y, 4), (-((W * 2 + Q) * rho + N)) * 4, 4)
          /\ Is(z, C * mu, 1) /\ Is(mul_int(z, 2), (C * mu) * 2, 2)
    BY <1>11, Zenon DEF GeTail, q, x, y, z
  <2> QED
    BY <1>1, <2>1, Zenon DEF GeResult
<1> QED
  BY <1>10, <1>12, Zenon DEF GeChosen

\* What add_ge computes, on the chord or the tangent of slope l.
GeLaw(x, xx, y, l, g, rho, N, Q) ==
    /\ ((rho * rho + Q) * 4) % p = ((l * l - x - xx) * ((g * 2) * (g * 2))) % p
    /\ ((-(((rho * rho + Q) * 2 + Q) * rho + N)) * 4) % p =
           ((l * (x - (l * l - x - xx)) - y) * ((g * 2) * (g * 2) * (g * 2))) % p

LEMMA GeLawHolds ==
    ASSUME NEW x \in Int, NEW xx \in Int, NEW y \in Int, NEW yy \in Int, NEW l \in Int,
           NEW g \in Int, NEW rho \in Int, NEW N \in Int, NEW Q \in Int,
           Congruent(rho, l * g), Congruent(l * (xx - x), yy - y),
           Congruent(N, (g * g * g) * (y + yy)), Q = -((g * g) * (x + xx))
    PROVE  GeLaw(x, xx, y, l, g, rho, N, Q)
<1>1. PICK P \in Int, i \in Int, k \in Int, j \in Int :
          /\ P = p /\ rho = l * g + i * P /\ l * (xx - x) = (yy - y) + k * P
          /\ N = (g * g * g) * (y + yy) + j * P
  <2>1. p \in Int
    BY PrimeType
  <2>2. PICK i \in Int : rho = l * g + i * p
    BY DEF Congruent
  <2>3. PICK k \in Int : l * (xx - x) = (yy - y) + k * p
    BY DEF Congruent
  <2>4. PICK j \in Int : N = (g * g * g) * (y + yy) + j * p
    BY DEF Congruent
  <2> QED
    BY <2>1, <2>2, <2>3, <2>4
<1>2. PICK X \in Int, Y \in Int, g2 \in Int, g3 \in Int, r \in Int, W \in Int, V \in Int, c \in Int :
          /\ X = l * l - x - xx /\ Y = l * (x - X) - y /\ g2 = g * g /\ g3 = g2 * g
          /\ r = l * g /\ c = 2 * r * i + i * i * P
          /\ W = rho * rho + Q /\ V = r * r + Q
  OBVIOUS
<1>3. V = g2 * X
  BY <1>2
<1>4. W = V + c * P
  <2>1. rho = r + i * P
    BY <1>1, <1>2
  <2> QED
    BY <1>2, <2>1
<1>5. PICK S \in Int, O \in Int, d \in Int :
          /\ S = (W * 2 + Q) * rho + N /\ O = (V * 2 + Q) * r + g3 * (y + yy)
          /\ d = (V * 2 + Q) * i + 2 * c * r + 2 * c * i * P + j
  OBVIOUS
<1>6. S = O + d * P
  <2>1. rho = r + i * P /\ N = g3 * (y + yy) + j * P
    BY <1>1, <1>2
  <2> QED
    BY <1>4, <1>5, <2>1
<1>7. PICK a \in Int : a = V * 2 + Q /\ a = g2 * (2 * X - x - xx)
  BY <1>2, <1>3
<1>8. a * r = g3 * (l * (2 * X - x - xx))
  BY <1>2, <1>7
<1>9. l * (2 * X - x - xx) = (-2) * Y - y - yy - k * P
  <2>1. l * (2 * X - x - xx) = (-2) * (l * (x - X)) - l * (xx - x)
    OBVIOUS
  <2> QED
    BY <1>1, <1>2, <2>1
<1>10. O = g3 * ((-2) * Y - k * P)
  <2>1. PICK b \in Int : b = l * (2 * X - x - xx) /\ b = (-2) * Y - y - yy - k * P
    BY <1>9
  <2>2. O = g3 * b + g3 * (y + yy)
    BY <1>5, <1>7, <1>8, <2>1
  <2> QED
    BY <2>1, <2>2
<1>11. W * 4 = X * ((g * 2) * (g * 2)) + (4 * c) * P
  <2>1. X * ((g * 2) * (g * 2)) = 4 * (g2 * X)
    BY <1>2
  <2> QED
    BY <1>3, <1>4, <2>1
<1>12. (-S) * 4 = Y * ((g * 2) * (g * 2) * (g * 2)) + (4 * g3 * k - 4 * d) * P
  <2>1. Y * ((g * 2) * (g * 2) * (g * 2)) = 8 * (g3 * Y)
    BY <1>2
  <2>2. O = (-2) * (g3 * Y) - (g3 * k) * P
    BY <1>10
  <2> QED
    BY <1>6, <2>1, <2>2
<1>13. PICK A \in Int, B \in Int, C \in Int, D \in Int, e \in Int, f \in Int :
           /\ A = W * 4 /\ B = X * ((g * 2) * (g * 2)) /\ C = (-S) * 4
           /\ D = Y * ((g * 2) * (g * 2) * (g * 2)) /\ e = 4 * c /\ f = 4 * g3 * k - 4 * d
  <2>1. /\ W * 4 \in Int /\ X * ((g * 2) * (g * 2)) \in Int /\ (-S) * 4 \in Int
        /\ Y * ((g * 2) * (g * 2) * (g * 2)) \in Int /\ 4 * c \in Int
        /\ 4 * g3 * k - 4 * d \in Int
    OBVIOUS
  <2> QED
    BY <2>1, Zenon
<1>14. A = B + e * p /\ C = D + f * p
  BY <1>1, <1>11, <1>12, <1>13
<1>15. A % p = B % p /\ C % p = D % p
  BY <1>14, Same
<1> QED
  BY <1>2, <1>5, <1>13, <1>15, Zenon DEF GeLaw

\* What makes the result the sum.
Fits(rho, N, l, g, y, yy) == Congruent(rho, l * g) /\ Congruent(N, (g * g * g) * (y + yy))

SumNumbers(x, xx, y, yy, A, X, U, T, M, R, g) ==
    /\ X = x * (A * A) /\ U = xx * (A * A) /\ T = X + U /\ M = (y + yy) * (A * A * A)
    /\ R = T * T + X * (-U) /\ g = A * M

LEMMA CommonNumbers ==
    ASSUME NEW x \in Int, NEW xx \in Int, NEW y \in Int, NEW yy \in Int, NEW l \in Int,
           NEW A \in Int, NEW X \in Int, NEW U \in Int, NEW T \in Int, NEW M \in Int, NEW R \in Int,
           NEW g \in Int,
           SumNumbers(x, xx, y, yy, A, X, U, T, M, R, g),
           Congruent(l * (y + yy), x * x + x * xx + xx * xx)
    PROVE  Fits(R, (M * M) * (M * M), l, g, y, yy)
<1>a. /\ X = x * (A * A) /\ U = xx * (A * A) /\ T = X + U /\ M = (y + yy) * (A * A * A)
      /\ R = T * T + X * (-U) /\ g = A * M
  BY DEF SumNumbers
<1>0. PICK P \in Int, j \in Int : P = p /\ l * (y + yy) = x * x + x * xx + xx * xx + j * P
  <2>1. PICK j \in Int : l * (y + yy) = x * x + x * xx + xx * xx + j * p
    BY DEF Congruent
  <2>2. p \in Int
    BY PrimeType
  <2> QED
    BY <2>1, <2>2, Zenon
<1>1. PICK A4 \in Int, e \in Int, k \in Int :
          A4 = A * A * A * A /\ e = x * x + x * xx + xx * xx /\ k = -(j * A4)
  OBVIOUS
<1>2. R = e * A4
  BY <1>a, <1>1
<1>3. l * g = (l * (y + yy)) * A4
  BY <1>a, <1>1
<1>4. l * g = (e + j * P) * A4
  BY <1>0, <1>1, <1>3
<1>5. R = l * g + k * P
  BY <1>1, <1>2, <1>4
<1>6. Congruent(R, l * g)
  BY <1>0, <1>5 DEF Congruent
<1>7. (M * M) * (M * M) = (g * g * g) * (y + yy)
  <2>1. PICK A3 \in Int, h \in Int : A3 = A * A * A /\ h = y + yy
    OBVIOUS
  <2>2. M = h * A3
    BY <1>a, <2>1
  <2>3. g * g * g = A3 * (M * M * M)
    BY <1>a, <2>1
  <2>4. (g * g * g) * h = (M * M * M) * (h * A3)
    BY <2>3
  <2> QED
    BY <2>1, <2>2, <2>4
<1>8. PICK F \in Int, H \in Int : F = (M * M) * (M * M) /\ H = (g * g * g) * (y + yy)
  OBVIOUS
<1>9. F = H + 0 * p /\ 0 \in Int
  BY <1>7, <1>8, PrimeType
<1> QED
  BY <1>6, <1>8, <1>9, Zenon DEF Congruent, Fits

SpareNumbers(x, xx, y, yy, A, X, U, Y, M, D, g) ==
    /\ X = x * (A * A) /\ U = xx * (A * A) /\ Y = y * (A * A * A) /\ M = (y + yy) * (A * A * A)
    /\ D = (-U) + X /\ g = A * D

LEMMA DegenerateNumbers ==
    ASSUME NEW x \in Int, NEW xx \in Int, NEW y \in Int, NEW yy \in Int, NEW l \in Int,
           NEW A \in Int, NEW X \in Int, NEW U \in Int, NEW Y \in Int, NEW M \in Int, NEW D \in Int,
           NEW g \in Int, NEW m \in Int, NEW e \in Int,
           SpareNumbers(x, xx, y, yy, A, X, U, Y, M, D, g), M = m * p, y + yy = e * p,
           Congruent(l * (xx - x), yy - y)
    PROVE  Fits(Y * 2, M, l, g, y, yy)
<1>0. PICK P \in Int, k \in Int : P = p /\ l * (xx - x) = (yy - y) + k * P
  <2>1. PICK k \in Int : l * (xx - x) = (yy - y) + k * p
    BY DEF Congruent
  <2>2. p \in Int
    BY PrimeType
  <2> QED
    BY <2>1, <2>2, Zenon
<1>1. PICK A3 \in Int, c \in Int, d \in Int, g3 \in Int, f \in Int, h \in Int :
          /\ A3 = A * A * A /\ c = m + k * A3 /\ g3 = g * g * g /\ d = m - g3 * e /\ f = Y * 2
          /\ h = l * g
  <2>1. /\ A * A * A \in Int /\ m + k * (A * A * A) \in Int /\ g * g * g \in Int
        /\ m - (g * g * g) * e \in Int /\ Y * 2 \in Int /\ l * g \in Int
    OBVIOUS
  <2> QED
    BY <2>1, Zenon
<1>2. h = -((l * (xx - x)) * A3)
  BY <1>1 DEF SpareNumbers
<1>3. h = -(((yy - y) + k * P) * A3)
  BY <1>0, <1>2
<1>4. f = h + c * P
  <2>1. Y = y * A3 /\ M = (y + yy) * A3 /\ M = m * P
    BY <1>0, <1>1 DEF SpareNumbers
  <2>2. f = h + M + k * A3 * P
    BY <1>1, <1>3, <2>1
  <2> QED
    BY <1>1, <2>1, <2>2
<1>5. Congruent(Y * 2, l * g)
  <2>1. f = h + c * p
    BY <1>0, <1>4
  <2> QED
    BY <1>1, <2>1, Zenon DEF Congruent
<1>6. PICK v \in Int : v = g3 * (y + yy)
  OBVIOUS
<1>7. M = v + d * P
  <2>1. PICK w \in Int : w = y + yy /\ w = e * P
    BY <1>0
  <2> QED
    BY <1>0, <1>1, <1>6, <2>1
<1> QED
  <2>1. M = v + d * p
    BY <1>0, <1>7
  <2>2. v = (g * g * g) * (y + yy)
    BY <1>1, <1>6
  <2> QED
    BY <1>5, <2>1, <2>2, Zenon DEF Congruent, Fits

\* The result where a is finite.
GeFinite(a, b, C, T, rho, mu, N) ==
    \E u, v, w : \E Q \in Int, W \in Int :
        /\ Q = -((mu * mu) * T) /\ W = rho * rho + Q
        /\ Is(u, W * 4, 6) /\ Is(v, (-((W * 2 + Q) * rho + N)) * 4, 4)
        /\ Is(w, (C * mu) * 2, 2)
        /\ (C * mu) % p = 0 => add_ge(a, b) = Gej(u, v, w, TRUE)
        /\ (C * mu) % p # 0 => add_ge(a, b) = Gej(u, v, w, FALSE)

LEMMA GeFiniteIs ==
    ASSUME NEW T \in Int, NEW C \in Int, NEW rho \in Int, NEW mu \in Int, NEW N \in Int,
           NEW xx \in Int, NEW yy \in Int, NEW a, NEW b,
           GeResult(a, b, C, T, rho, mu, N), Is(b.x, xx, 6), Is(b.y, yy, 4), a.inf = FALSE
    PROVE  GeFinite(a, b, C, T, rho, mu, N)
<1>1. PICK u, v, w, z : \E Q \in Int, W \in Int :
        /\ Q = -((mu * mu) * T) /\ W = rho * rho + Q
        /\ Is(u, W * 4, 4) /\ Is(v, (-((W * 2 + Q) * rho + N)) * 4, 4)
        /\ Is(z, C * mu, 1) /\ Is(w, (C * mu) * 2, 2)
        /\ add_ge(a, b) = Gej(cmov(u, b.x, a.inf), cmov(v, b.y, a.inf),
                              cmov(w, set_int(1), a.inf), normalizes_to_zero(z) /\ ~a.inf)
  BY Zenon DEF GeResult
<1>2. PICK Q \in Int, W \in Int :
        /\ Q = -((mu * mu) * T) /\ W = rho * rho + Q
        /\ Is(u, W * 4, 4) /\ Is(v, (-((W * 2 + Q) * rho + N)) * 4, 4)
        /\ Is(z, C * mu, 1) /\ Is(w, (C * mu) * 2, 2)
        /\ add_ge(a, b) = Gej(cmov(u, b.x, a.inf), cmov(v, b.y, a.inf),
                              cmov(w, set_int(1), a.inf), normalizes_to_zero(z) /\ ~a.inf)
  BY <1>1, Zenon
<1>3. PICK V \in Int, S \in Int, Z \in Int, g \in Int :
          V = W * 4 /\ S = (-((W * 2 + Q) * rho + N)) * 4 /\ Z = (C * mu) * 2 /\ g = C * mu
  <2>1. W * 4 \in Int /\ (-((W * 2 + Q) * rho + N)) * 4 \in Int /\ (C * mu) * 2 \in Int /\ C * mu \in Int
    OBVIOUS
  <2> QED
    BY <2>1, Zenon
<1>4. Is(u, V, 4) /\ Is(v, S, 4) /\ Is(z, g, 1) /\ Is(w, Z, 2)
  BY <1>2, <1>3, Zenon
<1> DEFINE f(i) == cmov(u, b.x, i)
<1> DEFINE h(i) == cmov(v, b.y, i)
<1> DEFINE k(i) == cmov(w, set_int(1), i)
<1>5. Is(f(FALSE), V, 6) /\ Is(h(FALSE), S, 4) /\ Is(k(FALSE), Z, 2)
  <2>1. /\ 1 \in Int /\ 2 \in Int /\ 4 \in Int /\ 6 \in Int /\ 4 <= 6 /\ 6 <= 6 /\ 4 <= 4 /\ 1 <= 2
        /\ 2 <= 2 /\ 2 <= 32 /\ 4 <= 32 /\ 6 <= 32 /\ FALSE \in BOOLEAN
    OBVIOUS
  <2>2. Is(set_int(1), 1, 1)
    BY <2>1, SetIs, Zenon
  <2> QED
    BY <1>4, <2>1, <2>2, CmovIs, Zenon
<1>6. normalizes_to_zero(z) <=> g % p = 0
  BY <1>4, ZeroIs
<1>7. add_ge(a, b) = Gej(f(FALSE), h(FALSE), k(FALSE), normalizes_to_zero(z) /\ ~FALSE)
  BY <1>2, Zenon
<1>8. /\ g % p = 0 => add_ge(a, b) = Gej(f(FALSE), h(FALSE), k(FALSE), TRUE)
      /\ g % p # 0 => add_ge(a, b) = Gej(f(FALSE), h(FALSE), k(FALSE), FALSE)
  <2>1. g % p = 0 => (normalizes_to_zero(z) /\ ~FALSE) = TRUE
    BY <1>6, Zenon
  <2>2. g % p # 0 => (normalizes_to_zero(z) /\ ~FALSE) = FALSE
    BY <1>6, Zenon
  <2> QED
    BY <1>7, <2>1, <2>2, Zenon
<1> HIDE DEF f, h, k
<1> QED
  BY <1>2, <1>3, <1>5, <1>8, Zenon DEF GeFinite

\* The result on a slope l, if m_alt is not 0.
LEMMA GeFound ==
    ASSUME NEW x \in Int, NEW xx \in Int, NEW y \in Int, NEW yy \in Int, NEW l \in Int,
           NEW A \in Int, NEW T \in Int, NEW rho \in Int, NEW mu \in Int, NEW N \in Int,
           NEW g \in Int, NEW a, NEW b, NEW r \in Points,
           GeFinite(a, b, A, T, rho, mu, N), T = (x + xx) * (A * A), g = A * mu, g % p # 0,
           Congruent(rho, l * g), Congruent(l * (xx - x), yy - y),
           Congruent(N, (g * g * g) * (y + yy)),
           r = [x |-> (l * l - x - xx) % p, y |-> (l * (x - (l * l - x - xx)) - y) % p]
    PROVE  Stands(add_ge(a, b), r)
<1>1. PICK u, v, w : \E Q \in Int, W \in Int :
        /\ Q = -((mu * mu) * T) /\ W = rho * rho + Q
        /\ Is(u, W * 4, 6) /\ Is(v, (-((W * 2 + Q) * rho + N)) * 4, 4)
        /\ Is(w, (A * mu) * 2, 2)
        /\ (A * mu) % p = 0 => add_ge(a, b) = Gej(u, v, w, TRUE)
        /\ (A * mu) % p # 0 => add_ge(a, b) = Gej(u, v, w, FALSE)
  BY Zenon DEF GeFinite
<1>2. PICK Q \in Int, W \in Int :
        /\ Q = -((mu * mu) * T) /\ W = rho * rho + Q
        /\ Is(u, W * 4, 6) /\ Is(v, (-((W * 2 + Q) * rho + N)) * 4, 4)
        /\ Is(w, (A * mu) * 2, 2)
        /\ (A * mu) % p = 0 => add_ge(a, b) = Gej(u, v, w, TRUE)
        /\ (A * mu) % p # 0 => add_ge(a, b) = Gej(u, v, w, FALSE)
  BY <1>1, Zenon
<1>3. Q = -((g * g) * (x + xx))
  <2>1. (mu * mu) * T = (g * g) * (x + xx)
    OBVIOUS
  <2> QED
    BY <1>2, <2>1
<1>4. GeLaw(x, xx, y, l, g, rho, N, Q)
  BY <1>3, GeLawHolds, Zenon
<1>5. PICK X \in Int, Y \in Int, Z \in Int, V \in Int, S \in Int, F \in Int, H \in Int :
          /\ X = l * l - x - xx /\ Y = l * (x - X) - y /\ Z = g * 2
          /\ V = W * 4 /\ S = (-((W * 2 + Q) * rho + N)) * 4
          /\ F = X * (Z * Z) /\ H = Y * (Z * Z * Z)
  <2>1. PICK X \in Int, Z \in Int : X = l * l - x - xx /\ Z = g * 2
    OBVIOUS
  <2>2. PICK Y \in Int : Y = l * (x - X) - y
    OBVIOUS
  <2>3. /\ W * 4 \in Int /\ (-((W * 2 + Q) * rho + N)) * 4 \in Int
        /\ X * (Z * Z) \in Int /\ Y * (Z * Z * Z) \in Int
    OBVIOUS
  <2> QED
    BY <2>1, <2>2, <2>3, Zenon
<1>6. V % p = F % p /\ S % p = H % p
  BY <1>2, <1>4, <1>5, Zenon DEF GeLaw
<1>7. Is(u, V, 6) /\ Is(v, S, 4) /\ Is(w, Z, 2)
  BY <1>2, <1>5, Zenon
<1>8. Is(u, F, 6) /\ Is(v, H, 4)
  BY <1>6, <1>7, Also
<1>9. Z % p # 0
  <2>1. 2 % p # 0
    BY PrimeType
  <2> QED
    BY <1>5, <2>1, NoZeroProduct
<1>10. r = [x |-> X % p, y |-> Y % p]
  BY <1>5, Zenon
<1>11. Stands(Gej(u, v, w, FALSE), r)
  <2>1. Is(u, X * (Z * Z), 6) /\ Is(v, Y * (Z * Z * Z), 4)
    BY <1>5, <1>8, Zenon
  <2> QED
    BY <1>7, <1>9, <1>10, <2>1, FiniteStands, Zenon
<1> QED
  BY <1>2, <1>11, Zenon

LEMMA GeNone ==
    ASSUME NEW A \in Int, NEW T \in Int, NEW rho \in Int, NEW mu \in Int, NEW N \in Int,
           NEW a, NEW b,
           GeFinite(a, b, A, T, rho, mu, N), (A * mu) % p = 0
    PROVE  Stands(add_ge(a, b), Infinity)
<1>1. PICK u, v, w : \E Q \in Int, W \in Int :
        /\ Q = -((mu * mu) * T) /\ W = rho * rho + Q
        /\ Is(u, W * 4, 6) /\ Is(v, (-((W * 2 + Q) * rho + N)) * 4, 4)
        /\ Is(w, (A * mu) * 2, 2)
        /\ (A * mu) % p = 0 => add_ge(a, b) = Gej(u, v, w, TRUE)
        /\ (A * mu) % p # 0 => add_ge(a, b) = Gej(u, v, w, FALSE)
  BY Zenon DEF GeFinite
<1>2. PICK Q \in Int, W \in Int :
        /\ Is(u, W * 4, 6) /\ Is(v, (-((W * 2 + Q) * rho + N)) * 4, 4)
        /\ Is(w, (A * mu) * 2, 2)
        /\ add_ge(a, b) = Gej(u, v, w, TRUE)
  BY <1>1, Zenon
<1>3. W * 4 \in Int /\ (-((W * 2 + Q) * rho + N)) * 4 \in Int /\ (A * mu) * 2 \in Int
  OBVIOUS
<1> QED
  BY <1>2, <1>3, Zenon DEF Stands, AtInfinity

\* An infinite a: the result is b.
LEMMA GeFirst ==
    ASSUME NEW T \in Int, NEW C \in Int, NEW rho \in Int, NEW mu \in Int, NEW N \in Int,
           NEW a, NEW b, NEW t \in Points,
           GeResult(a, b, C, T, rho, mu, N), Is(b.x, t.x, 6), Is(b.y, t.y, 4), a.inf = TRUE
    PROVE  Stands(add_ge(a, b), t)
<1>0. PICK xx \in Int, yy \in Int, c \in Int :
               /\ t = [x |-> xx, y |-> yy] /\ 0 <= xx /\ xx < p /\ 0 <= yy /\ yy < p
               /\ yy * yy = xx * xx * xx + CURVE_B + c * p
  BY PointIs
<1>a. t.x = xx /\ t.y = yy
  BY <1>0
<1>1. PICK u, v, w, z : \E Q \in Int, W \in Int :
        /\ Q = -((mu * mu) * T) /\ W = rho * rho + Q
        /\ Is(u, W * 4, 4) /\ Is(v, (-((W * 2 + Q) * rho + N)) * 4, 4)
        /\ Is(z, C * mu, 1) /\ Is(w, (C * mu) * 2, 2)
        /\ add_ge(a, b) = Gej(cmov(u, b.x, a.inf), cmov(v, b.y, a.inf),
                              cmov(w, set_int(1), a.inf), normalizes_to_zero(z) /\ ~a.inf)
  BY Zenon DEF GeResult
<1>2. PICK Q \in Int, W \in Int :
        /\ Is(u, W * 4, 4) /\ Is(v, (-((W * 2 + Q) * rho + N)) * 4, 4)
        /\ Is(w, (C * mu) * 2, 2)
        /\ add_ge(a, b) = Gej(cmov(u, b.x, a.inf), cmov(v, b.y, a.inf),
                              cmov(w, set_int(1), a.inf), normalizes_to_zero(z) /\ ~a.inf)
  BY <1>1, Zenon
<1>3. PICK V \in Int, S \in Int, Z \in Int :
          V = W * 4 /\ S = (-((W * 2 + Q) * rho + N)) * 4 /\ Z = (C * mu) * 2
  <2>1. W * 4 \in Int /\ (-((W * 2 + Q) * rho + N)) * 4 \in Int /\ (C * mu) * 2 \in Int
    OBVIOUS
  <2> QED
    BY <2>1, Zenon
<1>4. Is(u, V, 4) /\ Is(v, S, 4) /\ Is(w, Z, 2) /\ Is(b.x, xx, 6) /\ Is(b.y, yy, 4)
  BY <1>a, <1>2, <1>3, Zenon
<1> DEFINE f(i) == cmov(u, b.x, i)
<1> DEFINE h(i) == cmov(v, b.y, i)
<1> DEFINE k(i) == cmov(w, set_int(1), i)
<1>5. Is(f(TRUE), xx, 6) /\ Is(h(TRUE), yy, 4) /\ Is(k(TRUE), 1, 2) /\ 1 \in Int
  <2>1. /\ 1 \in Int /\ 2 \in Int /\ 4 \in Int /\ 6 \in Int /\ 4 <= 6 /\ 6 <= 6 /\ 4 <= 4 /\ 1 <= 2
        /\ 2 <= 2 /\ 2 <= 32 /\ 4 <= 32 /\ 6 <= 32 /\ TRUE \in BOOLEAN
    OBVIOUS
  <2>2. Is(set_int(1), 1, 1)
    BY <2>1, SetIs, Zenon
  <2> QED
    BY <1>4, <2>1, <2>2, CmovIs, Zenon
<1>6. (normalizes_to_zero(z) /\ ~TRUE) = FALSE
  BY Zenon
<1>7. add_ge(a, b) = Gej(f(TRUE), h(TRUE), k(TRUE), FALSE)
  BY <1>2, <1>6, Zenon
<1> HIDE DEF f, h, k
<1>8. xx * (1 * 1) = xx /\ yy * (1 * 1 * 1) = yy /\ 1 % p # 0
  BY PrimeType
<1>9. Finite(add_ge(a, b), t, 1)
  BY <1>a, <1>5, <1>7, <1>8, Zenon DEF Finite
<1> QED
  BY <1>5, <1>8, <1>9, Zenon DEF Stands

LEMMA SumIsZero ==
    ASSUME NEW y \in Int, NEW yy \in Int, NEW A \in Int, NEW M \in Int,
           0 < y, y < p, 0 < yy, yy < p, A % p # 0, M = (y + yy) * (A * A * A)
    PROVE  M % p = 0 <=> y + yy = p
<1>1. PICK h \in Int, A2 \in Int, A3 \in Int : h = y + yy /\ A2 = A * A /\ A3 = A2 * A
  OBVIOUS
<1>2. A2 % p # 0
  BY <1>1, NoZeroProduct
<1>3. A3 % p # 0
  BY <1>1, <1>2, NoZeroProduct
<1>4. M = h * A3
  BY <1>1
<1>5. ASSUME M % p = 0
      PROVE  h = p
  <2>1. h % p = 0
    BY <1>3, <1>4, <1>5, NoZeroProduct
  <2>2. PICK q \in Int : h = q * p + 0
    BY <2>1, Quotient
  <2>3. q = 1
    BY <1>1, <2>2, PrimeType
  <2> QED
    BY <2>2, <2>3, PrimeType
<1>6. ASSUME h = p
      PROVE  M % p = 0
  <2>1. M = A3 * p
    BY <1>4, <1>6, PrimeType
  <2> QED
    BY <2>1, NoRest
<1> QED
  BY <1>1, <1>5, <1>6

LEMMA AddGeStands ==
    ASSUME NEW a, NEW b, NEW s, NEW t \in Points, Stands(a, s), StandsGe(b, t)
    PROVE  Stands(add_ge(a, b), Plus(s, t))
<1>1. PICK u0, v0 : \E xx \in Int, yy \in Int : AffineForm(b, t, xx, yy, u0, v0)
  BY GeForm, Zenon
<1>2. PICK xx \in Int, yy \in Int : AffineForm(b, t, xx, yy, u0, v0)
  BY <1>1, Zenon
<1>3. /\ t.x = xx /\ t.y = yy /\ 0 <= xx /\ xx < p /\ 0 <= yy /\ yy < p
      /\ Is(b.x, xx, 6) /\ Is(b.y, yy, 4) /\ t = [x |-> xx, y |-> yy]
  BY <1>2, Zenon DEF AffineForm
<1>4. CASE s = Infinity
  <2>1. AtInfinity(a)
    BY <1>4, InfinityForm, Zenon
  <2>2. PICK u, v, w : /\ a = Gej(u, v, w, TRUE)
            /\ \E X \in Int, Y \in Int, C \in Int : Is(u, X, 6) /\ Is(v, Y, 4) /\ Is(w, C, 2)
    BY <2>1, Zenon DEF AtInfinity
  <2>3. PICK X \in Int, Y \in Int, C \in Int : Is(u, X, 6) /\ Is(v, Y, 4) /\ Is(w, C, 2)
    BY <2>2, Zenon
  <2>4. Is(a.x, X, 6) /\ Is(a.y, Y, 4) /\ Is(a.z, C, 2) /\ a.inf = TRUE
    <3>1. /\ Gej(u, v, w, TRUE).x = u /\ Gej(u, v, w, TRUE).y = v /\ Gej(u, v, w, TRUE).z = w
          /\ Gej(u, v, w, TRUE).inf = TRUE
      BY Zenon DEF Gej
    <3> QED
      BY <2>2, <2>3, <3>1, Zenon
  <2>5. PICK U \in Int, V \in Int, T \in Int, M \in Int, R \in Int, D \in Int :
            /\ U = xx * (C * C) /\ V = (yy * (C * C)) * C
            /\ T = X + U /\ M = Y + V /\ R = T * T + X * (-U) /\ D = (-U) + X
    OBVIOUS
  <2>6a. GeChosen(a, b, C, T, M, R, Y, D)
    BY <1>3, <2>4, <2>5, GeMade, Zenon
  <2>6. PICK rho \in Int, mu \in Int, N \in Int : GeResult(a, b, C, T, rho, mu, N)
    BY <2>6a, Zenon DEF GeChosen
  <2>7. Stands(add_ge(a, b), t)
    BY <1>3, <2>4, <2>6, GeFirst, Zenon
  <2>8. Plus(s, t) = t
    BY <1>4, Zenon DEF Plus
  <2> QED
    BY <2>7, <2>8, Zenon
<1>5. CASE s # Infinity
  <2>1. s \in Points
    BY <1>5, Zenon DEF Stands
  <2>2. PICK u, v, w : \E A \in Int, x \in Int, y \in Int : Form(a, s, A, x, y, u, v, w)
    BY <2>1, FiniteForm, Zenon
  <2>3. PICK A \in Int, x \in Int, y \in Int : Form(a, s, A, x, y, u, v, w)
    BY <2>2, Zenon
  <2>4. /\ s = [x |-> x, y |-> y] /\ 0 <= x /\ x < p /\ 0 <= y /\ y < p
        /\ s.x = x /\ s.y = y /\ A % p # 0 /\ a = Gej(u, v, w, FALSE)
        /\ Is(a.x, x * (A * A), 6) /\ Is(a.y, y * (A * A * A), 4) /\ Is(a.z, A, 2)
    BY <2>3, Zenon DEF Form
  <2>5. a.inf = FALSE
    <3>1. Gej(u, v, w, FALSE).inf = FALSE
      BY Zenon DEF Gej
    <3> QED
      BY <2>4, <3>1, Zenon
  <2>6. PICK X \in Int, Y \in Int, U \in Int, V \in Int, T \in Int, M \in Int, R \in Int, D \in Int :
            /\ X = x * (A * A) /\ Y = y * (A * A * A)
            /\ U = xx * (A * A) /\ V = (yy * (A * A)) * A
            /\ T = X + U /\ M = Y + V /\ R = T * T + X * (-U) /\ D = (-U) + X
    OBVIOUS
  <2>7. Is(a.x, X, 6) /\ Is(a.y, Y, 4)
    BY <2>4, <2>6, Zenon
  <2>8a. GeChosen(a, b, A, T, M, R, Y, D)
    <3>1. Is(a.x, X, 6) /\ Is(a.y, Y, 4) /\ Is(a.z, A, 2) /\ Is(b.x, xx, 6) /\ Is(b.y, yy, 4)
      BY <1>3, <2>4, <2>7, Zenon
    <3>2. /\ U = xx * (A * A) /\ V = (yy * (A * A)) * A
          /\ T = X + U /\ M = Y + V /\ R = T * T + X * (-U) /\ D = (-U) + X
      BY <2>6, Zenon
    <3> QED
      BY <3>1, <3>2, GeMade, Zenon
  <2>8. PICK rho \in Int, mu \in Int, N \in Int :
            GeSum(T, M, R, Y, D, rho, mu, N) /\ GeResult(a, b, A, T, rho, mu, N)
    BY <2>8a, Zenon DEF GeChosen
  <2>9. GeFinite(a, b, A, T, rho, mu, N)
    BY <1>3, <2>5, <2>8, GeFiniteIs, Zenon
  <2>10. M = (y + yy) * (A * A * A) /\ T = (x + xx) * (A * A)
    BY <2>6
  <2>11. 0 < y /\ 0 < yy
    BY <1>3, <2>1, <2>4, NoHalf
  <2>12. M % p = 0 <=> y + yy = p
    BY <1>3, <2>4, <2>10, <2>11, SumIsZero
  <2>13. t = Opposite(s) <=> x = xx /\ y + yy = p
    <3>1. Opposite(s) = [x |-> x, y |-> p - y]
      BY <2>1, <2>4, OppositeIs
    <3> QED
      BY <1>3, <3>1, PrimeType
  <2>14. t = Opposite(s) => Plus(s, t) = Infinity
    <3>1. s # Infinity /\ t # Infinity
      BY <2>1, NoInfinity
    <3> QED
      BY <3>1, Zenon DEF Plus
  <2>15. ASSUME t # Opposite(s)
         PROVE  \E l \in Int :
               /\ Congruent(l * (xx - x), yy - y)
               /\ Congruent(l * (y + yy), x * x + x * xx + xx * xx)
               /\ Plus(s, t) = [x |-> (l * l - x - xx) % p,
                                y |-> (l * (x - (l * l - x - xx)) - y) % p]
               /\ Plus(s, t) \in Points
    <3>1. PICK l \in Int, k \in Int, j \in Int :
               /\ l * (t.x - s.x) = (t.y - s.y) + k * p
               /\ l * (s.y + t.y) = (s.x * s.x + s.x * t.x + t.x * t.x) + j * p
               /\ Plus(s, t) = [x |-> (l * l - s.x - t.x) % p,
                                y |-> (l * (s.x - (l * l - s.x - t.x)) - s.y) % p]
               /\ Plus(s, t) \in Points
      BY <2>1, <2>15, PlusIs, Zenon
    <3> QED
      BY <1>3, <2>4, <3>1, Zenon DEF Congruent
  <2>16. PICK g \in Int : g = A * mu
    OBVIOUS
  <2>17. CASE M % p = 0 /\ R % p = 0 /\ rho = Y * 2 /\ mu = D /\ N = M
    <3>1. CASE x = xx
      <4>1. t = Opposite(s)
        BY <2>12, <2>13, <2>17, <3>1, Zenon
      <4>2. A * mu = 0 /\ 0 % p = 0
        BY <2>6, <2>17, <3>1, PrimeType
      <4>3. Stands(add_ge(a, b), Infinity)
        BY <2>9, <4>2, GeNone, Zenon
      <4> QED
        BY <2>14, <4>1, <4>3, Zenon
    <3>2. CASE x # xx
      <4>1. PICK l \in Int : /\ Congruent(l * (xx - x), yy - y)
               /\ Plus(s, t) = [x |-> (l * l - x - xx) % p,
                                y |-> (l * (x - (l * l - x - xx)) - y) % p]
               /\ Plus(s, t) \in Points
        BY <2>13, <2>15, <3>2, Zenon
      <4>2. y + yy = 1 * p /\ 1 \in Int
        BY <2>12, <2>17, PrimeType
      <4>3. PICK m \in Int : M = m * p
        <5>1. PICK m \in Int : M = m * p + 0
          BY <2>17, Quotient
        <5> QED
          BY <5>1, PrimeType
      <4>4. Fits(Y * 2, M, l, g, y, yy)
        <5>1. g = A * D
          BY <2>16, <2>17, Zenon
        <5> QED
          <6>1. SpareNumbers(x, xx, y, yy, A, X, U, Y, M, D, g)
            BY <2>6, <2>10, <5>1, Zenon DEF SpareNumbers
          <6>2. Congruent(l * (xx - x), yy - y)
            BY <4>1, Zenon
          <6> QED
            BY <4>2, <4>3, <5>1, <6>1, <6>2, DegenerateNumbers, ZenonT(60)
      <4>5. g % p # 0
        <5>1. (x - xx) % p # 0
          <6>1. SUFFICES ASSUME (x - xx) % p = 0 PROVE FALSE
            OBVIOUS
          <6>2. PICK q \in Int : x - xx = q * p + 0
            BY <6>1, Quotient
          <6>3. q = 0
            BY <1>3, <2>4, <6>2, PrimeType
          <6> QED
            BY <3>2, <6>2, <6>3, PrimeType
        <5>2. PICK d \in Int, A2 \in Int : d = x - xx /\ A2 = A * A
          OBVIOUS
        <5>3. A2 % p # 0
          BY <2>4, <5>2, NoZeroProduct
        <5>4. D = d * A2
          BY <2>6, <5>2
        <5>5. D % p # 0
          BY <5>1, <5>2, <5>3, <5>4, NoZeroProduct
        <5> QED
          BY <2>4, <2>16, <2>17, <5>5, NoZeroProduct
      <4> QED
        BY <2>9, <2>10, <2>16, <2>17, <4>1, <4>4, <4>5, GeFound, Zenon DEF Fits
    <3> QED
      BY <3>1, <3>2
  <2>18. CASE ~(M % p = 0 /\ R % p = 0) /\ rho = R /\ mu = M /\ N = (M * M) * (M * M)
    <3>0. ASSUME NEW l \in Int, Congruent(l * (y + yy), x * x + x * xx + xx * xx)
          PROVE  Fits(R, (M * M) * (M * M), l, g, y, yy)
      <4>1. g = A * M
        BY <2>16, <2>18, Zenon
      <4> QED
        <5>1. SumNumbers(x, xx, y, yy, A, X, U, T, M, R, g)
          BY <2>6, <2>10, <4>1, Zenon DEF SumNumbers
        <5> QED
          BY <3>0, <5>1, CommonNumbers, Zenon
    <3>1. CASE M % p = 0
      <4>1. g % p = 0
        <5>1. PICK m \in Int : M = m * p + 0
          BY <3>1, Quotient
        <5>2. PICK c \in Int : c = A * m
          OBVIOUS
        <5>3. g = c * p
          BY <2>16, <2>18, <5>1, <5>2, PrimeType
        <5> QED
          BY <5>3, NoRest
      <4>2. t = Opposite(s)
        <5>1. SUFFICES ASSUME t # Opposite(s) PROVE FALSE
          OBVIOUS
        <5>2. PICK l \in Int : Congruent(l * (y + yy), x * x + x * xx + xx * xx)
          BY <2>15, <5>1, Zenon
        <5>3. Congruent(R, l * g)
          BY <3>0, <5>2, Zenon DEF Fits
        <5>4. PICK k \in Int : R = l * g + k * p
          BY <5>3 DEF Congruent
        <5>5. PICK q \in Int : g = q * p + 0
          BY <4>1, Quotient
        <5>6. PICK c \in Int : c = l * q + k
          OBVIOUS
        <5>7. R = c * p
          BY <5>4, <5>5, <5>6, PrimeType
        <5>8. R % p = 0
          BY <5>7, NoRest
        <5> QED
          BY <2>18, <3>1, <5>8, Zenon
      <4>3. Stands(add_ge(a, b), Infinity)
        BY <2>9, <2>16, <4>1, GeNone, Zenon
      <4> QED
        BY <2>14, <4>2, <4>3, Zenon
    <3>2. CASE M % p # 0
      <4>1. t # Opposite(s)
        BY <2>12, <2>13, <3>2, Zenon
      <4>2. PICK l \in Int : /\ Congruent(l * (xx - x), yy - y)
               /\ Congruent(l * (y + yy), x * x + x * xx + xx * xx)
               /\ Plus(s, t) = [x |-> (l * l - x - xx) % p,
                                y |-> (l * (x - (l * l - x - xx)) - y) % p]
               /\ Plus(s, t) \in Points
        BY <2>15, <4>1, Zenon
      <4>3. Fits(R, (M * M) * (M * M), l, g, y, yy)
        BY <3>0, <4>2, Zenon
      <4>4. g % p # 0
        BY <2>4, <2>16, <2>18, <3>2, NoZeroProduct
      <4> QED
        BY <2>9, <2>10, <2>16, <2>18, <4>2, <4>3, <4>4, GeFound, Zenon DEF Fits
    <3> QED
      BY <3>1, <3>2
  <2> QED
    BY <2>8, <2>17, <2>18, Zenon DEF GeSum
<1> QED
  BY <1>4, <1>5

-----------------------------------------------------------------------------
(* Points as the rest of the library makes them                            *)

LEMMA AffineStands ==
    ASSUME NEW t, t \in Points \/ t = Infinity
    PROVE  StandsGe(Affine(t), t)
<1>1. CASE t = Infinity
  <2>1. Is(fe_clear, 0, 6) /\ Is(fe_clear, 0, 4) /\ 0 \in Int
    BY ClearIs, Also
  <2>2. Affine(t) = Ge(fe_clear, fe_clear, TRUE)
    BY <1>1, Zenon DEF Affine
  <2> QED
    BY <1>1, <2>1, <2>2, Zenon DEF StandsGe
<1>2. CASE t \in Points
  <2>1. PICK x \in Int, y \in Int, k \in Int :
               /\ t = [x |-> x, y |-> y] /\ 0 <= x /\ x < p /\ 0 <= y /\ y < p
               /\ y * y = x * x * x + CURVE_B + k * p
    BY <1>2, PointIs
  <2>2. t.x = x /\ t.y = y /\ t # Infinity
    BY <1>2, <2>1, NoInfinity
  <2>3. Is(set_int(x), x, 6) /\ Is(set_int(y), y, 4)
    BY SetIs, Also
  <2>4. Affine(t) = Ge(set_int(x), set_int(y), FALSE)
    BY <2>2, Zenon DEF Affine
  <2> QED
    BY <1>2, <2>2, <2>3, <2>4, Zenon DEF StandsGe
<1> QED
  BY <1>1, <1>2

LEMMA GeNegParts ==
    ASSUME NEW u, NEW v, NEW i
    PROVE  ge_neg(Ge(u, v, i)) = Ge(u, fe_negate(normalize_weak(v), 1), i)
  BY DEF ge_neg, Ge

LEMMA GeNegStands ==
    ASSUME NEW b, NEW t \in Points, StandsGe(b, t)
    PROVE  StandsGe(ge_neg(b), Opposite(t))
<1>1. PICK u, v : \E x \in Int, y \in Int : AffineForm(b, t, x, y, u, v)
  BY GeForm, Zenon
<1>2. PICK x \in Int, y \in Int : AffineForm(b, t, x, y, u, v)
  BY <1>1, Zenon
<1>3. t.x = x /\ t.y = y /\ b = Ge(u, v, FALSE) /\ Is(u, x, 6) /\ Is(v, y, 4)
  BY <1>2, Zenon DEF AffineForm
<1> DEFINE f == fe_negate(normalize_weak(v), 1)
<1>4. Is(f, -y, 4) /\ -y \in Int
  BY <1>3, NegatedIs
<1>5. Is(f, p - y, 4)
  <2>1. p - y = (-y) + 1 * p /\ p - y \in Int /\ 1 \in Int
    BY PrimeType
  <2>2. (-y) % p = (p - y) % p
    BY <1>4, <2>1, Same
  <2> QED
    BY <1>4, <2>1, <2>2, Also
<1>6. ge_neg(b) = Ge(u, f, FALSE)
  <2>1. \A i : ge_neg(Ge(u, v, i)) = Ge(u, f, i)
    BY GeNegParts, Zenon
  <2> QED
    BY <1>3, <2>1, Zenon
<1>7. Opposite(t) \in Points /\ Opposite(t).x = x /\ Opposite(t).y = p - y
  BY <1>3, OppositeIs
<1> QED
  BY <1>3, <1>5, <1>6, <1>7, Zenon DEF StandsGe

LEMMA InfinityStands == Stands(gej_set_infinity, Infinity)
<1>1. Is(fe_clear, 0, 6) /\ Is(fe_clear, 0, 4) /\ Is(fe_clear, 0, 2) /\ 0 \in Int
  BY ClearIs, Also
<1> QED
  BY <1>1, Zenon DEF Stands, AtInfinity, gej_set_infinity

\* A point on some z.
LEMMA OnZ ==
    ASSUME NEW t, t \in Points \/ t = Infinity, NEW z \in Int, z % p # 0
    PROVE  Stands(rescale(set_ge(Affine(t)), set_int(z)), t)
<1>1. Stands(set_ge(Affine(t)), t)
  BY AffineStands, SetGeStands
<1>2. Is(set_int(z), z, 2)
  BY SetIs, Also
<1> QED
  BY <1>1, <1>2, RescaleStands, Zenon

-----------------------------------------------------------------------------
(* What is read of a point                                                 *)

LEMMA OnCurveIs ==
    ASSUME NEW A \in Int, NEW B \in Int, NEW C \in Int, NEW m \in Int, NEW yy, NEW xxx, NEW b,
           Is(yy, A, 1), Is(xxx, B, 1), Is(b, C, m), m <= 31
    PROVE  OnCurve(yy, xxx, b) <=> A % p = (B + C) % p
<1>1. Is(fe_add(xxx, b), B + C, 1 + m) /\ B + C \in Int /\ 1 + m \in Int /\ 1 + m <= 32
  BY AddIs
<1>2. Is(normalize_weak(fe_add(xxx, b)), B + C, 1)
  BY <1>1, WeakIs
<1>3. fe_equal(yy, normalize_weak(fe_add(xxx, b))) <=> A % p = (B + C) % p
  BY <1>1, <1>2, EqualIs
<1> QED
  BY <1>3 DEF OnCurve

LEMMA GeIsValid ==
    ASSUME NEW t \in Points, NEW u, NEW v, Is(u, t.x, 1), Is(v, t.y, 1)
    PROVE  ge_is_valid_var(Ge(u, v, FALSE))
<1>1. PICK x \in Int, y \in Int, k \in Int :
               /\ t = [x |-> x, y |-> y] /\ 0 <= x /\ x < p /\ 0 <= y /\ y < p
               /\ y * y = x * x * x + CURVE_B + k * p
  BY PointIs
<1>2. Is(u, x, 1) /\ Is(v, y, 1)
  BY <1>1
<1>3. Is(sqr(v), y * y, 1) /\ Is(sqr(u), x * x, 1) /\ x * x \in Int /\ y * y \in Int
  BY <1>2, SqrIs
<1>4. Is(mul(sqr(u), u), x * x * x, 1) /\ x * x * x \in Int
  BY <1>2, <1>3, MulIs
<1>5. Is(set_int(CURVE_B), CURVE_B, 1) /\ CURVE_B \in Int
  BY CurveType, SetIs
<1>6. (y * y) % p = (x * x * x + CURVE_B) % p
  <2>1. x * x * x + CURVE_B \in Int
    BY <1>4, <1>5
  <2> QED
    BY <1>1, <1>3, <2>1, Same
<1>7. OnCurve(sqr(v), mul(sqr(u), u), set_int(CURVE_B))
  BY <1>3, <1>4, <1>5, <1>6, OnCurveIs
<1>8. Ge(u, v, FALSE).x = u /\ Ge(u, v, FALSE).y = v /\ ~Ge(u, v, FALSE).inf
  BY Zenon DEF Ge
<1> QED
  BY <1>7, <1>8, Zenon DEF ge_is_valid_var

LEMMA GejIsValid ==
    ASSUME NEW a, NEW t \in Points, Stands(a, t)
    PROVE  gej_is_valid_var(a)
<1>1. PICK u, v, w : \E n \in Int, x \in Int, y \in Int : Form(a, t, n, x, y, u, v, w)
  BY FiniteForm, Zenon
<1>2. PICK n \in Int, x \in Int, y \in Int : Form(a, t, n, x, y, u, v, w)
  BY <1>1, Zenon
<1>3. /\ t.x = x /\ t.y = y /\ ~a.inf
      /\ Is(a.x, x * (n * n), 6) /\ Is(a.y, y * (n * n * n), 4) /\ Is(a.z, n, 2)
  BY <1>2, Zenon DEF Form
<1>4. PICK b \in Int, k \in Int : b = CURVE_B /\ y * y = x * x * x + b + k * p /\ b <= 31 /\ 0 <= b
  <2>1. PICK xx \in Int, yy \in Int, k \in Int :
               /\ t = [x |-> xx, y |-> yy] /\ 0 <= xx /\ xx < p /\ 0 <= yy /\ yy < p
               /\ yy * yy = xx * xx * xx + CURVE_B + k * p
    BY PointIs
  <2>2. xx = x /\ yy = y
    BY <1>3, <2>1
  <2>3. CURVE_B \in Int /\ CURVE_B <= 31 /\ 0 <= CURVE_B
    BY CurveAssumption
  <2> QED
    BY <2>1, <2>2, <2>3, Zenon
<1>5. PICK X \in Int, Y \in Int, n2 \in Int, n6 \in Int :
          X = x * (n * n) /\ Y = y * (n * n * n) /\ n2 = n * n /\ n6 = (n2 * n2) * n2
  OBVIOUS
<1>6. Is(a.x, X, 6) /\ Is(a.y, Y, 4)
  BY <1>3, <1>5, Zenon
<1>7. Is(sqr(a.y), Y * Y, 1) /\ Is(sqr(a.x), X * X, 1) /\ X * X \in Int /\ Y * Y \in Int
  BY <1>6, SqrIs
<1>8. Is(mul(sqr(a.x), a.x), X * X * X, 1) /\ X * X * X \in Int
  BY <1>6, <1>7, MulIs
<1>9. Is(sqr(a.z), n2, 1)
  BY <1>3, <1>5, SqrIs
<1>10. Is(sqr(sqr(a.z)), n2 * n2, 1) /\ n2 * n2 \in Int
  BY <1>9, SqrIs
<1>11. Is(mul(sqr(sqr(a.z)), sqr(a.z)), n6, 1)
  BY <1>5, <1>9, <1>10, MulIs
<1> DEFINE z6 == mul(sqr(sqr(a.z)), sqr(a.z))
<1> HIDE DEF z6
<1>12. Is(mul_int(z6, b), n6 * b, b) /\ n6 * b \in Int
  <2>1. Is(z6, n6, 1) /\ 1 * b = b
    BY <1>11 DEF z6
  <2>2. Is(mul_int(z6, b), n6 * b, 1 * b)
    BY <1>4, <2>1, IntIs
  <2> QED
    BY <2>1, <2>2
<1>13. (Y * Y) % p = (X * X * X + n6 * b) % p
  <2>1. PICK P \in Int, c \in Int : P = p /\ c = k * n6
    BY PrimeType
  <2>2. Y * Y = (y * y) * n6 /\ X * X * X = (x * x * x) * n6
    BY <1>5
  <2>3. y * y = x * x * x + b + k * P
    BY <1>4, <2>1
  <2>4. Y * Y = (X * X * X + n6 * b) + c * P
    BY <2>1, <2>2, <2>3
  <2>5. PICK F \in Int, H \in Int : F = Y * Y /\ H = X * X * X + n6 * b
    OBVIOUS
  <2>6. F = H + c * p
    BY <2>1, <2>4, <2>5
  <2> QED
    BY <2>5, <2>6, Same
<1>14. OnCurve(sqr(a.y), mul(sqr(a.x), a.x), mul_int(z6, b))
  BY <1>4, <1>7, <1>8, <1>12, <1>13, OnCurveIs
<1> QED
  BY <1>3, <1>4, <1>14, Zenon DEF gej_is_valid_var, z6

LEMMA EqXIs ==
    ASSUME NEW a, NEW t \in Points, NEW X \in Int, NEW m \in Int, NEW x,
           Stands(a, t), Is(x, X, m), m <= 8
    PROVE  eq_x_var(x, a) <=> X % p = t.x
<1>1. PICK u, v, w : \E n \in Int, i \in Int, y \in Int : Form(a, t, n, i, y, u, v, w)
  BY FiniteForm, Zenon
<1>2. PICK n \in Int, i \in Int, y \in Int : Form(a, t, n, i, y, u, v, w)
  BY <1>1, Zenon
<1>3. /\ t.x = i /\ 0 <= i /\ i < p /\ n % p # 0
      /\ Is(a.x, i * (n * n), 6) /\ Is(a.z, n, 2)
  BY <1>2, Zenon DEF Form
<1>4. PICK n2 \in Int, I \in Int, O \in Int : n2 = n * n /\ I = i * n2 /\ O = n2 * X
  OBVIOUS
<1>5. Is(a.x, I, 6)
  BY <1>3, <1>4, Zenon
<1>6. Is(sqr(a.z), n2, 1)
  BY <1>3, <1>4, SqrIs
<1>7. Is(mul(sqr(a.z), x), O, 1)
  BY <1>4, <1>6, MulIs
<1>8. Is(normalize_weak(a.x), I, 1)
  BY <1>5, WeakIs
<1>9. eq_x_var(x, a) <=> O % p = I % p
  <2>1. fe_equal(mul(sqr(a.z), x), normalize_weak(a.x)) <=> O % p = I % p
    BY <1>7, <1>8, EqualIs
  <2> QED
    BY <2>1 DEF eq_x_var
<1>10. n2 % p # 0
  BY <1>3, <1>4, NoZeroProduct
<1>11. O = X * n2
  BY <1>4
<1>12. O % p = I % p <=> X % p = i % p
  <2>1. O % p = I % p => X % p = i % p
    BY <1>4, <1>10, <1>11, Cancel
  <2>2. X % p = i % p => O % p = I % p
    <3>1. SUFFICES ASSUME X % p = i % p PROVE O % p = I % p
      OBVIOUS
    <3>a. n2 % p \in Int
      BY SameOfSame
    <3>2. (X * n2) % p = (i * n2) % p
      BY <3>1, <3>a, SameProduct
    <3> QED
      BY <1>4, <1>11, <3>2
  <2> QED
    BY <2>1, <2>2
<1>13. i % p = i
  BY <1>3, PrimeType
<1> QED
  BY <1>3, <1>9, <1>12, <1>13

\* A root of what has one.
LEMMA Rooted ==
    ASSUME NEW A \in Int, NEW y \in Int, NEW m \in Int, NEW a, Is(a, A, m), m <= 8,
           (y * y) % p = A % p
    PROVE  /\ fe_sqrt(a).ok
           /\ \E R \in Int : Is(fe_sqrt(a).r, R, 1) /\ R % p \in {y % p, (-y) % p}
<1>1. PICK R \in Int :
             /\ Is(fe_sqrt(a).r, R, 1)
             /\ (fe_sqrt(a).ok <=> (R * R) % p = A % p)
             /\ \A z \in Int : (z * z) % p = A % p => R % p \in {z % p, (-z) % p}
  BY RootIs
<1>2. R % p \in {y % p, (-y) % p} /\ -y \in Int
  BY <1>1
<1>3. (R * R) % p = (y * y) % p
  <2>1. CASE R % p = y % p
    BY <2>1, SameProduct
  <2>2. CASE R % p = (-y) % p
    <3>1. (R * R) % p = ((-y) * (-y)) % p
      BY <1>2, <2>2, SameProduct
    <3>2. (-y) * (-y) = y * y
      OBVIOUS
    <3> QED
      BY <3>1, <3>2
  <2> QED
    BY <1>2, <2>1, <2>2
<1> QED
  BY <1>1, <1>2, <1>3

LEMMA IsQuadIs ==
    ASSUME NEW A \in Int, NEW m \in Int, NEW a, Is(a, A, m), m <= 8
    PROVE  is_quad_var(a) <=> \E y \in Int : (y * y) % p = A % p
<1>1. PICK R \in Int :
             /\ Is(fe_sqrt(a).r, R, 1)
             /\ (fe_sqrt(a).ok <=> (R * R) % p = A % p)
             /\ \A z \in Int : (z * z) % p = A % p => R % p \in {z % p, (-z) % p}
  BY RootIs
<1>2. ASSUME fe_sqrt(a).ok
      PROVE  \E y \in Int : (y * y) % p = A % p
  BY <1>1, <1>2
<1>3. ASSUME NEW y \in Int, (y * y) % p = A % p
      PROVE  fe_sqrt(a).ok
  BY <1>3, Rooted
<1> QED
  BY <1>2, <1>3 DEF is_quad_var

LEMMA HasQuadIs ==
    ASSUME NEW a, NEW t \in Points, Stands(a, t)
    PROVE  has_quad_y_var(a) <=> \E k \in 1 .. p - 1 : (k * k) % p = t.y
<1>1. PICK u, v, w : \E n \in Int, x \in Int, y \in Int : Form(a, t, n, x, y, u, v, w)
  BY FiniteForm, Zenon
<1>2. PICK n \in Int, x \in Int, y \in Int : Form(a, t, n, x, y, u, v, w)
  BY <1>1, Zenon
<1>3. /\ t.y = y /\ 0 <= y /\ y < p /\ ~a.inf /\ n % p # 0
      /\ Is(a.y, y * (n * n * n), 4) /\ Is(a.z, n, 2)
  BY <1>2, Zenon DEF Form
<1>4. PICK Y \in Int, n2 \in Int, O \in Int : Y = y * (n * n * n) /\ n2 = n * n /\ O = Y * n
  OBVIOUS
<1>5. Is(a.y, Y, 4)
  BY <1>3, <1>4, Zenon
<1>6. Is(mul(a.y, a.z), O, 1)
  BY <1>3, <1>4, <1>5, MulIs
<1>7. has_quad_y_var(a) <=> \E z \in Int : (z * z) % p = O % p
  <2>1. is_quad_var(mul(a.y, a.z)) <=> \E z \in Int : (z * z) % p = O % p
    BY <1>6, IsQuadIs
  <2> QED
    BY <1>3, <2>1, Zenon DEF has_quad_y_var
<1>8. O = y * (n2 * n2) /\ n2 % p # 0 /\ y % p = y
  <2>1. O = y * (n2 * n2)
    BY <1>4
  <2>2. n2 % p # 0
    BY <1>3, <1>4, NoZeroProduct
  <2> QED
    BY <1>3, <2>1, <2>2, PrimeType
<1>9. ASSUME NEW z \in Int, (z * z) % p = O % p
      PROVE  \E k \in 1 .. p - 1 : (k * k) % p = t.y
  <2>1. PICK i \in 1 .. p - 1 : (n2 * i) % p = 1
    BY <1>8, HasInverse
  <2>2. PICK c \in Int, h \in Int, j \in Int : c = z * i /\ h = n2 * i /\ i \in Int /\ j = i * i
    OBVIOUS
  <2>3. ((z * z) * j) % p = (O * j) % p
    <3>1. PICK q \in Int : q = z * z
      OBVIOUS
    <3>a. j % p \in Int
      BY SameOfSame
    <3>2. (q * j) % p = (O * j) % p
      BY <1>9, <3>1, <3>a, SameProduct
    <3> QED
      BY <3>1, <3>2
  <2>4. c * c = (z * z) * j /\ O * j = y * (h * h)
    BY <1>8, <2>2
  <2>5. (y * (h * h)) % p = y
    <3>1. h % p = 1 % p
      BY <2>1, <2>2, PrimeType
    <3>2. (h * h) % p = (1 * 1) % p /\ h * h \in Int /\ 1 * 1 = 1
      BY <3>1, SameProduct
    <3>3. ((h * h) * y) % p = (1 * y) % p
      <4>1. PICK q \in Int : q = h * h
        OBVIOUS
      <4>2. (q * y) % p = (1 * y) % p
        BY <3>2, <4>1, SameProduct
      <4> QED
        BY <4>1, <4>2
    <3>4. (h * h) * y = y * (h * h) /\ 1 * y = y
      OBVIOUS
    <3> QED
      BY <1>8, <3>3, <3>4
  <2>6. (c * c) % p = y
    BY <2>3, <2>4, <2>5
  <2>7. PICK k \in 0 .. p - 1 : k = c % p /\ k \in Int /\ k % p = c % p
    BY ModType, SameOfSame, PrimeType
  <2>8. (k * k) % p = y
    BY <2>6, <2>7, SameProduct
  <2>9. k # 0
    <3>1. y # 0
      BY <1>3, NoHalf
    <3>2. 0 * 0 = 0 /\ 0 % p = 0
      BY PrimeType
    <3> QED
      BY <2>8, <3>1, <3>2
  <2> QED
    BY <1>3, <2>7, <2>8, <2>9, PrimeType
<1>10. ASSUME NEW k \in 1 .. p - 1, (k * k) % p = t.y
       PROVE  \E z \in Int : (z * z) % p = O % p
  <2>1. k \in Int /\ k * k \in Int /\ n2 * n2 \in Int
    OBVIOUS
  <2>2. PICK z \in Int : z = k * n2
    BY <2>1
  <2>3. (k * k) % p = y % p
    BY <1>3, <1>8, <1>10
  <2>4. ((k * k) * (n2 * n2)) % p = (y * (n2 * n2)) % p
    <3>1. PICK q \in Int, j \in Int : q = k * k /\ j = n2 * n2
      BY <2>1
    <3>a. j % p \in Int
      BY SameOfSame
    <3>2. (q * j) % p = (y * j) % p
      BY <2>3, <3>1, <3>a, SameProduct
    <3> QED
      BY <3>1, <3>2
  <2>5. z * z = (k * k) * (n2 * n2)
    BY <2>1, <2>2
  <2> QED
    BY <1>8, <2>4, <2>5
<1> QED
  BY <1>7, <1>9, <1>10

LEMMA NormalValue ==
    ASSUME NEW A \in Int, NEW m \in Int, NEW a, Is(a, A, m), m <= 32
    PROVE  normalize(a).v = A % p /\ normalize(a).m = 1 /\ normalize(a).n = TRUE
<1>1. normalize(a) = [v |-> A % p, m |-> 1, n |-> TRUE]
  BY NormalIs
<1> QED
  BY <1>1

\* set_xo_var: the point of an x whose y is odd, or even.
OfParity(s, t, x, odd) ==
    /\ s.ok /\ s.r.x = x /\ s.r.inf = FALSE
    /\ \E y \in {t.y, p - t.y} : y % 2 = odd /\ Is(s.r.y, y, 2) /\ s.r.y.v = y

LEMMA XoGives ==
    ASSUME NEW t \in Points, NEW x, Is(x, t.x, 1), NEW odd \in {0, 1}
    PROVE  OfParity(set_xo_var(x, odd), t, x, odd)
<1>1. PICK i \in Int, y \in Int, k \in Int :
               /\ t = [x |-> i, y |-> y] /\ 0 <= i /\ i < p /\ 0 <= y /\ y < p
               /\ y * y = i * i * i + CURVE_B + k * p
  BY PointIs
<1>2. t.x = i /\ t.y = y /\ Is(x, i, 1) /\ y # 0
  BY <1>1, NoHalf
<1> DEFINE c == fe_add(set_int(CURVE_B), mul(x, sqr(x)))
<1>3. Is(c, CURVE_B + i * (i * i), 2) /\ CURVE_B + i * (i * i) \in Int
  <2>1. Is(sqr(x), i * i, 1) /\ i * i \in Int
    BY <1>2, SqrIs
  <2>2. Is(mul(x, sqr(x)), i * (i * i), 1) /\ i * (i * i) \in Int
    BY <1>2, <2>1, MulIs
  <2>3. Is(set_int(CURVE_B), CURVE_B, 1) /\ CURVE_B \in Int
    BY CurveType, SetIs
  <2> QED
    BY <2>2, <2>3, AddIs
<1> HIDE DEF c
<1>4. (y * y) % p = (CURVE_B + i * (i * i)) % p
  <2>1. y * y = (CURVE_B + i * (i * i)) + k * p /\ y * y \in Int
    BY <1>1, CurveType, PrimeType
  <2> QED
    BY <1>3, <2>1, Same
<1>5. /\ fe_sqrt(c).ok
      /\ \E R \in Int : Is(fe_sqrt(c).r, R, 1) /\ R % p \in {y % p, (-y) % p}
  <2>1. 2 \in Int /\ 2 <= 8
    OBVIOUS
  <2> QED
    BY <1>3, <1>4, <2>1, Rooted, Zenon
<1>6. PICK R \in Int : Is(fe_sqrt(c).r, R, 1) /\ R % p \in {y % p, (-y) % p}
  BY <1>5
<1>7. y % p = y /\ (-y) % p = p - y
  <2>1. y % p = y
    BY <1>1, PrimeType
  <2>2. p - y = (-y) + 1 * p /\ p - y \in Int /\ -y \in Int /\ (p - y) % p = p - y
    BY <1>1, <1>2, PrimeType
  <2> QED
    BY <2>1, <2>2, Same
<1> DEFINE n == normalize(fe_sqrt(c).r)
<1>8. n.v = R % p /\ Is(n, R, 1)
  BY <1>6, NormalIs, NormalValue
<1> HIDE DEF n
<1>9. PICK z \in Int : z = R % p /\ z \in {y, p - y} /\ 0 < z /\ z < p /\ z % p = z
  <2>1. PICK z \in Int : z = R % p /\ z % p = z
    BY SameOfSame
  <2>2. z \in {y, p - y}
    BY <1>6, <1>7, <2>1
  <2>3. 0 < z /\ z < p
    BY <1>1, <1>2, <2>2, PrimeType
  <2> QED
    BY <2>1, <2>2, <2>3
<1>10. Is(n, z, 1) /\ n.v = z
  BY <1>8, <1>9, Also
<1> DEFINE f == fe_negate(n, 1)
<1>11. Is(f, p - z, 2) /\ f.v = p - z
  <2>1. Is(f, -z, 2) /\ -z \in Int
    BY <1>10, NegateIs
  <2>2. p - z = (-z) + 1 * p /\ p - z \in Int /\ (p - z) % p = p - z
    BY <1>9, PrimeType
  <2>3. (-z) % p = (p - z) % p
    BY <2>1, <2>2, Same
  <2>4. Is(f, p - z, 2)
    BY <2>1, <2>2, <2>3, Also
  <2> QED
    BY <2>2, <2>4, ItsValue
<1> HIDE DEF f
<1> DEFINE g == IF (n.v % 2) # odd THEN f ELSE n
<1>12. \E j \in {y, p - y} : j % 2 = odd /\ Is(g, j, 2) /\ g.v = j
  <2>1. p % 2 = 1
    BY CurveAssumption
  <2>2. CASE z % 2 = odd
    <3>1. g = n /\ Is(n, z, 2)
      BY <1>10, <2>2, Also
    <3> QED
      BY <1>9, <1>10, <2>2, <3>1
  <2>3. CASE z % 2 # odd
    <3>1. g = f
      BY <1>10, <2>3
    <3>2. (p - z) % 2 = odd /\ p - z \in {y, p - y}
      BY <1>9, <2>1, <2>3, PrimeType
    <3> QED
      BY <1>11, <3>1, <3>2
  <2> QED
    BY <2>2, <2>3
<1>13. /\ set_xquad(x).r.x = x /\ set_xquad(x).r.y = fe_sqrt(c).r /\ set_xquad(x).r.inf = FALSE
       /\ set_xquad(x).ok = fe_sqrt(c).ok
  BY Zenon DEF set_xquad, Ge, c
<1>14. /\ set_xo_var(x, odd).ok = set_xquad(x).ok /\ set_xo_var(x, odd).r.x = set_xquad(x).r.x
       /\ set_xo_var(x, odd).r.inf = set_xquad(x).r.inf /\ set_xo_var(x, odd).r.y = g
  BY <1>13, Zenon DEF set_xo_var, set_xquad, Ge, n, f
<1> QED
  BY <1>1, <1>2, <1>5, <1>12, <1>13, <1>14, Zenon DEF OfParity


-----------------------------------------------------------------------------
(* Numbers modulo the order                                                *)

LEMMA OrderType == Order \in Nat /\ Order > 2 /\ Order % 2 = 1
  BY ScalarAssumption

LEMMA RestType ==
    ASSUME NEW a \in Int
    PROVE  a % Order \in 0 .. Order - 1
  BY OrderType

LEMMA RestOfRest ==
    ASSUME NEW a \in 0 .. Order - 1
    PROVE  a % Order = a
  BY OrderType

LEMMA RestBy ==
    ASSUME NEW a \in Int, NEW r \in 0 .. Order - 1, NEW k \in Int, a = r + k * Order
    PROVE  a % Order = r
  BY OrderType

\* a and b leave the same.
Equal(a, b) == \E k \in Int : a = b + k * Order

LEMMA EqualRest ==
    ASSUME NEW a \in Int
    PROVE  Equal(a % Order, a) /\ Equal(a, a % Order)
<1>1. a = (a \div Order) * Order + (a % Order) /\ a \div Order \in Int
  BY OrderType
<1> DEFINE k == a \div Order
<1> DEFINE r == a % Order
<1>2. r \in Int
  BY RestType
<1>3. a = k * Order + r /\ k \in Int
  BY <1>1
<1> HIDE DEF k, r
<1>4. r = a + (-k) * Order /\ a = r + k * Order /\ -k \in Int
  BY <1>2, <1>3, OrderType
<1>5. Equal(r, a) /\ Equal(a, r)
  BY <1>3, <1>4, Zenon DEF Equal
<1> QED
  BY <1>5 DEF r

LEMMA EqualBy ==
    ASSUME NEW a \in Int, NEW b \in Int, NEW k \in Int, a = b + k * Order
    PROVE  Equal(a, b)
  BY Zenon DEF Equal

LEMMA EqualSelf ==
    ASSUME NEW a \in Int
    PROVE  Equal(a, a)
<1>1. a = a + 0 * Order /\ 0 \in Int
  BY OrderType
<1> QED
  BY <1>1, EqualBy

LEMMA RestOfEqual ==
    ASSUME NEW a \in Int, NEW b \in Int, Equal(a, b)
    PROVE  a % Order = b % Order
<1>1. PICK k \in Int : a = b + k * Order
  BY DEF Equal
<1>2. PICK j \in Int, r \in 0 .. Order - 1 : b = r + j * Order /\ r = b % Order
  <2>1. PICK j \in Int : b = (b % Order) + j * Order
    BY EqualRest, Zenon DEF Equal
  <2> QED
    BY <2>1, RestType
<1>3. a = r + (j + k) * Order /\ j + k \in Int
  BY <1>1, <1>2, OrderType
<1>4. a % Order = r
  <2>1. PICK m \in Int : m = j + k
    OBVIOUS
  <2>2. a = r + m * Order
    BY <1>3, <2>1
  <2> QED
    BY <2>2, RestBy
<1> QED
  BY <1>2, <1>4

LEMMA EqualOfRests ==
    ASSUME NEW a \in Int, NEW b \in Int, a % Order = b % Order
    PROVE  Equal(a, b)
<1>1. PICK r \in Int : r = a % Order /\ r = b % Order
  BY RestType
<1>2. Equal(a, r) /\ Equal(r, b)
  BY <1>1, EqualRest
<1>3. PICK k \in Int : a = r + k * Order
  BY <1>2 DEF Equal
<1>4. PICK j \in Int : r = b + j * Order
  BY <1>2 DEF Equal
<1>5. a = b + (j + k) * Order /\ j + k \in Int
  BY <1>3, <1>4, OrderType
<1> QED
  BY <1>5, Zenon DEF Equal

LEMMA EqualSum ==
    ASSUME NEW a \in Int, NEW b \in Int, NEW c \in Int, NEW d \in Int,
           Equal(a, c), Equal(b, d)
    PROVE  Equal(a + b, c + d)
<1>1. PICK j \in Int : a = c + j * Order
  BY DEF Equal
<1>2. PICK k \in Int : b = d + k * Order
  BY DEF Equal
<1>3. a + b = (c + d) + (j + k) * Order /\ j + k \in Int
  BY <1>1, <1>2, OrderType
<1> QED
  BY <1>3, Zenon DEF Equal

LEMMA EqualProduct ==
    ASSUME NEW a \in Int, NEW b \in Int, NEW c \in Int, NEW d \in Int,
           Equal(a, c), Equal(b, d)
    PROVE  Equal(a * b, c * d)
<1>1. PICK j \in Int : a = c + j * Order
  BY DEF Equal
<1>2. PICK k \in Int : b = d + k * Order
  BY DEF Equal
<1>3. PICK m \in Int : m = j * d + k * c + j * k * Order
  BY OrderType
<1>4. a * b = c * d + m * Order
  BY <1>1, <1>2, <1>3, OrderType
<1> QED
  BY <1>4, Zenon DEF Equal

LEMMA EqualTimes ==
    ASSUME NEW a \in Int, NEW b \in Int, NEW c \in Int, Equal(a, b)
    PROVE  Equal(c * a, c * b) /\ c * a \in Int /\ c * b \in Int
<1>1. Equal(c, c)
  BY EqualSelf
<1>2. Equal(c * a, c * b)
  BY <1>1, EqualProduct, Zenon
<1> QED
  BY <1>2

LEMMA EqualTrans ==
    ASSUME NEW a \in Int, NEW b \in Int, NEW c \in Int, Equal(a, b), Equal(b, c)
    PROVE  Equal(a, c) /\ Equal(b, a)
<1>1. PICK j \in Int : a = b + j * Order
  BY DEF Equal
<1>2. PICK k \in Int : b = c + k * Order
  BY DEF Equal
<1>3. a = c + (j + k) * Order /\ b = a + (-j) * Order /\ j + k \in Int /\ -j \in Int
  BY <1>1, <1>2, OrderType
<1> QED
  BY <1>3, Zenon DEF Equal

-----------------------------------------------------------------------------
(* Multiples of the generator                                              *)

Elements == Points \cup {Infinity}

LEMMA GIsPoint == G \in Points
  BY GroupAssumption DEF G

LEMMA PlusCases ==
    ASSUME NEW s \in Points, NEW t \in Points
    PROVE  (t = Opposite(s) => Plus(s, t) = Infinity) /\ (t # Opposite(s) => Plus(s, t) \in Points)
<1>1. CASE t = Opposite(s)
  <2>1. s # Infinity /\ t # Infinity
    BY NoInfinity
  <2> QED
    BY <1>1, <2>1, Zenon DEF Plus
<1>2. CASE t # Opposite(s)
  BY <1>2, PlusIs, Zenon
<1> QED
  BY <1>1, <1>2

LEMMA PlusType ==
    ASSUME NEW s \in Elements, NEW t \in Elements
    PROVE  Plus(s, t) \in Elements
<1>1. CASE s = Infinity
  BY <1>1 DEF Plus
<1>2. CASE s # Infinity /\ t = Infinity
  BY <1>2 DEF Plus
<1>3. CASE s \in Points /\ t \in Points
  BY <1>3, PlusCases, Zenon DEF Elements
<1> QED
  BY <1>1, <1>2, <1>3 DEF Elements

LEMMA PlusNone ==
    ASSUME NEW s \in Elements, NEW t \in Elements
    PROVE  /\ Plus(s, Infinity) = s /\ Plus(Infinity, s) = s
           /\ (Plus(s, t) = Infinity) <=> (t = Opposite(s))
<1>1. Plus(s, Infinity) = s /\ Plus(Infinity, s) = s
  BY Zenon DEF Plus
<1>2. CASE s = Infinity
  BY <1>1, <1>2, Zenon DEF Opposite, Plus
<1>3. CASE s \in Points
  <2>0. s # Infinity /\ Opposite(s) \in Points
    BY <1>3, NoInfinity, OppositeIs
  <2>1. CASE t = Infinity
    <3>1. Opposite(s) # Infinity
      BY <2>0, NoInfinity
    <3> QED
      BY <1>1, <2>0, <2>1, <3>1, Zenon
  <2>2. CASE t \in Points /\ t = Opposite(s)
    <3>1. Plus(s, t) = Infinity
      BY <1>3, <2>2, PlusCases
    <3> QED
      BY <1>1, <2>2, <3>1
  <2>3. CASE t \in Points /\ t # Opposite(s)
    <3>1. Plus(s, t) \in Points
      BY <1>3, <2>3, PlusCases
    <3> QED
      BY <1>1, <2>3, <3>1, NoInfinity
  <2> QED
    BY <1>1, <2>1, <2>2, <2>3 DEF Elements
<1> QED
  BY <1>1, <1>2, <1>3 DEF Elements

LEMMA InElements ==
    ASSUME NEW s \in Elements
    PROVE  Opposite(s) \in Elements /\ Opposite(Opposite(s)) = s /\ (s # Infinity => s \in Points)
<1>1. CASE s = Infinity
  BY <1>1, Zenon DEF Opposite, Elements
<1>2. CASE s \in Points
  BY <1>2, OppositeIs DEF Elements
<1> QED
  BY <1>1, <1>2 DEF Elements

\* What the recursion in Multiples asks of a function.
Stepping(f, k) == IF k = 0 THEN Infinity ELSE Plus(f[k - 1], G)

LEMMA MultiplesExist ==
    ASSUME NEW e \in Nat
    PROVE  \E f : f = [k \in 0 .. e |-> Stepping(f, k)]
<1> DEFINE Upto(n) == \E f \in [0 .. n -> Elements] : \A k \in 0 .. n : f[k] = Stepping(f, k)
<1> DEFINE T == {n \in Nat : Upto(n)}
<1>1. 0 \in T
  <2> DEFINE f == [k \in 0 .. 0 |-> Infinity]
  <2>1. f \in [0 .. 0 -> Elements] /\ \A k \in 0 .. 0 : f[k] = Stepping(f, k)
    BY DEF Stepping, Elements
  <2> QED
    BY <2>1
<1>2. ASSUME NEW n \in Nat, n \in T
      PROVE  n + 1 \in T
  <2>1. PICK f \in [0 .. n -> Elements] : \A k \in 0 .. n : f[k] = Stepping(f, k)
    BY <1>2
  <2> DEFINE g == [k \in 0 .. n + 1 |-> IF k <= n THEN f[k] ELSE Stepping(f, n + 1)]
  <2>2. \A k \in 0 .. n + 1 : k # 0 => k - 1 \in 0 .. n /\ k - 1 \in 0 .. n + 1
    OBVIOUS
  <2>3. Stepping(f, n + 1) \in Elements
    <3>1. (n + 1) - 1 = n /\ n + 1 # 0 /\ f[n] \in Elements /\ G \in Elements
      BY <2>1, GIsPoint DEF Elements
    <3>2. Plus(f[n], G) \in Elements
      BY <3>1, PlusType
    <3> QED
      BY <3>1, <3>2 DEF Stepping
  <2>4. g \in [0 .. n + 1 -> Elements]
    BY <2>3
  <2>5. \A k \in 0 .. n + 1 : k # 0 => g[k - 1] = f[k - 1]
    BY <2>2
  <2>6. \A k \in 0 .. n + 1 : g[k] = Stepping(f, k)
    BY <2>1
  <2> HIDE DEF g
  <2>7. \A k \in 0 .. n + 1 : Stepping(g, k) = Stepping(f, k)
    BY <2>5 DEF Stepping
  <2>8. \A k \in 0 .. n + 1 : g[k] = Stepping(g, k)
    BY <2>6, <2>7
  <2> QED
    BY <2>4, <2>8
<1>3. \A n \in Nat : n \in T
  <2> HIDE DEF T
  <2> QED
    BY <1>1, <1>2, CountingUp
<1>4. PICK f \in [0 .. e -> Elements] : \A k \in 0 .. e : f[k] = Stepping(f, k)
  BY <1>3
<1>5. f = [k \in 0 .. e |-> Stepping(f, k)]
  BY <1>4
<1> QED
  BY <1>5

LEMMA MultiplesIs ==
    /\ Multiples[0] = Infinity
    /\ \A k \in Nat : k + 1 < Order => Multiples[k + 1] = Plus(Multiples[k], G)
<1> DEFINE e == Order - 1
<1>0. e \in Nat
  BY OrderType
<1>1. Multiples = CHOOSE f : f = [k \in 0 .. Order - 1 |-> Stepping(f, k)]
  BY DEF Multiples, Stepping
<1>2. \E f : f = [k \in 0 .. Order - 1 |-> Stepping(f, k)]
  <2> HIDE DEF e
  <2>1. \E f : f = [k \in 0 .. e |-> Stepping(f, k)]
    BY <1>0, MultiplesExist
  <2> QED
    BY <2>1 DEF e
<1>3. Multiples = [k \in 0 .. Order - 1 |-> Stepping(Multiples, k)]
  BY <1>1, <1>2
<1>4. Multiples[0] = Infinity
  BY <1>3, OrderType DEF Stepping
<1>5. ASSUME NEW k \in Nat, k + 1 < Order
      PROVE  Multiples[k + 1] = Plus(Multiples[k], G)
  <2>1. k + 1 \in 0 .. Order - 1 /\ (k + 1) - 1 = k /\ k + 1 # 0
    BY <1>5, OrderType
  <2>2. Multiples[k + 1] = Stepping(Multiples, k + 1)
    BY <1>3, <2>1
  <2> QED
    BY <2>1, <2>2 DEF Stepping
<1> QED
  BY <1>4, <1>5

LEMMA TimesType ==
    ASSUME NEW k \in Int
    PROVE  Times(k) \in Elements
<1> DEFINE T == {n \in Nat : n < Order => Multiples[n] \in Elements}
<1>1. 0 \in T
  BY MultiplesIs DEF Elements
<1>2. ASSUME NEW n \in Nat, n \in T PROVE n + 1 \in T
  <2> SUFFICES ASSUME n + 1 < Order PROVE Multiples[n + 1] \in Elements
    OBVIOUS
  <2>1. Multiples[n] \in Elements /\ G \in Elements
    BY <1>2, OrderType, GIsPoint DEF Elements
  <2>2. Multiples[n + 1] = Plus(Multiples[n], G)
    BY MultiplesIs
  <2> QED
    BY <2>1, <2>2, PlusType
<1>3. \A n \in Nat : n \in T
  <2> HIDE DEF T
  <2> QED
    BY <1>1, <1>2, CountingUp
<1>4. k % Order \in Nat /\ k % Order < Order
  BY RestType, OrderType
<1> QED
  BY <1>3, <1>4 DEF Times

LEMMA SameTimes ==
    ASSUME NEW a \in Int, NEW b \in Int, Equal(a, b)
    PROVE  Times(a) = Times(b)
  BY RestOfEqual DEF Times

LEMMA TimesNone == Times(0) = Infinity /\ Times(1) = G
<1>1. 0 % Order = 0 /\ 1 % Order = 1
  BY OrderType, RestOfRest
<1>2. Multiples[1] = Plus(Multiples[0], G)
  <2>1. Multiples[0 + 1] = Plus(Multiples[0], G)
    BY MultiplesIs, OrderType
  <2> QED
    BY <2>1
<1>3. Plus(Infinity, G) = G
  BY GIsPoint, PlusNone DEF Elements
<1> QED
  BY <1>1, <1>2, <1>3, MultiplesIs DEF Times

LEMMA TimesNext ==
    ASSUME NEW k \in Int
    PROVE  Times(k + 1) = Plus(Times(k), G)
<1>1. PICK r \in 0 .. Order - 1 : r = k % Order
  BY RestType
<1>2. Equal(r, k)
  BY <1>1, EqualRest
<1>3. Times(k) = Times(r)
  BY <1>2, SameTimes
<1>4. Times(k + 1) = Times(r + 1)
  <2>1. Equal(1, 1)
    BY EqualSelf
  <2>2. Equal(r + 1, k + 1)
    BY <1>2, <2>1, EqualSum
  <2> QED
    BY <2>2, SameTimes
<1>5. Times(r) = Multiples[r]
  BY RestOfRest DEF Times
<1>6. CASE r + 1 < Order
  <2>1. (r + 1) % Order = r + 1
    <3>1. r + 1 \in 0 .. Order - 1
      BY <1>6, OrderType
    <3> QED
      BY <3>1, RestOfRest
  <2>2. Multiples[r + 1] = Plus(Multiples[r], G)
    BY <1>6, MultiplesIs
  <2> QED
    BY <1>3, <1>4, <1>5, <2>1, <2>2 DEF Times
<1>7. CASE r = Order - 1
  <2>1. Plus(Times(r), G) = Infinity
    BY <1>7, GeneratorAssumption
  <2>2. Equal(r + 1, 0)
    <3>1. r + 1 = 0 + 1 * Order
      BY <1>7, OrderType
    <3> QED
      BY <3>1, EqualBy
  <2>3. Times(r + 1) = Times(0)
    BY <2>2, SameTimes
  <2> QED
    BY <1>3, <1>4, <2>1, <2>3, TimesNone
<1> QED
  BY <1>6, <1>7, OrderType

\* The sum of two multiples is the multiple of the sum.
LEMMA TimesSum ==
    ASSUME NEW a \in Int, NEW b \in Int
    PROVE  Times(a + b) = Plus(Times(a), Times(b))
<1> DEFINE T == {n \in Nat : Times(a + n) = Plus(Times(a), Times(n))}
<1>1. 0 \in T
  <2>1. a + 0 = a
    OBVIOUS
  <2>2. Plus(Times(a), Infinity) = Times(a)
    BY TimesType, PlusNone
  <2> QED
    BY <2>1, <2>2, TimesNone
<1>2. ASSUME NEW n \in Nat, n \in T PROVE n + 1 \in T
  <2>1. Times((a + n) + 1) = Plus(Times(a + n), G) /\ (a + n) + 1 = a + (n + 1)
    BY TimesNext
  <2>2. Times(n + 1) = Plus(Times(n), G)
    BY TimesNext
  <2>3. Plus(Plus(Times(a), Times(n)), G) = Plus(Times(a), Plus(Times(n), G))
    BY TimesType, GroupAssumption DEF Elements
  <2>4. Times(a + (n + 1)) = Plus(Times(a), Times(n + 1))
    BY <1>2, <2>1, <2>2, <2>3
  <2> QED
    BY <2>4
<1>3. \A n \in Nat : n \in T
  <2> HIDE DEF T
  <2> QED
    BY <1>1, <1>2, CountingUp
<1>4. PICK r \in Nat : r = b % Order
  BY RestType, OrderType
<1>5. Equal(r, b) /\ Equal(a, a)
  BY <1>4, EqualRest, EqualSelf
<1>6. Equal(a + r, a + b)
  BY <1>5, EqualSum
<1>7. Times(b) = Times(r) /\ Times(a + b) = Times(a + r)
  BY <1>5, <1>6, SameTimes
<1> QED
  BY <1>3, <1>4, <1>7

LEMMA TimesOpposite ==
    ASSUME NEW a \in Int
    PROVE  Times(-a) = Opposite(Times(a))
<1>1. Plus(Times(a), Times(-a)) = Times(0)
  <2>1. a + (-a) = 0 /\ -a \in Int
    OBVIOUS
  <2> QED
    BY <2>1, TimesSum
<1>2. Times(a) \in Elements /\ Times(-a) \in Elements
  BY TimesType
<1> QED
  BY <1>1, <1>2, TimesNone, PlusNone

\* No multiple but those of the order is the point at infinity.
LEMMA TimesFinite ==
    ASSUME NEW a \in Int, a % Order # 0
    PROVE  Times(a) \in Points
<1> SUFFICES ASSUME Times(a) = Infinity PROVE FALSE
  BY TimesType DEF Elements
<1>1. PICK r \in 1 .. Order - 1 : r = a % Order
  BY RestType, OrderType
<1>2. PICK k \in 1 .. Order - 1 : (k * r) % Order = 1
  BY OrderAssumption
<1>3. Times(r) = Infinity
  BY <1>1, EqualRest, SameTimes
<1> DEFINE T == {n \in Nat : Times(n * r) = Infinity}
<1>4. 0 \in T
  BY TimesNone
<1>5. ASSUME NEW n \in Nat, n \in T PROVE n + 1 \in T
  <2>1. (n + 1) * r = n * r + r /\ n * r \in Int
    OBVIOUS
  <2>2. Times((n + 1) * r) = Plus(Times(n * r), Times(r))
    BY <2>1, TimesSum
  <2>3. Plus(Infinity, Infinity) = Infinity
    BY PlusNone DEF Elements
  <2> QED
    BY <1>3, <1>5, <2>2, <2>3
<1>6. \A n \in Nat : n \in T
  <2> HIDE DEF T
  <2> QED
    BY <1>4, <1>5, CountingUp
<1>7. k * r \in Int /\ Equal(k * r, 1)
  <2>1. 1 % Order = 1 /\ k * r \in Int
    BY OrderType, RestOfRest
  <2> QED
    BY <1>2, <2>1, EqualOfRests
<1>8. Times(k * r) = Times(1)
  BY <1>7, SameTimes
<1> QED
  BY <1>6, <1>8, TimesNone, GIsPoint, NoInfinity

\* A multiple tells the number, modulo the order.
LEMMA TimesTells ==
    ASSUME NEW a \in Int, NEW b \in Int, Times(a) = Times(b)
    PROVE  a % Order = b % Order
<1>1. Times(a + (-b)) = Plus(Times(a), Opposite(Times(b)))
  BY TimesSum, TimesOpposite
<1>2. Plus(Times(a), Opposite(Times(a))) = Infinity
  BY TimesType, InElements, PlusNone
<1>3. PICK c \in Int : c = a + (-b)
  OBVIOUS
<1>4. Times(c) = Infinity
  BY <1>1, <1>2, <1>3
<1>5. c % Order = 0
  BY <1>4, TimesFinite, NoInfinity
<1>6. 0 % Order = 0
  BY OrderType, RestOfRest
<1>7. Equal(c, 0)
  BY <1>5, <1>6, EqualOfRests
<1>8. PICK k \in Int : c = 0 + k * Order
  BY <1>7 DEF Equal
<1>9. a = b + k * Order
  BY <1>3, <1>8, OrderType
<1> QED
  BY <1>9, RestOfEqual, Zenon DEF Equal

-----------------------------------------------------------------------------
(* A multiple as it is computed, and what a signature asks of it           *)

LEMMA ComputedStands ==
    ASSUME NEW t \in Elements, NEW z \in Int, z % p # 0
    PROVE  Stands(rescale(set_ge(Affine(t)), set_int(z)), t)
<1>1. Stands(set_ge(Affine(t)), t)
  BY AffineStands, SetGeStands DEF Elements
<1>2. Is(set_int(z), z, 2)
  BY SetIs, Also
<1> QED
  BY <1>1, <1>2, RescaleStands

LEMMA StandsInf ==
    ASSUME NEW c, NEW t \in Elements, Stands(c, t)
    PROVE  c.inf <=> t = Infinity
<1>1. CASE t = Infinity
  BY <1>1, InfinityForm
<1>2. CASE t \in Points
  <2>1. PICK u, v, w : \E n \in Int, x \in Int, y \in Int : Form(c, t, n, x, y, u, v, w)
    BY <1>2, FiniteForm, Zenon
  <2>3. c = Gej(u, v, w, FALSE)
    BY <2>1, Zenon DEF Form
  <2>2. c.inf = FALSE
    BY <2>3 DEF Gej
  <2> QED
    BY <1>2, <2>2, NoInfinity
<1> QED
  BY <1>1, <1>2 DEF Elements

LEMMA XRead ==
    ASSUME NEW c, NEW t \in Points, Stands(c, t)
    PROVE  normalize(set_gej(c).x).v = t.x /\ normalize(set_gej(c).y).v = t.y
<1>1. t # Infinity /\ t.x \in 0 .. p - 1 /\ t.y \in 0 .. p - 1
  <2>1. PICK x \in Int, y \in Int :
            t = [x |-> x, y |-> y] /\ 0 <= x /\ x < p /\ 0 <= y /\ y < p
    BY PointIs
  <2> QED
    BY <2>1, NoInfinity, PrimeType
<1>2. PICK u, v : set_gej(c) = Ge(u, v, FALSE) /\ Is(u, t.x, 1) /\ Is(v, t.y, 1)
  BY <1>1, SetGejStands DEF Unscaled
<1>3. set_gej(c).x = u /\ set_gej(c).y = v
  BY <1>2 DEF Ge
<1>4. normalize(u).v = t.x % p /\ normalize(v).v = t.y % p
  <2>1. PICK x \in Int, y \in Int : x = t.x /\ y = t.y
    BY <1>1, PrimeType
  <2>2. Is(u, x, 1) /\ Is(v, y, 1) /\ 1 \in Int
    BY <1>2, <2>1
  <2>4. 1 <= 32
    OBVIOUS
  <2>3. normalize(u).v = x % p /\ normalize(v).v = y % p
    BY <2>2, <2>4, NormalValue, Zenon
  <2> QED
    BY <2>1, <2>3
<1> QED
  BY <1>1, <1>3, <1>4, Small

LEMMA WhichX ==
    ASSUME NEW x \in 0 .. p - 1, NEW r \in 0 .. Order - 1, NEW A \in BOOLEAN, NEW B \in BOOLEAN,
           2 * Order > p, Order < p, A <=> r = x, r < p - Order => (B <=> r + Order = x)
    PROVE  (A \/ (r < p - Order /\ B)) <=> x % Order = r
<1>1. Order \in Int /\ p \in Int
  BY OrderType, PrimeType
<1>2. PICK y \in Int : y = x % Order
  BY <1>1, RestType
<1>3. CASE x < Order
  <2>1. y = x
    BY <1>1, <1>2, <1>3, RestOfRest
  <2>2. ~(r + Order = x)
    BY <1>1, <1>3
  <2>3. ~(r < p - Order /\ B)
    BY <2>2
  <2>4. A <=> y = r
    BY <2>1
  <2>5. (A \/ (r < p - Order /\ B)) <=> y = r
    BY <2>3, <2>4, Zenon
  <2> QED
    BY <1>2, <2>5, Zenon
<1>4. CASE x >= Order
  <2>1. x - Order \in 0 .. Order - 1 /\ x = (x - Order) + 1 * Order
    BY <1>1, <1>4
  <2>2. y = x - Order
    BY <1>1, <1>2, <2>1, RestBy
  <2> QED
    BY <1>1, <1>2, <1>4, <2>2
<1> QED
  BY <1>1, <1>3, <1>4

\* r is the x of a point, or what is left of it modulo the order.
LEMMA SameXIs ==
    ASSUME NEW c, NEW t \in Points, Stands(c, t), NEW r \in 0 .. Order - 1,
           2 * Order > p, Order < p
    PROVE  (\/ eq_x_var(set_int(r), c)
            \/ r < p - Order /\ eq_x_var(fe_add(set_int(r), set_int(Order)), c))
           <=> t.x % Order = r
<1>0. Order \in Int /\ r \in Int /\ p \in Int
  BY OrderType, PrimeType
<1>1. PICK x \in 0 .. p - 1 : x = t.x
  BY PointIs, PrimeType
<1>2. eq_x_var(set_int(r), c) <=> r = x
  <2>1. eq_x_var(set_int(r), c) <=> r % p = t.x
    BY <1>0, SetIs, EqXIs
  <2>2. r % p = r
    BY <1>0, OrderType, Small
  <2> QED
    BY <1>1, <2>1, <2>2
<1>3. ASSUME r < p - Order
      PROVE  eq_x_var(fe_add(set_int(r), set_int(Order)), c) <=> r + Order = x
  <2>1. Is(fe_add(set_int(r), set_int(Order)), r + Order, 2)
    BY <1>0, SetIs, AddIs
  <2>2. eq_x_var(fe_add(set_int(r), set_int(Order)), c) <=> (r + Order) % p = t.x
    BY <1>0, <2>1, EqXIs
  <2>3. (r + Order) % p = r + Order
    <3>1. r + Order \in 0 .. p - 1
      BY <1>0, <1>3, OrderType
    <3> QED
      BY <3>1, Small
  <2> QED
    BY <1>1, <2>2, <2>3
<1> DEFINE A == eq_x_var(set_int(r), c)
<1> DEFINE B == eq_x_var(fe_add(set_int(r), set_int(Order)), c)
<1>4. A \in BOOLEAN /\ B \in BOOLEAN
  BY Zenon DEF eq_x_var, fe_equal, normalizes_to_zero
<1>5. (A <=> r = x) /\ (r < p - Order => (B <=> r + Order = x))
  BY <1>2, <1>3
<1> HIDE DEF A, B
<1>6. (A \/ (r < p - Order /\ B)) <=> x % Order = r
  BY <1>4, <1>5, WhichX
<1>7. (A \/ (r < p - Order /\ B)) <=> t.x % Order = r
  BY <1>1, <1>6
<1> QED
  BY <1>7, Zenon DEF A, B

\* The end of the verification: the sum is a point, with that x.
LEMMA VerifyTells ==
    ASSUME NEW c, NEW t \in Elements, Stands(c, t), NEW r \in 0 .. Order - 1,
           2 * Order > p, Order < p
    PROVE  (/\ ~c.inf
            /\ \/ eq_x_var(set_int(r), c)
               \/ r < p - Order /\ eq_x_var(fe_add(set_int(r), set_int(Order)), c))
           <=> t # Infinity /\ t.x % Order = r
<1>1. c.inf <=> t = Infinity
  BY StandsInf
<1>2. CASE t = Infinity
  BY <1>1, <1>2
<1>3. CASE t \in Points
  BY <1>1, <1>3, SameXIs, NoInfinity
<1> QED
  BY <1>2, <1>3 DEF Elements

-----------------------------------------------------------------------------
(* The numbers of a signature                                              *)

LEMMA ScalarInverse ==
    ASSUME NEW a \in 1 .. Order - 1
    PROVE  \E k \in 1 .. Order - 1 :
               /\ k = (CHOOSE j \in 1 .. Order - 1 : (j * a) % Order = 1)
               /\ (k * a) % Order = 1 /\ Equal(k * a, 1)
<1>1. PICK k \in 1 .. Order - 1 :
               /\ k = (CHOOSE j \in 1 .. Order - 1 : (j * a) % Order = 1)
               /\ (k * a) % Order = 1
  BY OrderAssumption
<1>2. PICK m \in Int : m = k * a
  OBVIOUS
<1>3. Equal(k * a, 1)
  <2>1. 1 % Order = 1
    BY OrderType, RestOfRest
  <2>2. m % Order = 1 % Order
    BY <1>1, <1>2, <2>1
  <2>3. Equal(m, 1)
    BY <2>2, EqualOfRests
  <2> QED
    BY <1>2, <2>3
<1> QED
  BY <1>1, <1>3

LEMMA EqualProductOfRest ==
    ASSUME NEW a \in Int, NEW b \in Int
    PROVE  /\ Equal((a * (b % Order)) % Order, a * b)
           /\ Equal((a * b) % Order, a * b)
           /\ Equal(((a * b) % Order) * (b % Order), (a * b) * b)
<1>1. PICK s \in Int : s = b % Order /\ Equal(s, b)
  BY RestType, EqualRest
<1>2. PICK m \in Int : m = a * b
  OBVIOUS
<1>3. PICK t \in Int : t = m % Order /\ Equal(t, m)
  BY RestType, EqualRest
<1>4. PICK n \in Int : n = a * s
  OBVIOUS
<1>5. Equal(n, m)
  BY <1>1, <1>2, <1>4, EqualProduct, EqualSelf
<1>6. n % Order \in Int /\ Equal(n % Order, n)
  BY RestType, EqualRest
<1>7. Equal(n % Order, m)
  BY <1>5, <1>6, EqualTrans
<1>8. Equal(t * s, m * b)
  BY <1>1, <1>3, EqualProduct
<1> QED
  BY <1>1, <1>2, <1>3, <1>4, <1>7, <1>8

\* The sum of both numbers of the verification, as a scalar and as points.
Recover(w, r, m, k) == (((w * (m % Order)) % Order) + ((w * r) % Order) * (k % Order)) % Order
BothParts(w, r, m, k) == Plus(Times((w * m) % Order), Times((((w * r) % Order) * k) % Order))

SumIs(w, r, m, k) ==
    /\ Recover(w, r, m, k) \in Int /\ Equal(Recover(w, r, m, k), w * m + (w * r) * k)
    /\ BothParts(w, r, m, k) = Times(w * m + (w * r) * k)

LEMMA Combined ==
    ASSUME NEW w \in Int, NEW m \in Int, NEW r \in Int, NEW k \in Int
    PROVE  SumIs(w, r, m, k)
<1>1. PICK M \in Int, R \in Int, K \in Int : M = w * m /\ R = w * r /\ K = R * k
  OBVIOUS
<1>2. PICK u \in Int : u = (w * (m % Order)) % Order /\ Equal(u, M)
  <2>1. w * (m % Order) \in Int
    BY RestType
  <2>2. Equal((w * (m % Order)) % Order, w * m)
    BY EqualProductOfRest
  <2> QED
    BY <1>1, <2>1, <2>2, RestType
<1>3. PICK v \in Int, h \in Int : v = R % Order /\ Equal(v, R) /\ h = k % Order /\ Equal(h, k)
  BY RestType, EqualRest
<1>4. PICK q \in Int : q = v * h
  OBVIOUS
<1>5. Equal(q, K)
  BY <1>1, <1>3, <1>4, EqualProduct
<1>6. Equal(u + q, M + K)
  BY <1>2, <1>5, EqualSum
<1>7. Equal((u + q) % Order, u + q) /\ (u + q) % Order \in Int
  BY EqualRest, RestType
<1>8. Equal((u + q) % Order, M + K)
  BY <1>6, <1>7, EqualTrans
<1>9. Times(M % Order) = Times(M)
  BY EqualRest, RestType, SameTimes
<1>10. Times((v * k) % Order) = Times(K)
  <2>1. Equal(v * k, K)
    BY <1>1, <1>3, EqualProduct, EqualSelf
  <2>2. Equal((v * k) % Order, v * k) /\ (v * k) % Order \in Int
    BY EqualRest, RestType
  <2>3. Equal((v * k) % Order, K)
    BY <2>1, <2>2, EqualTrans
  <2> QED
    BY <2>2, <2>3, SameTimes
<1>11. Plus(Times(M), Times(K)) = Times(M + K)
  BY TimesSum
<1> QED
  BY <1>1, <1>2, <1>3, <1>4, <1>7, <1>8, <1>9, <1>10, <1>11, Zenon
     DEF SumIs, Recover, BothParts

\* A signature leads back to the nonce, or to its opposite when s was made low.
LEMMA LeadsBack ==
    ASSUME NEW n \in Int, NEW i \in Int, NEW r \in Int, NEW k \in Int, NEW m \in Int,
           NEW s \in Int, NEW w \in Int, NEW e \in {1, -1},
           Equal(i * n, 1), Equal(s, i * (r * k + m)), Equal(w * (e * s), 1)
    PROVE  Equal(w * m + (w * r) * k, e * n)
<1>1. PICK V \in Int : V = r * k + m
  OBVIOUS
<1>2. PICK P \in Int : P = i * V
  OBVIOUS
<1>3. PICK a \in Int : i * n = 1 + a * Order
  BY DEF Equal
<1>4. PICK b \in Int : s = P + b * Order
  BY <1>1, <1>2 DEF Equal
<1>5. PICK c \in Int : w * (e * s) = 1 + c * Order
  BY DEF Equal
<1>6. Order \in Int
  BY OrderType
<1>7. n * s = V + (a * V + b * n) * Order
  <2>1. n * s = n * P + (b * n) * Order
    BY <1>4, <1>6
  <2>2. n * P = (i * n) * V
    BY <1>2
  <2>3. n * P = V + (a * V) * Order
    BY <1>3, <1>6, <2>2
  <2> QED
    BY <1>6, <2>1, <2>3
<1>8. PICK d \in Int : d = a * V + b * n
  OBVIOUS
<1>9. V = n * s + (-d) * Order
  BY <1>6, <1>7, <1>8
<1>10. w * V = (w * s) * n + (-(w * d)) * Order
  BY <1>6, <1>9
<1>11. e * (w * s) = 1 + c * Order
  BY <1>5
<1>12. w * s = e + (e * c) * Order
  <2>1. e * e = 1 /\ e \in Int
    OBVIOUS
  <2>2. PICK W \in Int : W = w * s
    OBVIOUS
  <2>3. CASE e = 1
    BY <1>6, <1>11, <2>2, <2>3
  <2>4. CASE e = -1
    <3>1. -W = 1 + c * Order
      BY <1>6, <1>11, <2>2, <2>4
    <3> QED
      BY <1>6, <2>2, <2>4, <3>1
  <2> QED
    BY <2>3, <2>4
<1>13. PICK f \in Int : f = (e * c) * n - w * d
  OBVIOUS
<1>14. w * V = e * n + f * Order
  <2>1. (w * s) * n = e * n + ((e * c) * n) * Order
    BY <1>6, <1>12
  <2> QED
    BY <1>6, <1>10, <1>13, <2>1
<1>15. w * V = w * m + (w * r) * k
  BY <1>1
<1>16. w * m + (w * r) * k \in Int /\ e * n \in Int
  OBVIOUS
<1> QED
  BY <1>13, <1>14, <1>15, <1>16, EqualBy

LEMMA NegIs ==
    ASSUME NEW s \in 0 .. Order - 1
    PROVE  /\ Neg(s) = (IF s = 0 THEN 0 ELSE Order - s)
           /\ Neg(s) \in 0 .. Order - 1 /\ Equal(Neg(s), -s)
<1>1. Order \in Int /\ 2^Bits \in Int /\ Order < 2^Bits
  BY ScalarAssumption
<1>2. CASE s = 0
  <2>1. Neg(s) = 0
    BY <1>2, Zenon DEF Neg
  <2>2. PICK x \in Int : x = -s /\ s + x = 0
    BY <1>1
  <2>3. Equal(0, x) /\ 0 \in 0 .. Order - 1
    <3>0. 0 + x = 0
      BY <1>2, <2>2, Zenon
    <3>1. x = 0
      BY <3>0
    <3> QED
      BY <3>1, OrderType, EqualSelf
  <2> QED
    BY <1>2, <2>1, <2>2, <2>3, Zenon
<1>3. CASE s # 0
  <2>1. PICK B \in Int : B = 2^Bits /\ Order < B
    BY <1>1
  <2>2. (Order - s) % B = Order - s
    BY <1>1, <1>3, <2>1
  <2>3. Neg(s) = Order - s
    BY <1>3, <2>1, <2>2 DEF Neg
  <2>4. Order - s = -s + 1 * Order /\ Order - s \in Int /\ -s \in Int
    BY <1>1
  <2>5. Equal(Order - s, -s)
    BY <2>4, EqualBy
  <2> QED
    BY <1>1, <1>3, <2>3, <2>5
<1> QED
  BY <1>2, <1>3

\* The low one of the two.
LEMMA LowIs ==
    ASSUME NEW s \in 0 .. Order - 1
    PROVE  /\ (IF 2 * s > Order THEN Neg(s) ELSE s) \in 0 .. Order - 1
           /\ ~(2 * (IF 2 * s > Order THEN Neg(s) ELSE s) > Order)
           /\ s # 0 => (IF 2 * s > Order THEN Neg(s) ELSE s) # 0
           /\ \E e \in {1, -1} : Equal(IF 2 * s > Order THEN Neg(s) ELSE s, e * s)
<1>1. Order \in Int
  BY OrderType
<1>2. CASE 2 * s > Order
  <2>1. Neg(s) = Order - s /\ Equal(Neg(s), -s)
    BY <1>1, <1>2, NegIs
  <2>2. -s = (-1) * s
    OBVIOUS
  <2> QED
    BY <1>1, <1>2, <2>1, <2>2
<1>3. CASE ~(2 * s > Order)
  <2>1. s = 1 * s /\ Equal(s, s)
    BY EqualSelf
  <2> QED
    BY <1>3, <2>1
<1> QED
  BY <1>2, <1>3

\* The s that is signed, before it is made low.
HighOrLow(i, r, k, m) == (i * ((((r * k) % Order) + (m % Order)) % Order)) % Order

LEMMA SignedS ==
    ASSUME NEW i \in Int, NEW r \in Int, NEW k \in Int, NEW m \in Int
    PROVE  HighOrLow(i, r, k, m) \in 0 .. Order - 1 /\ Equal(HighOrLow(i, r, k, m), i * (r * k + m))
<1>1. PICK R \in Int : R = r * k
  OBVIOUS
<1>2. PICK u \in Int, v \in Int : u = R % Order /\ Equal(u, R) /\ v = m % Order /\ Equal(v, m)
  BY RestType, EqualRest
<1>3. Equal(u + v, R + m)
  BY <1>2, EqualSum
<1>4. PICK t \in Int : t = (u + v) % Order /\ Equal(t, u + v)
  BY RestType, EqualRest
<1>5. Equal(t, R + m)
  BY <1>3, <1>4, EqualTrans
<1>6. PICK x \in Int, y \in Int : x = i * t /\ y = i * (R + m) /\ Equal(x, y)
  <2>1. R + m \in Int
    OBVIOUS
  <2>2. Equal(i * t, i * (R + m)) /\ i * t \in Int /\ i * (R + m) \in Int
    BY <1>5, <2>1, EqualTimes, Zenon
  <2> QED
    BY <2>2, Zenon
<1>8. PICK z \in Int : z = x % Order /\ z \in 0 .. Order - 1 /\ Equal(z, x)
  BY RestType, EqualRest, OrderType
<1>9. Equal(z, y)
  BY <1>6, <1>8, EqualTrans
<1>10. z = (i * ((((r * k) % Order) + (m % Order)) % Order)) % Order
  <2>2. u + v = ((r * k) % Order) + (m % Order)
    BY <1>1, <1>2, Zenon
  <2>1. t = (((r * k) % Order) + (m % Order)) % Order
    BY <1>4, <2>2, Zenon
  <2> QED
    BY <1>6, <1>8, <2>1
<1>11. y = i * (r * k + m)
  BY <1>1, <1>6, Zenon
<1> QED
  BY <1>8, <1>9, <1>10, <1>11, Zenon DEF HighOrLow

LEMMA OppositeX ==
    ASSUME NEW t \in Points
    PROVE  Opposite(t).x = t.x
  BY OppositeIs

\* i and w are the inverses of the nonce and of s.
IsSigned(n, r, k, m, i, s, d, w) ==
    /\ n \in 1 .. Order - 1 /\ s \in 1 .. Order - 1
    /\ r \in Int /\ k \in Int /\ m \in Int /\ i \in Int /\ w \in Int
    /\ d \in {1, -1} /\ Equal(s, d * HighOrLow(i, r, k, m))
    /\ Equal(i * n, 1) /\ Equal(w * s, 1)

\* The verification meets the nonce's x.
ComesBack(n, r, k, m, w) ==
    Times(Recover(w, r, m, k)) \in Points /\ Times(Recover(w, r, m, k)).x = Times(n).x

\* What is signed is accepted: s is low and not zero, and with its inverse w the sum
\* of the two multiples is the nonce's point or its opposite, which has the same x.
LEMMA NonceReturns ==
    ASSUME NEW n, NEW r, NEW k, NEW m, NEW i, NEW s, NEW d, NEW w,
           IsSigned(n, r, k, m, i, s, d, w)
    PROVE  ComesBack(n, r, k, m, w)
<1> SUFFICES ASSUME n \in 1 .. Order - 1, r \in Int, k \in Int, m \in Int,
                    i \in Int, s \in 1 .. Order - 1, d \in {1, -1}, w \in Int
             PROVE  ComesBack(n, r, k, m, w)
  BY Zenon DEF IsSigned
<1>0. Equal(i * n, 1) /\ Equal(s, d * HighOrLow(i, r, k, m)) /\ Equal(w * s, 1)
  BY Zenon DEF IsSigned
<1>1. PICK s0 \in Int : s0 = HighOrLow(i, r, k, m)
  <2>1. HighOrLow(i, r, k, m) \in 0 .. Order - 1
    BY Zenon, SignedS
  <2> QED
    BY <2>1, OrderType
<1>2. Equal(s0, i * (r * k + m))
  BY Zenon, <1>1, SignedS
<1>3. Equal(s, d * s0)
  BY Zenon, <1>0, <1>1
<1>4. Equal(w * (d * s0), 1)
  <2>1. Equal(d * s0, s)
    BY <1>3, EqualTrans, EqualSelf
  <2>2. d * s0 \in Int
    OBVIOUS
  <2>5. s \in Int
    BY OrderType
  <2>6. Equal(w * (d * s0), w * s) /\ w * (d * s0) \in Int /\ w * s \in Int
    BY <2>1, <2>2, <2>5, EqualTimes, Zenon
  <2>3. PICK x \in Int, y \in Int : x = w * (d * s0) /\ y = w * s /\ Equal(x, y)
    BY <2>6, Zenon
  <2>4. Equal(x, 1)
    BY <1>0, <2>3, EqualTrans
  <2> QED
    BY <2>3, <2>4, Zenon
<1>5. Equal(w * m + (w * r) * k, d * n)
  <2>1. n \in Int /\ s0 \in Int
    BY OrderType
  <2> QED
    BY <1>0, <1>2, <1>4, <2>1, LeadsBack, Zenon
<1> DEFINE u == Recover(w, r, m, k)
<1>6. u \in Int /\ Equal(u, w * m + (w * r) * k)
  BY Zenon, Combined DEF SumIs
<1> HIDE DEF u
<1>7. Equal(u, d * n)
  <2>1. w * m + (w * r) * k \in Int /\ d * n \in Int
    OBVIOUS
  <2> QED
    BY <1>5, <1>6, <2>1, EqualTrans
<1>8. Times(u) = Times(d * n)
  BY <1>6, <1>7, SameTimes
<1>9. Times(n) \in Points
  <2>1. n % Order = n /\ n # 0 /\ n \in Int
    BY OrderType, RestOfRest
  <2> QED
    BY <2>1, TimesFinite
<1>10. Times(u) \in Points /\ Times(u).x = Times(n).x
  <2>1. CASE d = 1
    <3>1. d * n = n
      BY <2>1
    <3> QED
      BY <1>8, <1>9, <3>1
  <2>2. CASE d = -1
    <3>1. d * n = -n
      BY <2>2
    <3>2. Times(u) = Opposite(Times(n))
      BY <1>8, <3>1, TimesOpposite
    <3> QED
      BY <1>9, <3>2, OppositeX, OppositeIs
  <2> QED
    BY <2>1, <2>2
<1> QED
  BY Zenon, <1>10 DEF u, ComesBack
================================================================================
