------------------------------- MODULE Generator -------------------------------
(***************************************************************************)
(* The points, Order of them, by their logarithms; and points as they are  *)
(* stored in tables and keys (ge_storage, group_impl.h): normalized,       *)
(* finite, with nothing but their coordinates.                             *)
(***************************************************************************)
EXTENDS Points, SignedDigits

CONSTANT Null       \* no value, no pointer

Indices(k) == [i \in 1 .. k |-> i]

G == CHOOSE t \in Points : TRUE

\* 0, G, 2G, ...
Multiples[k \in 0 .. Order - 1] == IF k = 0 THEN Infinity ELSE Plus(Multiples[k - 1], G)
Times(k) == Multiples[k % Order]

\* As chord and tangent make a group of the points, of a prime order.
ASSUME GroupAssumption ==
    /\ Points # {}
    /\ \A s, t \in Points \cup {Infinity} : Plus(Plus(s, t), G) = Plus(s, Plus(t, G))
ASSUME OrderAssumption ==
    \A a \in 1 .. Order - 1 : \E k \in 1 .. Order - 1 : (k * a) % Order = 1
ASSUME GeneratorAssumption == Plus(Times(Order - 1), G) = Infinity

\* f is, with z, the point t.
StandsFor(f, z, t) ==
    /\ f.inf = (t = Infinity)
    /\ t # Infinity =>
           /\ z # 0
           /\ f.x.v = (t.x * z * z) % p
           /\ f.y.v = (((t.y * z * z) % p) * z) % p

fe_to_storage(f) == IF f.n THEN f.v ELSE Null
fe_from_storage(val) == IF val = Null THEN Broken ELSE Fe(val, 1, TRUE)
ge_to_storage(g) == [x |-> fe_to_storage(normalize(g.x)), y |-> fe_to_storage(normalize(g.y))]
ge_from_storage(s) == Ge(fe_from_storage(s.x), fe_from_storage(s.y), FALSE)
=============================================================================
