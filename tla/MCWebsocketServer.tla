--------------------------- MODULE MCWebsocketServer ---------------------------
EXTENDS WebsocketServer, TLC

Symmetry == Permutations(Items)

\* Bound of the two-item run: one of the items completes a request and dials.
OneRequest ==
    \A i, j \in Items : items[i].first = "no" /\ items[j].first = "no" => i = j
=============================================================================
