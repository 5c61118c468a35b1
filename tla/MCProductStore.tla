--------------------------- MODULE MCProductStore ---------------------------
(* Instance of ProductStore for TLC: two savers that meet the same products. *)
EXTENDS ProductStore

CONSTANTS s1, s2, p1, p2

Shared == [s \in {s1, s2} |-> {p1, p2}]

Report(price, updated) == [price |-> price, updatedAt |-> updated]

\* The first product changes, in its price or in its updatedAt alone; the second
\* one may only be new.
MCReports ==
    [p \in {p1, p2} |-> IF p = p1 THEN {Report(1, 1), Report(2, 1), Report(1, 2)}
                        ELSE {Report(1, 1)}]

\* A product's states are only compared with each other, so it does not matter
\* which one it begins with.
MCInit ==
    /\ Init
    /\ \A p \in Product : history[p] # <<>> => history[p][1].state = Report(1, 1)

MCSpec == MCInit /\ [][Next]_vars /\ Fairness
=============================================================================
