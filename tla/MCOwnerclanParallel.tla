------------------------- MODULE MCOwnerclanParallel -------------------------
(* Instance of OwnerclanParallel for TLC. *)
EXTENDS OwnerclanParallel

CONSTANTS w1, w2

MCWorker == {w1, w2}

\* Category 1 has two pages; the server repeats category 2's first cursor after
\* its third page.
Looping == <<[k \in 0..2 |-> <<1, 0, 0>>[k + 1]],
             [k \in 0..2 |-> <<1, 2, 1>>[k + 1]]>>
=============================================================================
