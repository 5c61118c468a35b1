------------------------ MODULE MCOwnerclanSequential ------------------------
(* Instances of OwnerclanSequential for TLC. *)
EXTENDS OwnerclanSequential

\* Three categories: two pages; three pages, the last of which leads back to
\* its first cursor; one page.
Mixed == <<[k \in 0..2 |-> <<1, 0, 0>>[k + 1]],
           [k \in 0..2 |-> <<1, 2, 1>>[k + 1]],
           [k \in 0..2 |-> 0]>>
=============================================================================
