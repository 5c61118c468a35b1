-------------------------- MODULE MCOwnerclanPasses --------------------------
(* Instances of OwnerclanPasses for TLC. *)
EXTENDS OwnerclanPasses, TLC

CONSTANTS w1, w2

MCWorker == {w1, w2}

Symmetry == Permutations(MCWorker)

\* Two categories: two pages, and one page.
Short == <<[k \in 0..1 |-> <<1, 0>>[k + 1]],
           [k \in 0..1 |-> 0]>>
\* The first pass is collected by parallel runs, the second by any.
ParallelFirst == <<{"parallel"}, {"parallel", "sequential"}>>

\* Both passes are collected by any runs.
AnyRuns == <<{"parallel", "sequential"}, {"parallel", "sequential"}>>
=============================================================================
