--------------------------- MODULE CollectionPass ---------------------------
(***************************************************************************)
(* What every collector of this repository promises about one collection   *)
(* pass: a pass goes over a fixed set of pages (listing pages, products,   *)
(* keywords), hands each page's content to the store and keeps, on disk, a *)
(* resume point from which an interrupted pass goes on.  The promise is    *)
(* that the resume point never covers a page whose content the store has   *)
(* not been given, so an interruption at any step loses nothing.           *)
(***************************************************************************)

CONSTANT Page  \* the pages of the pass

VARIABLES
    handled,   \* pages whose content the store has been given
    covered,   \* pages that a pass resumed now would not fetch again
    finished   \* the pass is over and its resume point has been removed

vars == <<handled, covered, finished>>

Init ==
    /\ handled \in SUBSET Page
    /\ covered \in SUBSET handled
    /\ finished = FALSE

\* The store is given the content of some pages, in one transaction.
HandlePages(pages) ==
    /\ ~finished
    /\ handled' = handled \cup pages
    /\ UNCHANGED <<covered, finished>>

\* A new resume point is written.  It may also be an earlier one (the server
\* repeats a cursor), which costs a second fetch and loses nothing.
WriteResumePoint ==
    /\ ~finished
    /\ covered' \in SUBSET handled
    /\ UNCHANGED <<handled, finished>>

\* The resume point is removed: the next pass starts from the first page.
Finish ==
    /\ ~finished
    /\ Page \subseteq handled
    /\ covered' = {}
    /\ finished' = TRUE
    /\ UNCHANGED handled

Next ==
    \/ \E pages \in SUBSET Page : HandlePages(pages)
    \/ WriteResumePoint
    \/ Finish

Spec == Init /\ [][Next]_vars
=============================================================================
