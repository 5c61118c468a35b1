--------------------------- MODULE OwnerclanPasses ---------------------------
(***************************************************************************)
(* The category collections of one ownerclan installation, pass after      *)
(* pass.  main.run collects sequentially or in parallel, as --category-    *)
(* workers says, and an interrupted pass may be taken up in the other way: *)
(* both read and remove category-collection-state.json, but only the       *)
(* parallel collection knows category-collection-progress.json.  FileLock  *)
(* keeps two runs apart.                                                   *)
(*                                                                         *)
(* OwnerclanParallel's variables keep their names, OwnerclanSequential's   *)
(* are seq...; they share the state file and the history.                  *)
(***************************************************************************)
EXTENDS OwnerclanCatalogue

CONSTANTS
    Modes,                \* the ways of collecting that each pass may use
    Worker, MaxCategoryFailures,
    MaxFaults,            \* bound: faults of the parallel, and of the
                          \* sequential runs
    MaxLimitedRuns,       \* bound, as in OwnerclanSequential
    MaxPasses             \* bound: passes collected one after the other

ASSUME PassAssumption ==
    /\ MaxPasses \in Nat \ {0}
    /\ Modes \in [1..MaxPasses -> SUBSET {"parallel", "sequential"}]
    /\ Worker # {} /\ MaxCategoryFailures \in Nat \ {0}
    /\ MaxFaults \in Nat /\ MaxLimitedRuns \in Nat

VARIABLES
    progressFile, legacyState, handled,
    run, completed, inProgress, taskQueue, failuresByCategory, failureCount,
    stopRequested, pc, category, initialAfter, after, seenCursors, pendingSave,
    faults, runs,
    seqRun, seqOptions, seqPc, seqCategory, seqAfter, seqSeenCursors, seqResume,
    seqLimitReached, seqPendingSave, seqFaults, seqLimitedRuns,
    pass  \* number of the pass, from 1

parVars == <<run, completed, inProgress, taskQueue, failuresByCategory,
             failureCount, stopRequested, pc, category, initialAfter, after,
             seenCursors, pendingSave, faults, runs>>
seqVars == <<seqRun, seqOptions, seqPc, seqCategory, seqAfter, seqSeenCursors,
             seqResume, seqLimitReached, seqPendingSave, seqFaults,
             seqLimitedRuns>>
vars == <<progressFile, legacyState, handled, parVars, seqVars, pass>>

Parallel == INSTANCE OwnerclanParallel

Sequential == INSTANCE OwnerclanSequential
    WITH run <- seqRun, options <- seqOptions, pc <- seqPc,
         category <- seqCategory, after <- seqAfter,
         seenCursors <- seqSeenCursors, resume <- seqResume,
         limitReached <- seqLimitReached, pendingSave <- seqPendingSave,
         faults <- seqFaults, limitedRuns <- seqLimitedRuns

Init ==
    /\ Parallel!Init
    /\ Sequential!Init
    /\ pass = 1

Finished == run = "finished" \/ seqRun = "finished"

\* While one collection runs, or the pass is over, the other does not start.
ParallelStep ==
    /\ "parallel" \in Modes[pass]
    /\ seqRun = "down" /\ run # "finished"
    /\ Parallel!Next
    /\ UNCHANGED <<seqVars, pass>>

SequentialStep ==
    /\ "sequential" \in Modes[pass]
    /\ run = "down" /\ seqRun # "finished"
    /\ Sequential!Next
    /\ UNCHANGED <<progressFile, parVars, pass>>

\* Another day: everything is to be collected again.
NextPass ==
    /\ Finished
    /\ pass < MaxPasses
    /\ pass' = pass + 1
    /\ handled' = {}
    /\ run' = "down"
    /\ seqRun' = "down"
    /\ UNCHANGED <<progressFile, legacyState, completed, inProgress, taskQueue,
                   failuresByCategory, failureCount, stopRequested, pc, category,
                   initialAfter, after, seenCursors, pendingSave, faults, runs,
                   seqOptions, seqPc, seqCategory, seqAfter, seqSeenCursors,
                   seqResume, seqLimitReached, seqPendingSave, seqFaults,
                   seqLimitedRuns>>

Rest == Finished /\ pass = MaxPasses /\ UNCHANGED vars

Next == ParallelStep \/ SequentialStep \/ NextPass \/ Rest

Spec == Init /\ [][Next]_vars

-----------------------------------------------------------------------------
(* Properties. *)

\* The pass that has been collected is whole, whichever runs of either kind it
\* was put together from.
PassIsWhole == Finished => Page \subseteq handled

\* No pass but the last is collected in both ways.
OneWayUntilLast ==
    \A p \in 1..MaxPasses - 1 : ~({"parallel", "sequential"} \subseteq Modes[p])

\* No pass ends with a progress file that its runs have left.
NothingLeftOver == [][NextPass => progressFile = Parallel!NoProgress]_vars

\* Whichever way a run left off, a run of either kind that goes on from the
\* files skips nothing but saved pages.
EitherMayGoOn ==
    ~Finished => /\ "parallel" \in Modes[pass] => Parallel!ResumePointBehindSaves
                 /\ "sequential" \in Modes[pass] => Sequential!ResumePointBehindSaves
=============================================================================
