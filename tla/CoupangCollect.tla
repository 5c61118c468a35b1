---------------------------- MODULE CoupangCollect ----------------------------
(***************************************************************************)
(* The coupang collector (collect_once): one thread searches the keywords  *)
(* in order, keeps the products it finds in memory, records each keyword   *)
(* that succeeded in the checkpoint file at once, and saves all products   *)
(* after the last keyword, when the checkpoint of a finished pass has      *)
(* already been removed.                                                   *)
(***************************************************************************)
EXTENDS Integers, FiniteSets

CONSTANTS
    NumKeywords,   \* length of the keyword list; load_keywords drops repetitions
    MaxRetries,    \* max_retries of the client
    MaxApiErrors,  \* bound: calls of the API that fail
    MaxFileErrors, \* bound: checkpoint writes that fail
    MaxSaveErrors, \* bound: saves of the products that raise
    MaxCrashes     \* bound: runs that die

Keyword == 1..NumKeywords

ASSUME CoupangAssumption ==
    /\ NumKeywords \in Nat \ {0}
    /\ MaxRetries \in Nat
    /\ MaxApiErrors \in Nat /\ MaxFileErrors \in Nat
    /\ MaxSaveErrors \in Nat /\ MaxCrashes \in Nat

Faults == {"api", "file", "save", "crash"}

Limit == [api |-> MaxApiErrors, file |-> MaxFileErrors, save |-> MaxSaveErrors,
          crash |-> MaxCrashes]

VARIABLES
    checkpointFile,  \* product_search_checkpoint.json
    handled,         \* keywords whose products the store has been given (history)
    run,             \* "down", or where the run is
    keyword,         \* the next keyword of the loop
    completed,       \* completed_keywords in memory
    collected,       \* keywords whose products are in collected_products
    failed,          \* failure_keywords
    attempt,         \* attempt of search_products for the keyword
    searched,        \* keywords whose search has succeeded in this pass (history)
    repeats,         \* searches that succeeded for such a keyword again (history)
    passOver,        \* the checkpoint has been cleared (history)
    faults           \* kind -> faults so far

memoryVars == <<keyword, completed, collected, failed, attempt>>
historyVars == <<searched, repeats, passOver>>
vars == <<checkpointFile, handled, run, memoryVars, historyVars, faults>>

Init ==
    /\ checkpointFile = {}
    /\ handled = {}
    /\ run = "down"
    /\ keyword = 1 /\ completed = {} /\ collected = {} /\ failed = {} /\ attempt = 1
    /\ searched = {} /\ repeats = 0
    /\ passOver = FALSE
    /\ faults = [kind \in Faults |-> 0]

LoseMemory ==
    keyword' = 1 /\ completed' = {} /\ collected' = {} /\ failed' = {} /\ attempt' = 1

Fault(kind) ==
    /\ faults[kind] < Limit[kind]
    /\ faults' = [faults EXCEPT ![kind] = @ + 1]

\* Checkpoint.load.
LoadCheckpoint == completed' = checkpointFile

\* collect_once, up to the first keyword.
StartRun ==
    /\ run = "down" /\ ~passOver
    /\ run' = "search"
    /\ LoadCheckpoint
    /\ UNCHANGED <<checkpointFile, handled, keyword, collected, failed, attempt,
                   historyVars, faults>>

Crash ==
    /\ run # "down"
    /\ Fault("crash")
    /\ run' = "down"
    /\ LoseMemory
    /\ UNCHANGED <<checkpointFile, handled, historyVars>>

\* Mutant: completed keywords are searched again.
NeverSkipped(k) == FALSE

Skipped(k) == k \in completed

Advance == keyword' = keyword + 1 /\ attempt' = 1

SkipKeyword ==
    /\ run = "search" /\ keyword \in Keyword
    /\ Skipped(keyword)
    /\ Advance
    /\ UNCHANGED <<checkpointFile, handled, run, completed, collected, failed,
                   historyVars, faults>>

Searching == run = "search" /\ keyword \in Keyword /\ ~Skipped(keyword)

\* The API answers, and the products go to memory.
SearchSucceeds ==
    /\ Searching
    /\ repeats' = repeats + IF keyword \in searched THEN 1 ELSE 0
    /\ searched' = searched \cup {keyword}
    /\ collected' = collected \cup {keyword}
    /\ run' = "mark"
    /\ UNCHANGED <<checkpointFile, handled, keyword, completed, failed, attempt,
                   passOver, faults>>

\* mark_completed: the keyword is added in memory, and the file is replaced.
MarkCompleted ==
    /\ run = "mark"
    /\ completed' = completed \cup {keyword}
    /\ checkpointFile' = completed'
    /\ Advance
    /\ run' = "search"
    /\ UNCHANGED <<handled, collected, failed, historyVars, faults>>

\* The file cannot be written: the keyword counts as failed, although its
\* products are in memory and the next write records it.
MarkRaises ==
    /\ run = "mark"
    /\ Fault("file")
    /\ completed' = completed \cup {keyword}
    /\ failed' = failed \cup {keyword}
    /\ Advance
    /\ run' = "search"
    /\ UNCHANGED <<checkpointFile, handled, collected, historyVars>>

\* Mutant: the failed keyword counts as completed.
SearchFailsUnnoticed ==
    /\ Searching
    /\ Fault("api")
    /\ run' = "mark"
    /\ UNCHANGED <<checkpointFile, handled, memoryVars, historyVars>>

\* search_products: a timeout, a broken connection, 429 or a 5xx is tried again
\* after a pause.
RetrySearch ==
    /\ Searching
    /\ attempt <= MaxRetries
    /\ Fault("api")
    /\ attempt' = attempt + 1
    /\ UNCHANGED <<checkpointFile, handled, run, keyword, completed, collected,
                   failed, historyVars>>

\* The last attempt fails, or the answer is an error that is not tried again:
\* another status, an rCode other than 0, or no JSON.
SearchFails ==
    /\ Searching
    /\ Fault("api")
    /\ failed' = failed \cup {keyword}
    /\ Advance
    /\ UNCHANGED <<checkpointFile, handled, run, completed, collected,
                   historyVars>>

\* Mutant: all keywords must have been searched by this run.
AllCollectedNow == Keyword \subseteq collected /\ failed = {}

AllCompleted == Keyword \subseteq completed /\ failed = {}

\* After the last keyword: every keyword succeeded, now or in an earlier run,
\* and the checkpoint is removed.
ClearCheckpoint ==
    /\ run = "search" /\ keyword = NumKeywords + 1
    /\ IF AllCompleted
         THEN checkpointFile' = {} /\ passOver' = TRUE
         ELSE UNCHANGED <<checkpointFile, passOver>>
    /\ run' = "save"
    /\ UNCHANGED <<handled, memoryVars, searched, repeats, faults>>

\* save_products_with_raw_samples_if_enabled returns and the run ends.
SaveProducts ==
    /\ run = "save"
    /\ handled' = handled \cup collected
    /\ run' = "down"
    /\ LoseMemory
    /\ UNCHANGED <<checkpointFile, historyVars, faults>>

\* It raises, and the run ends with the exception.
SaveRaises ==
    /\ run = "save"
    /\ Fault("save")
    /\ run' = "down"
    /\ LoseMemory
    /\ UNCHANGED <<checkpointFile, handled, historyVars>>

Step ==
    \/ SkipKeyword
    \/ SearchSucceeds
    \/ MarkCompleted
    \/ ClearCheckpoint
    \/ SaveProducts

\* The pass is over; the next one is another behaviour.
Rest == run = "down" /\ passOver /\ UNCHANGED vars

Next ==
    \/ StartRun
    \/ Step
    \/ RetrySearch
    \/ SearchFails
    \/ MarkRaises
    \/ SaveRaises
    \/ Crash
    \/ Rest

Spec == Init /\ [][Next]_vars

\* The scheduler runs the collector daily, the API and the store answer.
Fairness == WF_vars(StartRun) /\ WF_vars(Step)

FairSpec == Spec /\ Fairness

-----------------------------------------------------------------------------
(* Properties. *)

TypeOK ==
    /\ checkpointFile \in SUBSET Keyword
    /\ handled \in SUBSET Keyword
    /\ run \in {"down", "search", "mark", "save"}
    /\ keyword \in 1..(NumKeywords + 1) /\ (run = "mark" => keyword \in Keyword)
    /\ completed \in SUBSET Keyword
    /\ collected \in SUBSET Keyword
    /\ failed \in SUBSET Keyword
    /\ attempt \in 1..(MaxRetries + 1)
    /\ searched \in SUBSET Keyword
    /\ repeats \in Nat
    /\ passOver \in BOOLEAN
    /\ faults \in [Faults -> Nat]
    /\ \A kind \in Faults : faults[kind] <= Limit[kind]

\* What the next run will skip has been saved.
CheckpointBehindSaves ==
    run = "down" /\ ~passOver => checkpointFile \subseteq handled

\* While runs die neither between a keyword and the final save nor in that
\* save, nothing is lost: whatever searches and checkpoint writes failed, what
\* the next run skips has been saved, and so is everything when the pass is
\* over.
SavedUnlessInterrupted ==
    (run = "down" /\ faults["save"] = 0 /\ faults["crash"] = 0)
        => /\ checkpointFile \subseteq handled
           /\ passOver => handled = Keyword

\* The checkpoint saves searches: a failed write, or a run that dies, costs at
\* most one search again, however many keywords had been answered before.
FewSearchedAgain == repeats <= faults["file"] + faults["crash"]

\* With finitely many faults the pass comes to its end.
PassEnds == <>(run = "down" /\ passOver)
=============================================================================
