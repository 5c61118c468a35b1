---------------------------- MODULE DomeggookDetails ----------------------------
(***************************************************************************)
(* collect_details of domeggook: the details of a list of product ids are  *)
(* fetched batch by batch; a state file says where to go on.  The module   *)
(* holds the variables of a run that the detail collection shares with the *)
(* list discoveries (DomeggookRuns), and the collection's own actions.     *)
(***************************************************************************)
EXTENDS Integers, Sequences, FiniteSets, SequencesExt

CONSTANTS
    Product,       \* numbers, ordered as external_product_id is
    Schedules,     \* sets of modes: "full", "daily" (main.run) and "fixed"
    Budget,        \* max_api_calls
    BatchSize,     \* details.batch_size
    MaxAttempts,   \* calls for one batch while the answers are invalid JSON
    ProductLimit,  \* --limit of a limited run
    MaxFaults      \* bound: deadlines, failed calls, crashes, limited runs and
                   \* changes of the listing, all together

ASSUME DetailsAssumption ==
    /\ Product \subseteq Nat \ {0} /\ IsFiniteSet(Product)
    /\ \A s \in Schedules : s # {} /\ s \subseteq {"full", "daily", "fixed"}
    /\ Budget \in Nat \ {0} /\ BatchSize \in Nat \ {0}
    /\ MaxAttempts \in Nat \ {0} /\ ProductLimit \in Nat \ {0}
    /\ MaxFaults \in Nat

Mode == UNION Schedules

None == [exists |-> FALSE]

VARIABLES
    schedule,       \* the modes this installation is run in
    found,          \* product -> first_discovered_at of its row in
                    \* product_discovery_targets, 0 without a row
    detailState,    \* mode -> the state file of its details, or None
    due,            \* mode -> products listed when the pass over the details
                    \* began whose batch has not been answered (history)
    relisted,       \* modes whose lists have lost products or changed their
                    \* order since the pass began (history)
    pc, mode, limited,
    used,           \* run_budget.used_api_calls
    failed,         \* the failureCount of a stage is not 0
    stopped,        \* a stage has reached the deadline or the budget's end
    list, index,    \* product_ids, and how many of them are done with
    startLast,      \* lastCompletedProductId when the run began
    attempt,        \* calls for the batch that gave invalid JSON
    outcome,        \* how the last run ended
    faults          \* number of faults so far

detailVars == <<detailState, due, relisted>>
runVars == <<mode, limited, used, failed, stopped>>
listVars == <<list, index, startLast, attempt>>
detailsVars == <<schedule, found, detailVars, pc, runVars, listVars, outcome, faults>>

Fault ==
    /\ faults < MaxFaults
    /\ faults' = faults + 1

\* main.run's modes share a state file.
DetailModes(m) == IF m = "fixed" THEN {"fixed"} ELSE {"full", "daily"} \cap Mode

CanCall == used < Budget

\* The elements of S in the order of the pairs in before: the i-th one has i - 1
\* before it.
InOrder(S, before) ==
    [i \in 1..Cardinality(S) |->
        CHOOSE x \in S : Cardinality({y \in S : <<y, x>> \in before}) = i - 1]

\* ORDER BY first_discovered_at, external_product_id.
Precedes(p, q) == found[p] < found[q] \/ (found[p] = found[q] /\ p < q)

\* discovered_product_ids.
DiscoveredIds ==
    InOrder({p \in Product : found[p] > 0},
            {pair \in Product \X Product : Precedes(pair[1], pair[2])})

FirstOf(ids, n) == SubSeq(ids, 1, IF Len(ids) < n THEN Len(ids) ELSE n)

\* resume_index.  The list, which holds no product twice, stands for its hash.
ResumeIndex(ids, state) ==
    IF state = None THEN 0
    ELSE IF state.list = ids THEN state.next
    ELSE IF state.last \in ToSet(ids) THEN CHOOSE i \in DOMAIN ids : ids[i] = state.last
    ELSE 0

SameOrder(old, new) ==
    \A i, j \in DOMAIN old, k, l \in DOMAIN new :
        old[i] = new[k] /\ old[j] = new[l] /\ i < j => k < l

\* collect_details begins with the ids.
BeginDetails(ids) ==
    LET state == detailState[mode]
    IN  /\ list' = ids
        /\ index' = ResumeIndex(ids, state)
        /\ startLast' = IF state = None THEN 0 ELSE state.last
        /\ attempt' = 0
        /\ due' = [m \in Mode |-> IF m \in DetailModes(mode) /\ state = None
                                  THEN ToSet(ids) ELSE due[m]]
        /\ relisted' =
             IF state = None THEN relisted \ DetailModes(mode)
             ELSE IF /\ SameOrder(state.list, ids)
                     /\ mode = "fixed" => ToSet(state.list) \subseteq ToSet(ids)
             THEN relisted
             ELSE relisted \cup DetailModes(mode)
        /\ pc' = "batch"

WriteDetailState(state) ==
    detailState' = [m \in Mode |->
                      IF m \in DetailModes(mode) THEN state ELSE detailState[m]]

Batch == SubSeq(list, index + 1,
                IF index + BatchSize < Len(list) THEN index + BatchSize ELSE Len(list))

Fetching == pc = "batch" /\ index < Len(list)

\* The deadline or the end of the budget.  The last completed product is that
\* of the run's beginning.
StopDetails ==
    /\ Fetching /\ attempt = 0
    /\ IF CanCall THEN Fault ELSE UNCHANGED faults
    /\ WriteDetailState([list |-> list, next |-> index, last |-> startLast])
    /\ stopped' = TRUE
    /\ pc' = "detailsEnded"
    /\ UNCHANGED <<schedule, found, due, relisted, mode, limited, used, failed,
                   listVars, outcome>>

\* parse_detail_products: an answer holds products and errors.
Answered(errors) ==
    due' = [m \in Mode |-> IF m \in DetailModes(mode)
                           THEN due[m] \ (ToSet(Batch) \ errors) ELSE due[m]]

\* Mutant: an answer with errors counts like any other.
ReceiveBatchUnchecked ==
    /\ Fetching /\ (attempt > 0 \/ CanCall)
    /\ used' = used + 1 /\ attempt' = 0
    /\ \E errors \in SUBSET ToSet(Batch) :
        /\ Answered(errors)
        /\ IF errors = {} THEN UNCHANGED faults ELSE Fault
        /\ pc' = "write" /\ UNCHANGED failed
    /\ UNCHANGED <<schedule, found, detailState, relisted, mode, limited, stopped,
                   list, index, startLast, outcome>>

\* getItemView answers and the products are saved; errors among them end the
\* collection before its state is written.  A product that the answer leaves out
\* is passed over.
ReceiveBatch ==
    /\ Fetching /\ (attempt > 0 \/ CanCall)
    /\ used' = used + 1 /\ attempt' = 0
    /\ \E errors \in SUBSET ToSet(Batch) :
        /\ Answered(errors)
        /\ IF errors = {}
             THEN pc' = "write" /\ UNCHANGED <<failed, faults>>
             ELSE pc' = "detailsEnded" /\ failed' = TRUE /\ Fault
    /\ UNCHANGED <<schedule, found, detailState, relisted, mode, limited, stopped,
                   list, index, startLast, outcome>>

\* Mutant: the budget is not looked at before another call.
RetryBatchAnyway ==
    /\ Fetching /\ (attempt > 0 \/ CanCall)
    /\ Fault
    /\ used' = used + 1
    /\ attempt + 1 < MaxAttempts
    /\ attempt' = attempt + 1
    /\ UNCHANGED <<schedule, found, detailVars, pc, mode, limited, failed, stopped,
                   list, index, startLast, outcome>>

\* Invalid JSON: another call, if the deadline and the budget allow it.
RetryBatch ==
    /\ Fetching /\ (attempt > 0 \/ CanCall)
    /\ Fault
    /\ used' = used + 1
    /\ attempt + 1 < MaxAttempts /\ used' < Budget
    /\ attempt' = attempt + 1
    /\ UNCHANGED <<schedule, found, detailVars, pc, mode, limited, failed, stopped,
                   list, index, startLast, outcome>>

\* Any other error, or one invalid answer too many.
FailBatch ==
    /\ Fetching /\ (attempt > 0 \/ CanCall)
    /\ Fault
    /\ used' = used + 1
    /\ failed' = TRUE /\ pc' = "detailsEnded"
    /\ UNCHANGED <<schedule, found, detailVars, mode, limited, stopped, listVars,
                   outcome>>

SaveDetailState ==
    /\ pc = "write"
    /\ index' = index + Len(Batch)
    /\ WriteDetailState([list |-> list, next |-> index', last |-> Last(Batch)])
    /\ pc' = "batch"
    /\ UNCHANGED <<schedule, found, due, relisted, runVars, list, startLast, attempt,
                   outcome, faults>>

\* Nothing has stopped the collection: its state is removed.
FinishDetails ==
    /\ pc = "batch" /\ index = Len(list)
    /\ WriteDetailState(None)
    /\ pc' = "detailsDone"
    /\ UNCHANGED <<schedule, found, due, relisted, runVars, listVars, outcome, faults>>

DetailsStep ==
    \/ ReceiveBatch \/ SaveDetailState \/ FinishDetails
    \/ ~CanCall /\ StopDetails

DetailsFault == RetryBatch \/ FailBatch \/ (CanCall /\ StopDetails)
=============================================================================
