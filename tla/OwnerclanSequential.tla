------------------------- MODULE OwnerclanSequential -------------------------
(***************************************************************************)
(* The sequential category collection of the ownerclan collector           *)
(* (collect_by_categories): one thread fetches the categories in order,    *)
(* page by page, and hands every page to a single-threaded saver, which    *)
(* saves the page's products and then writes the state the next run        *)
(* resumes from.  Fetching page n+1 overlaps saving page n.                *)
(*                                                                         *)
(* A run may be limited (--limit, --category-limit, --page-limit,          *)
(* --item-limit): it sees a prefix of the category list, or stops after    *)
(* some page, or in the middle of one.  How many pages or items make the   *)
(* limit is left open.                                                     *)
(***************************************************************************)
EXTENDS OwnerclanCatalogue

CONSTANTS
    MaxFaults,      \* bound: API errors, save errors and crashes of a pass
    MaxLimitedRuns  \* bound: limited runs of a pass

ASSUME BoundAssumption == MaxFaults \in Nat /\ MaxLimitedRuns \in Nat

\* What a run is asked for: the length of the category list it sees, and
\* whether it has a page_limit and an item_limit.
Options == [listed : Category, pages : BOOLEAN, items : BOOLEAN]

FullRun == [listed |-> NumCategories, pages |-> FALSE, items |-> FALSE]

LegacyState == [category : Category \cup {0}, after : Cursor]

Stages == {"none", "saving", "marking", "returned", "failed"}

\* cut: the item_limit was met inside the page, the rest of it is not saved.
NoSave == [stage |-> "none", category |-> 0, cursor |-> None, cut |-> FALSE,
           state |-> NoLegacy]

Locations == {"enter", "request", "failing", "await", "awaitLast", "leave"}

VARIABLES
    legacyState,  \* on disk: category-collection-state.json
    handled,      \* pages whose save has returned (history)
    run,          \* "down", "working", or "finished": the pass is over
    options,      \* of the run
    pc, category, after, seenCursors,
    resume,       \* resume_category_key and resume_after
    limitReached, \* the page_limit or item_limit of the run is
    pendingSave,  \* the Future pending_save and the saver's state
    faults,       \* faults so far
    limitedRuns   \* limited runs so far

diskVars == <<legacyState, handled>>
loopVars == <<pc, category, after, seenCursors, resume, limitReached>>
vars == <<diskVars, run, options, loopVars, pendingSave, faults, limitedRuns>>

\* A run of the whole list started now would not fetch the page of category
\* c at cursor k.
Skips(c, k) ==
    \/ c < StartAt(legacyState)
    \/ c = legacyState.category /\ k < legacyState.after

Covered == {p \in Page : Skips(p[1], p[2])}

\* The memory of a process that is not running.
MemoryIsFresh ==
    /\ options = FullRun
    /\ pc = "enter" /\ category = 1 /\ after = None /\ seenCursors = {}
    /\ resume = NoLegacy
    /\ limitReached = FALSE
    /\ pendingSave = NoSave

\* The process ends.
LoseMemory ==
    /\ options' = FullRun
    /\ pc' = "enter" /\ category' = 1 /\ after' = None /\ seenCursors' = {}
    /\ resume' = NoLegacy
    /\ limitReached' = FALSE
    /\ pendingSave' = NoSave

Init ==
    /\ legacyState = NoLegacy
    /\ handled = {}
    /\ run = "down"
    /\ MemoryIsFresh
    /\ faults = 0
    /\ limitedRuns = 0

-----------------------------------------------------------------------------

\* The state is loaded; a category the run does not see does not count.
StartRun(asked) ==
    /\ run = "down"
    /\ run' = "working"
    /\ options' = asked
    /\ resume' = legacyState
    /\ pc' = "enter"
    /\ category' = IF legacyState.category \in 1..asked.listed
                     THEN legacyState.category ELSE 1
    /\ UNCHANGED <<diskVars, after, seenCursors, limitReached, pendingSave, faults>>

StartFullRun == StartRun(FullRun) /\ UNCHANGED limitedRuns

StartLimitedRun ==
    /\ limitedRuns < MaxLimitedRuns
    /\ \E asked \in Options \ {FullRun} : StartRun(asked)
    /\ limitedRuns' = limitedRuns + 1

\* One more error of the environment.
Fault ==
    /\ faults < MaxFaults
    /\ faults' = faults + 1

\* The process dies at any step; what is on disk stays.
Crash ==
    /\ Fault
    /\ run = "working"
    /\ run' = "down"
    /\ LoseMemory
    /\ UNCHANGED <<diskVars, limitedRuns>>

\* Future.result() returns, or there is no Future.
SaveSettled == pendingSave.stage \in {"none", "returned"}

GoTo(location) == pc' = location

\* The top of the category loop.
EnterCategory ==
    /\ pc = "enter"
    /\ after' = IF resume.category = category THEN resume.after ELSE None
    /\ seenCursors' = {}
    /\ GoTo("request")
    /\ UNCHANGED <<diskVars, run, options, category, resume, limitReached,
                   pendingSave, faults, limitedRuns>>

\* The API answers with the page at the cursor.
ReceivePage ==
    /\ pc = "request"
    /\ GoTo("await")
    /\ UNCHANGED <<diskVars, run, options, category, after, seenCursors, resume,
                   limitReached, pendingSave, faults, limitedRuns>>

\* The API fails for good, after the client's own retries.
RequestFails ==
    /\ pc = "request"
    /\ Fault
    /\ GoTo("failing")
    /\ UNCHANGED <<diskVars, run, options, category, after, seenCursors, resume,
                   limitReached, pendingSave, limitedRuns>>

\* save_state (a new file in the place of the old one) and clear_state.
WriteStateFile(state) == legacyState' = state

\* Mutant: the failure is recorded without waiting for the save.
ReturnFailureAtOnce ==
    /\ pc = "failing"
    /\ WriteStateFile([category |-> category, after |-> after])
    /\ run' = "down"
    /\ LoseMemory
    /\ UNCHANGED <<handled, faults, limitedRuns>>

\* Mutant: the cursor the category was resumed at is written.
ReturnFailureAtResume ==
    /\ pc = "failing"
    /\ SaveSettled
    /\ WriteStateFile([category |-> category,
                       after |-> IF resume.category = category THEN resume.after ELSE None])
    /\ run' = "down"
    /\ LoseMemory
    /\ UNCHANGED <<handled, faults, limitedRuns>>

\* The except block: the previous page's save is waited for, then the cursor
\* that could not be fetched is written, and the run returns its failure.
ReturnFailure ==
    /\ pc = "failing"
    /\ SaveSettled
    /\ WriteStateFile([category |-> category, after |-> after])
    /\ run' = "down"
    /\ LoseMemory
    /\ UNCHANGED <<handled, faults, limitedRuns>>

\* A save that raised, or a state that cannot be written in the except block,
\* ends the run with the exception.
ErrorEscapes ==
    /\ \/ pc \in {"failing", "await", "awaitLast"} /\ pendingSave.stage = "failed"
          /\ UNCHANGED faults
       \/ pc = "failing" /\ SaveSettled /\ Fault
    /\ run' = "down"
    /\ LoseMemory
    /\ UNCHANGED <<diskVars, limitedRuns>>

\* Mutant: cursors are followed wherever they lead.
NeverRepeated(next) == FALSE

Repeated(next) == next \in seenCursors \cup {after}

\* The category is complete: the state names the next one, if there is one.
NextCategory ==
    IF category < options.listed THEN [category |-> category + 1, after |-> None]
    ELSE NoLegacy

\* Mutant: the state goes past a page that the item limit has cut.
StatePastCutPage(next, cut, met) ==
    IF next = None THEN NextCategory
    ELSE [category |-> category, after |-> IF Repeated(next) /\ ~met THEN after ELSE next]

\* state_after_save; category 0 stands for None, and nothing is written then.
\* A page that is cut or leads nowhere is fetched again, unless the page limit
\* is met with it: then its next cursor is written as it is.
StateAfterSave(next, cut, met) ==
    IF cut THEN [category |-> category, after |-> after]
    ELSE IF next = None THEN NextCategory
    ELSE [category |-> category, after |-> IF Repeated(next) /\ ~met THEN after ELSE next]

\* With the previous page saved, the page in hand goes to the saver.  The loop
\* goes on to the next page unless a limit is met or there is no next page.
SubmitPage ==
    LET next == Follow[category][after]
    IN  /\ pc = "await"
        /\ SaveSettled
        /\ \E cut \in IF options.items THEN BOOLEAN ELSE {FALSE} :
           \E met \in IF options.pages THEN BOOLEAN ELSE {FALSE} :
            /\ pendingSave' = [stage |-> "saving", category |-> category,
                               cursor |-> after, cut |-> cut,
                               state |-> StateAfterSave(next, cut, met)]
            /\ limitReached' = (cut \/ met)
            /\ IF cut \/ met \/ next = None \/ Repeated(next)
                 THEN /\ GoTo("awaitLast")
                      /\ UNCHANGED <<after, seenCursors>>
                 ELSE /\ GoTo("request")
                      /\ after' = next
                      /\ seenCursors' = seenCursors \cup {next}
        /\ UNCHANGED <<diskVars, run, options, category, resume, faults, limitedRuns>>

\* The category's last page is saved.
LeaveCategory ==
    /\ pc = "awaitLast"
    /\ SaveSettled
    /\ pendingSave' = NoSave
    /\ resume' = NoLegacy
    /\ IF limitReached \/ category = options.listed
         THEN GoTo("leave") /\ UNCHANGED category
         ELSE GoTo("enter") /\ category' = category + 1
    /\ UNCHANGED <<diskVars, run, options, after, seenCursors, limitReached,
                   faults, limitedRuns>>

\* page_limit and item_limit are None.
KeepsNothing == ~options.items /\ ~options.pages

\* The loop is over without a failure: the state is removed unless the run was
\* limited to pages or items.  With the whole list seen the pass is over.
EndRun ==
    /\ pc = "leave"
    /\ IF KeepsNothing
         THEN /\ WriteStateFile(NoLegacy)
              /\ run' = IF options = FullRun THEN "finished" ELSE "down"
         ELSE /\ run' = "down"
              /\ UNCHANGED legacyState
    /\ LoseMemory
    /\ UNCHANGED <<handled, faults, limitedRuns>>

-----------------------------------------------------------------------------
(* _save_ownerclan_category_page_and_state, on the saver thread. *)

SaveStep(stage) == pendingSave' = [pendingSave EXCEPT !.stage = stage]

\* saver.save returns.
SavePage ==
    /\ pendingSave.stage = "saving"
    /\ handled' = IF pendingSave.cut THEN handled
                  ELSE handled \cup {<<pendingSave.category, pendingSave.cursor>>}
    /\ SaveStep("marking")
    /\ UNCHANGED <<legacyState, run, options, loopVars, faults, limitedRuns>>

\* saver.save raises, or the state file cannot be written.
SaveRaises ==
    /\ pendingSave.stage \in {"saving", "marking"}
    /\ Fault
    /\ SaveStep("failed")
    /\ UNCHANGED <<diskVars, run, options, loopVars, limitedRuns>>

SaveState ==
    /\ pendingSave.stage = "marking"
    /\ WriteStateFile(IF pendingSave.state = NoLegacy THEN legacyState
                      ELSE pendingSave.state)
    /\ SaveStep("returned")
    /\ UNCHANGED <<handled, run, options, loopVars, faults, limitedRuns>>

-----------------------------------------------------------------------------

\* The pass is over; the next one is another behaviour.
Rest == run = "finished" /\ UNCHANGED vars

LoopStep ==
    \/ EnterCategory
    \/ ReceivePage
    \/ ReturnFailure
    \/ ErrorEscapes
    \/ SubmitPage
    \/ LeaveCategory
    \/ EndRun

SaverStep == SavePage \/ SaveState

Next ==
    \/ StartFullRun
    \/ StartLimitedRun
    \/ Crash
    \/ Rest
    \/ run = "working" /\ (LoopStep \/ RequestFails \/ SaverStep \/ SaveRaises)

Spec == Init /\ [][Next]_vars

\* The two threads are scheduled, the API and the store answer, and a run of
\* everything is started again and again (main.run, the daily scheduler).
Fairness ==
    /\ WF_vars(StartFullRun)
    /\ WF_vars(run = "working" /\ LoopStep)
    /\ WF_vars(run = "working" /\ SaverStep)

FairSpec == Spec /\ Fairness

-----------------------------------------------------------------------------
(* Properties. *)

\* The variables have their types; the state on disk and the one on its way
\* there name a cursor of their own category.
TypeOK ==
    /\ legacyState \in LegacyState
    /\ handled \in SUBSET Page
    /\ run \in {"down", "working", "finished"}
    /\ options \in Options
    /\ pc \in Locations
    /\ category \in 1..options.listed
    /\ after \in Cursor
    /\ seenCursors \in SUBSET Cursor
    /\ resume \in LegacyState
    /\ limitReached \in BOOLEAN
    /\ pendingSave \in [stage : Stages, category : Category \cup {0},
                        cursor : Cursor, cut : BOOLEAN, state : LegacyState]
    /\ faults \in 0..MaxFaults
    /\ limitedRuns \in 0..MaxLimitedRuns
    /\ \A state \in {legacyState, resume, pendingSave.state} :
        IF state.category = 0 THEN state = NoLegacy
        ELSE state.after \in CursorsOf(state.category)
    /\ after \in CursorsOf(category) \/ pc = "enter"

\* An interruption loses nothing: what the state file makes the next full run
\* skip has been saved, whichever limited run, error or crash wrote it.
ResumePointBehindSaves == Covered \subseteq handled

\* A run that sees the whole category list and has no page limit never sets
\* the state back: each state it writes covers what the one before it covered.
\* Only where the server repeats a cursor may it go round again, because the
\* cursors seen are not kept over a restart.
StateOnlyAdvances ==
    [][options.listed = NumCategories /\ ~options.pages /\ run' # "finished"
            => \A p \in Covered : p \in Covered' \/ Repeats(p[1])]_vars

\* With finitely many faults and limited runs the pass is completed.
EventuallyFinished == <>(run = "finished")

\* The collection implements the abstract pass.
Pass == INSTANCE CollectionPass WITH covered <- Covered,
                                     finished <- run = "finished"

PassSpec == Pass!Spec
=============================================================================
