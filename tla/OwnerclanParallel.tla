-------------------------- MODULE OwnerclanParallel --------------------------
(***************************************************************************)
(* The parallel category collection of the ownerclan collector             *)
(* (collect_by_categories_parallel): worker threads take categories from a *)
(* shared queue, fetch each category page by page and hand every page to a *)
(* single-threaded saver of their own, which saves the page's products and *)
(* then records the category's progress in memory and on disk.  Fetching   *)
(* page n+1 overlaps saving page n.                                        *)
(***************************************************************************)
EXTENDS OwnerclanCatalogue

CONSTANTS
    Worker,               \* the worker threads, 1..category_workers
    MaxCategoryFailures,  \* MAX_PARALLEL_CATEGORY_FAILURES
    MaxFaults             \* bound: API errors, save errors and crashes of a pass

ASSUME BoundAssumption == MaxCategoryFailures \in Nat \ {0} /\ MaxFaults \in Nat

\* category_workers is at least 2 here, or the sequential collection runs.
ASSUME WorkerAssumption == Worker # {}

Stages == {"none", "saving", "marking", "returned", "failed"}

NoSave == [stage |-> "none", category |-> 0, cursor |-> None, after |-> None]

\* The two "holding" points where the worker has a category in hand are the
\* ones of _collect_parallel_category and of the except block.
Collecting == {"request", "await", "awaitLast"}

Failing == {"failed", "rateLimited"}

Locations == {"loop", "take", "drain", "exited", "dead"} \cup Collecting \cup Failing

VARIABLES
    \* on disk
    progressFile,       \* category-collection-progress.json
    legacyState,        \* category-collection-state.json; category 0: no file
    handled,            \* pages whose save has returned (history)
    \* the process
    run,                \* where the main thread is
    completed,          \* set of completed categories, under progress_lock
    inProgress,         \* category -> cursor to go on from; None: no entry
    taskQueue,          \* the queued [category, after]; which comes out first
                        \* is left open
    failuresByCategory,
    failureCount,       \* counters["failureCount"]
    stopRequested,
    \* each worker
    pc, category, initialAfter, after, seenCursors,
    pendingSave,        \* the Future of pending_save_ref and its saver's state
    \* bounds
    faults,             \* faults so far
    runs                \* runs started so far

diskVars == <<progressFile, legacyState, handled>>
sharedVars == <<completed, inProgress, taskQueue, failuresByCategory,
                failureCount, stopRequested>>
workerVars == <<pc, category, initialAfter, after, seenCursors>>
vars == <<diskVars, run, sharedVars, workerVars, pendingSave, faults, runs>>

NoProgress == [completed |-> {}, inProgress |-> [c \in Category |-> None]]

-----------------------------------------------------------------------------
(* Where a run started now would begin. *)

\* _category_start_index: the legacy state counts only while nothing is
\* recorded as completed.
StartIndex(done) == IF done = {} THEN StartAt(legacyState) ELSE 1

\* The cursor a category is queued with.
ResumeAfter(c) ==
    IF progressFile.inProgress[c] # None THEN progressFile.inProgress[c]
    ELSE IF legacyState.category = c THEN legacyState.after
    ELSE None

\* A run started now would not fetch the page of category c at cursor k.
Skips(c, k) ==
    \/ c < StartIndex(progressFile.completed)
    \/ c \in progressFile.completed
    \/ k < ResumeAfter(c)

Covered == {p \in Page : Skips(p[1], p[2])}

\* The categories still to collect, each with its cursor.
InitialQueue ==
    {[category |-> c, after |-> ResumeAfter(c)] :
        c \in {d \in Category : /\ d >= StartIndex(progressFile.completed)
                               /\ d \notin progressFile.completed}}

\* The memory of a process that is not running.
MemoryIsFresh ==
    /\ completed = {}
    /\ inProgress = NoProgress.inProgress
    /\ taskQueue = {}
    /\ failuresByCategory = [c \in Category |-> 0]
    /\ failureCount = 0
    /\ stopRequested = FALSE
    /\ pc = [w \in Worker |-> "loop"]
    /\ category = [w \in Worker |-> 0]
    /\ initialAfter = [w \in Worker |-> None]
    /\ after = [w \in Worker |-> None]
    /\ seenCursors = [w \in Worker |-> {}]
    /\ pendingSave = [w \in Worker |-> NoSave]

\* The process ends.
LoseMemory ==
    /\ completed' = {}
    /\ inProgress' = NoProgress.inProgress
    /\ taskQueue' = {}
    /\ failuresByCategory' = [c \in Category |-> 0]
    /\ failureCount' = 0
    /\ stopRequested' = FALSE
    /\ pc' = [w \in Worker |-> "loop"]
    /\ category' = [w \in Worker |-> 0]
    /\ initialAfter' = [w \in Worker |-> None]
    /\ after' = [w \in Worker |-> None]
    /\ seenCursors' = [w \in Worker |-> {}]
    /\ pendingSave' = [w \in Worker |-> NoSave]

\* A pass begins with no state, or with the state that an interrupted
\* sequential run of the same pass has left: its category and cursor, and
\* everything before them saved.
Init ==
    /\ progressFile = NoProgress
    /\ \/ legacyState = NoLegacy
       \/ \E c \in Category : \E k \in CursorsOf(c) :
            legacyState = [category |-> c, after |-> k]
    /\ handled = Covered
    /\ run = "down"
    /\ MemoryIsFresh
    /\ faults = 0
    /\ runs = 0

-----------------------------------------------------------------------------
(* The main thread. *)

\* The state is loaded, the queue filled and the workers started.
StartRun ==
    /\ run = "down"
    /\ run' = "working"
    /\ runs' = runs + 1
    /\ completed' = progressFile.completed
    /\ inProgress' = progressFile.inProgress
    /\ taskQueue' = InitialQueue
    /\ UNCHANGED <<diskVars, failuresByCategory, failureCount, stopRequested,
                   workerVars, pendingSave, faults>>

WorkersGone == \A w \in Worker : pc[w] \in {"exited", "dead"}

\* Every worker has left.  A worker that died of an exception ends the run
\* with it and a run with failures keeps its files; otherwise the two state
\* files are removed, one after the other.
EndRun ==
    /\ run = "working"
    /\ WorkersGone
    /\ \/ \E w \in Worker : pc[w] = "dead"
       \/ failureCount > 0
    /\ run' = "down"
    /\ LoseMemory
    /\ UNCHANGED <<diskVars, faults, runs>>

\* Mutant: the files are removed whatever failed.
ClearProgressAnyway ==
    /\ run = "working"
    /\ WorkersGone
    /\ run' = "clearing"
    /\ progressFile' = NoProgress
    /\ UNCHANGED <<legacyState, handled, sharedVars, workerVars, pendingSave,
                   faults, runs>>

\* Mutant: the progress file stays.
ClearNoProgress ==
    /\ run = "working"
    /\ \A w \in Worker : pc[w] = "exited"
    /\ failureCount = 0
    /\ run' = "clearing"
    /\ UNCHANGED <<diskVars, sharedVars, workerVars, pendingSave, faults, runs>>

ClearProgress ==
    /\ run = "working"
    /\ \A w \in Worker : pc[w] = "exited"
    /\ failureCount = 0
    /\ run' = "clearing"
    /\ progressFile' = NoProgress
    /\ UNCHANGED <<legacyState, handled, sharedVars, workerVars, pendingSave,
                   faults, runs>>

ClearLegacyState ==
    /\ run = "clearing"
    /\ run' = "finished"
    /\ legacyState' = NoLegacy
    /\ LoseMemory
    /\ UNCHANGED <<progressFile, handled, faults, runs>>

\* The pass is over; the next one is another behaviour.
Rest == run = "finished" /\ UNCHANGED vars

\* One more error of the environment.
Fault ==
    /\ faults < MaxFaults
    /\ faults' = faults + 1

\* The process dies at any step; what is on disk stays.
Crash ==
    /\ Fault
    /\ run \in {"working", "clearing"}
    /\ run' = "down"
    /\ LoseMemory
    /\ UNCHANGED <<diskVars, runs>>

-----------------------------------------------------------------------------
(* A worker's own loop. *)

GoTo(w, location) == pc' = [pc EXCEPT ![w] = location]

\* Future.result() returns, or there is no Future.
SaveSettled(w) == pendingSave[w].stage \in {"none", "returned"}

ForgetSave(w) == pendingSave' = [pendingSave EXCEPT ![w] = NoSave]

CheckStop(w) ==
    /\ pc[w] = "loop"
    /\ GoTo(w, IF stopRequested THEN "drain" ELSE "take")
    /\ UNCHANGED <<sharedVars, category, initialAfter, after, seenCursors,
                   pendingSave>>

\* Mutant: the cursor of the previous category is kept.
TakeTaskKeepingCursor(w, task) ==
    /\ pc[w] = "take"
    /\ taskQueue' = taskQueue \ {task}
    /\ category' = [category EXCEPT ![w] = task.category]
    /\ initialAfter' = [initialAfter EXCEPT ![w] = task.after]
    /\ seenCursors' = [seenCursors EXCEPT ![w] = {}]
    /\ GoTo(w, "request")
    /\ UNCHANGED <<completed, inProgress, failuresByCategory, failureCount,
                   stopRequested, pendingSave, after>>

TakeTask(w, task) ==
    /\ pc[w] = "take"
    /\ taskQueue' = taskQueue \ {task}
    /\ category' = [category EXCEPT ![w] = task.category]
    /\ initialAfter' = [initialAfter EXCEPT ![w] = task.after]
    /\ after' = [after EXCEPT ![w] = task.after]
    /\ seenCursors' = [seenCursors EXCEPT ![w] = {}]
    /\ GoTo(w, "request")
    /\ UNCHANGED <<completed, inProgress, failuresByCategory, failureCount,
                   stopRequested, pendingSave>>

FindQueueEmpty(w) ==
    /\ pc[w] = "take"
    /\ taskQueue = {}
    /\ GoTo(w, "drain")
    /\ UNCHANGED <<sharedVars, category, initialAfter, after, seenCursors,
                   pendingSave>>

\* The worker leaves once its last save has returned.
Drain(w) ==
    /\ pc[w] = "drain"
    /\ SaveSettled(w)
    /\ GoTo(w, "exited")
    /\ UNCHANGED <<sharedVars, category, initialAfter, after, seenCursors,
                   pendingSave>>

\* Mutant: one failure too many is allowed.
FailedMoreThanTooOften(count) == count > MaxCategoryFailures

FailedTooOften(count) == count >= MaxCategoryFailures

\* Mutant: the category starts over where this worker took it.
RetryFromTask(w) == initialAfter[w]

\* The cursor recorded for the category, or the one it was queued with.
RetryAfter(w) ==
    IF inProgress[category[w]] # None THEN inProgress[category[w]]
    ELSE initialAfter[w]

\* Mutant: the category goes back while its last save still runs.
HandleFailureAtOnce(w) ==
    LET c == category[w]
        count == failuresByCategory[c] + 1
        abandoned == pc[w] = "rateLimited" \/ FailedTooOften(count)
    IN  /\ pc[w] \in Failing
        /\ failuresByCategory' = [failuresByCategory EXCEPT ![c] = count]
        /\ stopRequested' = (stopRequested \/ pc[w] = "rateLimited")
        /\ failureCount' = IF abandoned THEN failureCount + 1 ELSE failureCount
        /\ taskQueue' = IF abandoned THEN taskQueue
                        ELSE taskQueue \cup {[category |-> c, after |-> RetryAfter(w)]}
        /\ category' = [category EXCEPT ![w] = 0]
        /\ GoTo(w, "loop")
        /\ UNCHANGED <<completed, inProgress, initialAfter, after, seenCursors,
                       pendingSave>>

\* The except block.  A category that failed goes back into the queue, unless
\* it has failed too often or the server asks to slow down, which stops every
\* worker.
HandleFailure(w) ==
    LET c == category[w]
        count == failuresByCategory[c] + 1
        abandoned == pc[w] = "rateLimited" \/ FailedTooOften(count)
    IN  /\ pc[w] \in Failing
        /\ SaveSettled(w)
        /\ ForgetSave(w)
        /\ failuresByCategory' = [failuresByCategory EXCEPT ![c] = count]
        /\ stopRequested' = (stopRequested \/ pc[w] = "rateLimited")
        /\ failureCount' = IF abandoned THEN failureCount + 1 ELSE failureCount
        /\ taskQueue' = IF abandoned THEN taskQueue
                        ELSE taskQueue \cup {[category |-> c, after |-> RetryAfter(w)]}
        /\ category' = [category EXCEPT ![w] = 0]
        /\ GoTo(w, "loop")
        /\ UNCHANGED <<completed, inProgress, initialAfter, after, seenCursors>>

\* A save that raised: its result() raises in the worker, raises again in the
\* except block or after the loop, and ends the worker.
SaveErrorEscapes(w) ==
    /\ pc[w] \in {"await", "awaitLast", "drain"} \cup Failing
    /\ pendingSave[w].stage = "failed"
    /\ GoTo(w, "dead")
    /\ UNCHANGED <<sharedVars, category, initialAfter, after, seenCursors,
                   pendingSave>>

-----------------------------------------------------------------------------
(* _collect_parallel_category. *)

\* The API answers with the page at the worker's cursor.
ReceivePage(w) ==
    /\ pc[w] = "request"
    /\ GoTo(w, "await")
    /\ UNCHANGED <<sharedVars, category, initialAfter, after, seenCursors,
                   pendingSave>>

\* The API fails for good, after the client's own retries.
RequestFails(w) ==
    /\ pc[w] = "request"
    /\ \E location \in Failing : GoTo(w, location)
    /\ UNCHANGED <<sharedVars, category, initialAfter, after, seenCursors,
                   pendingSave>>

\* Mutant: cursors are followed wherever they lead.
NeverRepeated(w, next) == FALSE

Repeated(w, next) == next \in seenCursors[w] \cup {after[w]}

\* With the previous page saved, the page in hand goes to the saver; the
\* worker requests the next page, or waits when there is none to request.
SubmitPage(w) ==
    LET c == category[w]
        next == Follow[c][after[w]]
    IN  /\ pc[w] = "await"
        /\ SaveSettled(w)
        /\ pendingSave' = [pendingSave EXCEPT ![w] =
                [stage |-> "saving", category |-> c, cursor |-> after[w],
                 after |-> next]]
        /\ IF next = None \/ Repeated(w, next)
             THEN /\ GoTo(w, "awaitLast")
                  /\ UNCHANGED <<after, seenCursors>>
             ELSE /\ GoTo(w, "request")
                  /\ after' = [after EXCEPT ![w] = next]
                  /\ seenCursors' = [seenCursors EXCEPT ![w] = @ \cup {next}]
        /\ UNCHANGED <<sharedVars, category, initialAfter>>

\* The last page is saved: the category is done with, completed or stopped
\* at a cursor the server repeated.
LeaveCategory(w) ==
    /\ pc[w] = "awaitLast"
    /\ SaveSettled(w)
    /\ ForgetSave(w)
    /\ category' = [category EXCEPT ![w] = 0]
    /\ GoTo(w, "loop")
    /\ UNCHANGED <<sharedVars, initialAfter, after, seenCursors>>

-----------------------------------------------------------------------------
(* _save_ownerclan_category_page_and_progress, on the worker's saver thread. *)

SaveStep(w, stage) == pendingSave' = [pendingSave EXCEPT ![w].stage = stage]

\* saver.save returns: every batch is stored, or given up with a log line.
SavePage(w) ==
    /\ pendingSave[w].stage = "saving"
    /\ handled' = handled \cup {<<pendingSave[w].category, pendingSave[w].cursor>>}
    /\ SaveStep(w, "marking")
    /\ UNCHANGED <<progressFile, legacyState, sharedVars>>

\* Mutant: the error is swallowed and the progress recorded all the same.
SaveRaisesUnnoticed(w) ==
    /\ pendingSave[w].stage = "saving"
    /\ SaveStep(w, "marking")
    /\ UNCHANGED <<diskVars, sharedVars>>

\* saver.save raises: no connection, or the raw samples could not be stored.
SaveRaises(w) ==
    /\ pendingSave[w].stage = "saving"
    /\ SaveStep(w, "failed")
    /\ UNCHANGED <<diskVars, sharedVars>>

\* Mutant: the dictionary of cursors is replaced by one entry.
RecordOnlyOne(w) ==
    LET c == pendingSave[w].category
    IN  /\ completed' = IF pendingSave[w].after = None THEN completed \cup {c}
                        ELSE completed
        /\ inProgress' = [NoProgress.inProgress EXCEPT ![c] = pendingSave[w].after]

\* mark_progress's change of the shared dictionaries.
RecordInMemory(w) ==
    LET c == pendingSave[w].category
    IN  IF pendingSave[w].after = None
          THEN /\ completed' = completed \cup {c}
               /\ inProgress' = [inProgress EXCEPT ![c] = None]
          ELSE /\ inProgress' = [inProgress EXCEPT ![c] = pendingSave[w].after]
               /\ UNCHANGED completed

\* mark_progress, under progress_lock: the dictionaries change and the file is
\* replaced by one that holds them both.
MarkProgress(w) ==
    /\ pendingSave[w].stage = "marking"
    /\ RecordInMemory(w)
    /\ progressFile' = [completed |-> completed', inProgress |-> inProgress']
    /\ SaveStep(w, "returned")
    /\ UNCHANGED <<legacyState, handled, taskQueue, failuresByCategory,
                   failureCount, stopRequested>>

\* The file cannot be written; the dictionaries have already changed.
MarkProgressRaises(w) ==
    /\ pendingSave[w].stage = "marking"
    /\ RecordInMemory(w)
    /\ SaveStep(w, "failed")
    /\ UNCHANGED <<diskVars, taskQueue, failuresByCategory, failureCount,
                   stopRequested>>

-----------------------------------------------------------------------------

WorkerStep(w) ==
    \/ CheckStop(w)
    \/ \E task \in taskQueue : TakeTask(w, task)
    \/ FindQueueEmpty(w)
    \/ Drain(w)
    \/ HandleFailure(w)
    \/ SaveErrorEscapes(w)
    \/ ReceivePage(w)
    \/ SubmitPage(w)
    \/ LeaveCategory(w)

SaverStep(w) == SavePage(w) \/ MarkProgress(w)

SaverFault(w) == SaveRaises(w) \/ MarkProgressRaises(w)

MainStep == StartRun \/ EndRun \/ ClearProgress \/ ClearLegacyState

Next ==
    \/ MainStep
    \/ Rest
    \/ Crash
    \/ \E w \in Worker :
        /\ run = "working"
        /\ \/ WorkerStep(w) /\ UNCHANGED <<diskVars, run, faults, runs>>
           \/ RequestFails(w) /\ Fault /\ UNCHANGED <<diskVars, run, runs>>
           \/ SaverStep(w) /\ UNCHANGED <<run, workerVars, faults, runs>>
           \/ SaverFault(w) /\ Fault /\ UNCHANGED <<run, workerVars, runs>>

Spec == Init /\ [][Next]_vars

\* Threads are scheduled, the API and the store answer, and an interrupted
\* pass is started again (main.run's retries, the daily scheduler).
Fairness ==
    /\ WF_vars(MainStep)
    /\ \A w \in Worker :
        /\ WF_vars(/\ run = "working"
                   /\ WorkerStep(w)
                   /\ UNCHANGED <<diskVars, run, faults, runs>>)
        /\ WF_vars(/\ run = "working"
                   /\ SaverStep(w)
                   /\ UNCHANGED <<run, workerVars, faults, runs>>)

FairSpec == Spec /\ Fairness

-----------------------------------------------------------------------------
(* Properties. *)

Progress == [completed : SUBSET Category, inProgress : [Category -> Cursor]]

\* Every cursor that is stored, queued, followed or being saved is a cursor
\* of its own category.
CursorsFit ==
    /\ \A c \in Category : /\ progressFile.inProgress[c] \in CursorsOf(c)
                           /\ inProgress[c] \in CursorsOf(c)
    /\ legacyState.category # 0 =>
            legacyState.after \in CursorsOf(legacyState.category)
    /\ \A task \in taskQueue : task.after \in CursorsOf(task.category)
    /\ \A w \in Worker :
        /\ category[w] # 0 => /\ initialAfter[w] \in CursorsOf(category[w])
                              /\ after[w] \in CursorsOf(category[w])
        /\ pendingSave[w].stage # "none" =>
            /\ <<pendingSave[w].category, pendingSave[w].cursor>> \in Page
            /\ pendingSave[w].after =
                    Follow[pendingSave[w].category][pendingSave[w].cursor]

\* The variables have their types, and cursors fit their categories: a worker
\* that takes its next category takes that category's cursor with it.
TypeOK ==
    /\ progressFile \in Progress
    /\ legacyState \in [category : Category \cup {0}, after : Cursor]
    /\ handled \in SUBSET Page
    /\ run \in {"down", "working", "clearing", "finished"}
    /\ completed \in SUBSET Category
    /\ inProgress \in [Category -> Cursor]
    /\ taskQueue \in SUBSET [category : Category, after : Cursor]
    /\ failuresByCategory \in [Category -> Nat]
    /\ failureCount \in Nat
    /\ stopRequested \in BOOLEAN
    /\ pc \in [Worker -> Locations]
    /\ category \in [Worker -> Category \cup {0}]
    /\ \A w \in Worker : pc[w] \in Collecting \cup Failing => category[w] # 0
    /\ initialAfter \in [Worker -> Cursor]
    /\ after \in [Worker -> Cursor]
    /\ seenCursors \in [Worker -> SUBSET Cursor]
    /\ pendingSave \in [Worker -> [stage : Stages, category : Category \cup {0},
                                   cursor : Cursor, after : Cursor]]
    /\ faults \in 0..MaxFaults
    /\ runs \in Nat
    /\ CursorsFit

\* An interruption loses nothing: what the two state files would make a new
\* run skip has been saved, whatever save, error or crash came last
\* (saver.save before mark_progress, both before the next page's submit).
ResumePointBehindSaves == Covered \subseteq handled

\* The state files are removed only when every page of every category has
\* been saved, although a failed category may come back to the queue after
\* other workers have found it empty and left.
CollectedWhenCleared == run \in {"clearing", "finished"} => Page \subseteq handled

\* A category is in one place: queued once or with one worker, and a save of
\* it that still runs is that worker's (the except block waits for the save
\* before the category goes back).  failuresByCategory is unlocked because of
\* this.
OneOwner ==
    /\ \A t, u \in taskQueue : t.category = u.category => t = u
    /\ \A w \in Worker :
        /\ \A t \in taskQueue : t.category # category[w]
        /\ \A v \in Worker : category[v] = category[w] => v = w \/ category[w] = 0
        /\ pendingSave[w].stage \in {"saving", "marking"} =>
                pendingSave[w].category = category[w]

\* A run fetches no page twice: a category that failed goes on behind its
\* last saved page, unless the server repeats a cursor.
NoPageSavedTwice ==
    \A w \in Worker :
        LET c == pendingSave[w].category
        IN  runs = 1 /\ pendingSave[w].stage = "saving" /\ ~Repeats(c)
                => <<c, pendingSave[w].cursor>> \notin handled

\* A category that has failed MaxCategoryFailures times is given up: the run
\* counts the failure and neither queues nor collects the category again,
\* whichever workers the failures happened to.
FailuresBounded ==
    \A c \in Category :
        /\ failuresByCategory[c] <= MaxCategoryFailures
        /\ failuresByCategory[c] = MaxCategoryFailures =>
            /\ failureCount > 0
            /\ \A t \in taskQueue : t.category # c
            /\ \A w \in Worker : category[w] # c

\* The progress file only gains until it is removed: no writer replaces it
\* with an older picture.
ProgressKept ==
    [][run' # "clearing" =>
        \A c \in Category :
            /\ c \in progressFile.completed => c \in progressFile'.completed
            /\ \/ c \in progressFile'.completed
               \/ Repeats(c)
               \/ progressFile'.inProgress[c] >= progressFile.inProgress[c]]_vars

\* With finitely many faults the pass is completed: runs end, failed
\* categories are collected by a later run, repeated cursors do not hold a
\* worker for ever.
EventuallyFinished == <>(run = "finished")

\* The collection implements the abstract pass.
Pass == INSTANCE CollectionPass WITH covered <- Covered,
                                     finished <- run = "finished"

PassSpec == Pass!Spec
=============================================================================
