----------------------- MODULE OwnerclanParallelProofs -----------------------
(* Proofs about OwnerclanParallel, for every number of categories, cursors,  *)
(* workers, failures and faults.                                             *)
EXTENDS OwnerclanParallel, TLAPS

-----------------------------------------------------------------------------
(* Cursors. *)

\* The first cursor belongs to every category.
LEMMA NoneIsCursor == \A c \in Category : None \in CursorsOf(c)
  BY SizeAssumption DEF None, CursorsOf, Cursor

\* Where the server leads from a cursor of a category is one of its cursors.
LEMMA FollowFits ==
  ASSUME NEW c \in Category, NEW k \in CursorsOf(c)
  PROVE  Follow[c][k] \in CursorsOf(c)
<1>1. Follow[c][k] \in Cursor /\ Follow[c][k] <= k + 1 /\ k \in Cursor
  BY FollowAssumption DEF CursorsOf
<1>2. \A j \in 0..(Follow[c][k] - 1) : j = k \/ j \in 0..(k - 1)
  BY <1>1, SizeAssumption DEF Cursor
<1>3. ASSUME NEW j \in 0..(Follow[c][k] - 1)
      PROVE  Follow[c][j] = j + 1
  <2>1. CASE j \in 0..(k - 1)
    BY <2>1 DEF CursorsOf
  <2>2. CASE j = k
    BY <2>2, <1>1, <1>3, SizeAssumption DEF Cursor
  <2>3. QED
    BY <2>1, <2>2, <1>2
<1>4. QED
  BY <1>1, <1>3 DEF CursorsOf

\* A category has no cursor behind one from which the server does not go on.
LEMMA LastCursor ==
  ASSUME NEW c \in Category, NEW k \in CursorsOf(c), Follow[c][k] # k + 1
  PROVE  \A j \in CursorsOf(c) : j <= k
<1>1. SUFFICES ASSUME NEW j \in CursorsOf(c), j > k
               PROVE  FALSE
  BY SizeAssumption DEF CursorsOf, Cursor
<1>2. k \in 0..(j - 1)
  BY <1>1, SizeAssumption DEF CursorsOf, Cursor
<1>3. QED
  BY <1>1, <1>2 DEF CursorsOf

LEMMA PagePair ==
  \A c, k : <<c, k>> \in Page <=> c \in Category /\ k \in CursorsOf(c)
  BY DEF Page, CursorsOf

-----------------------------------------------------------------------------
(* Type correctness. *)

LEMMA TypeInit == Init => TypeOK
<1> SUFFICES ASSUME Init PROVE TypeOK
  OBVIOUS
<1> USE NoneIsCursor DEF None
<1>1. handled \in SUBSET Page
  BY DEF Init, Covered
<1>2. legacyState \in [category : Category \cup {0}, after : Cursor]
      /\ (legacyState.category # 0 =>
            legacyState.after \in CursorsOf(legacyState.category))
  BY SizeAssumption DEF Init, NoLegacy, CursorsOf, Cursor
<1>3. CursorsFit
  BY <1>2 DEF CursorsFit, Init, MemoryIsFresh, NoProgress, NoSave, Category
<1>4. progressFile \in Progress /\ inProgress \in [Category -> Cursor]
  BY SizeAssumption DEF Init, MemoryIsFresh, NoProgress, Progress, Cursor
<1>5. /\ initialAfter \in [Worker -> Cursor]
      /\ after \in [Worker -> Cursor]
      /\ pendingSave \in [Worker -> [stage : Stages, category : Category \cup {0},
                                     cursor : Cursor, after : Cursor]]
  BY SizeAssumption DEF Init, MemoryIsFresh, NoSave, Stages, Cursor
<1>6. /\ pc \in [Worker -> Locations]
      /\ \A w \in Worker : pc[w] \notin Collecting \cup Failing
      /\ category \in [Worker -> Category \cup {0}]
      /\ seenCursors \in [Worker -> SUBSET Cursor]
      /\ failuresByCategory \in [Category -> Nat]
  BY DEF Init, MemoryIsFresh, Locations, Collecting, Failing
<1>7. /\ completed \in SUBSET Category
      /\ taskQueue \in SUBSET [category : Category, after : Cursor]
      /\ failureCount \in Nat
      /\ faults \in 0..MaxFaults
      /\ runs \in Nat
  BY SizeAssumption, BoundAssumption DEF Init, MemoryIsFresh
<1>8. /\ stopRequested \in BOOLEAN
      /\ run \in {"down", "working", "clearing", "finished"}
  BY DEF Init, MemoryIsFresh
<1>9. QED
  <2> HIDE DEF None
  <2> QED
    BY <1>1, <1>2, <1>3, <1>4, <1>5, <1>6, <1>7, <1>8, Zenon DEF TypeOK

LEMMA FreshType ==
  ASSUME TypeOK, LoseMemory, run' \in {"down", "finished"},
         faults' \in 0..MaxFaults, runs' = runs,
         UNCHANGED <<handled, progressFile>>,
         legacyState' \in {legacyState, NoLegacy}
  PROVE  TypeOK'
<1> USE NoneIsCursor DEF None
<1>1. /\ legacyState' \in [category : Category \cup {0}, after : Cursor]
      /\ legacyState'.category # 0 =>
            legacyState'.after \in CursorsOf(legacyState'.category)
  BY SizeAssumption DEF TypeOK, CursorsFit, NoLegacy, Cursor
<1>2. CursorsFit'
  BY <1>1 DEF TypeOK, CursorsFit, LoseMemory, NoProgress, NoSave
<1>3. inProgress' \in [Category -> Cursor]
  BY SizeAssumption DEF LoseMemory, NoProgress, Cursor
<1>4. /\ initialAfter' \in [Worker -> Cursor]
      /\ after' \in [Worker -> Cursor]
      /\ pendingSave' \in [Worker -> [stage : Stages, category : Category \cup {0},
                                     cursor : Cursor, after : Cursor]]
  BY SizeAssumption DEF LoseMemory, NoSave, Stages, Cursor
<1>5. QED
  BY <1>1, <1>2, <1>3, <1>4
  DEF TypeOK, LoseMemory, Locations, Collecting, Failing

LEMMA StartType == TypeOK /\ StartRun => TypeOK'
<1> SUFFICES ASSUME TypeOK, StartRun PROVE TypeOK'
  OBVIOUS
<1>1. \A c \in Category : ResumeAfter(c) \in CursorsOf(c) /\ ResumeAfter(c) \in Cursor
  BY NoneIsCursor, SizeAssumption
  DEF TypeOK, CursorsFit, ResumeAfter, Progress, CursorsOf, None, Category
<1>2. /\ taskQueue' \in SUBSET [category : Category, after : Cursor]
      /\ \A task \in taskQueue' : task.after \in CursorsOf(task.category)
  BY <1>1 DEF StartRun, InitialQueue
<1>3. CursorsFit'
  BY <1>2 DEF TypeOK, CursorsFit, StartRun, diskVars, workerVars
<1>4. QED
  BY <1>2, <1>3 DEF TypeOK, StartRun, diskVars, workerVars, Progress

LEMMA MainType == TypeOK /\ (MainStep \/ Crash \/ Rest) => TypeOK'
<1> SUFFICES ASSUME TypeOK, MainStep \/ Crash \/ Rest PROVE TypeOK'
  OBVIOUS
<1>1. CASE StartRun
  BY <1>1, StartType
<1>2. CASE EndRun
  BY <1>2, FreshType DEF EndRun, diskVars, TypeOK
<1>3. CASE ClearProgress
  <2>1. progressFile' \in Progress
        /\ \A c \in Category : progressFile'.inProgress[c] \in CursorsOf(c)
    BY <1>3, NoneIsCursor, SizeAssumption
    DEF ClearProgress, NoProgress, Progress, Cursor, None
  <2>2. CursorsFit'
    BY <1>3, <2>1
    DEF TypeOK, CursorsFit, ClearProgress, sharedVars, workerVars
  <2>3. QED
    BY <1>3, <2>1, <2>2 DEF TypeOK, ClearProgress, sharedVars, workerVars
<1>4. CASE ClearLegacyState
  BY <1>4, FreshType DEF ClearLegacyState, TypeOK
<1>5. CASE Crash
  BY <1>5, FreshType, SizeAssumption, BoundAssumption DEF Crash, Fault, diskVars, TypeOK
<1>6. CASE Rest
  BY <1>6 DEF Rest, vars, diskVars, sharedVars, workerVars, TypeOK, CursorsFit
<1>7. QED
  BY <1>1, <1>2, <1>3, <1>4, <1>5, <1>6 DEF MainStep

\* A worker that only moves on keeps the types.
LEMMA MoveType ==
  ASSUME TypeOK, NEW w \in Worker, NEW location \in Locations, GoTo(w, location),
         location \in Collecting \cup Failing => category[w] # 0,
         UNCHANGED <<diskVars, run, sharedVars, category, initialAfter, after,
                     seenCursors, pendingSave, runs>>,
         faults' \in 0..MaxFaults
  PROVE  TypeOK'
<1>1. /\ pc' \in [Worker -> Locations]
      /\ \A v \in Worker : pc'[v] \in Collecting \cup Failing => category'[v] # 0
  BY DEF TypeOK, GoTo
<1>2. CursorsFit'
  BY DEF TypeOK, CursorsFit, diskVars, sharedVars
<1>3. QED
  BY <1>1, <1>2 DEF TypeOK, diskVars, sharedVars

LEMMA TakeType ==
  ASSUME TypeOK, NEW w \in Worker, NEW task \in taskQueue, TakeTask(w, task),
         UNCHANGED <<diskVars, run, faults, runs>>
  PROVE  TypeOK'
<1> USE DEF TakeTask, GoTo
<1>1. /\ task.category \in Category
      /\ task.after \in Cursor
      /\ task.after \in CursorsOf(task.category)
  BY DEF TypeOK, CursorsFit
<1>2. /\ pc' \in [Worker -> Locations]
      /\ category' \in [Worker -> Category \cup {0}]
      /\ initialAfter' \in [Worker -> Cursor]
      /\ after' \in [Worker -> Cursor]
      /\ seenCursors' \in [Worker -> SUBSET Cursor]
  BY <1>1 DEF TypeOK, Locations, Collecting
<1>3. \A v \in Worker : pc'[v] \in Collecting \cup Failing => category'[v] # 0
  BY <1>1, SizeAssumption DEF TypeOK, Category
<1>4. CursorsFit'
  BY <1>1 DEF TypeOK, CursorsFit, diskVars
<1>5. QED
  BY <1>2, <1>3, <1>4 DEF TypeOK, diskVars

\* A worker that has done with its category keeps the types.
LEMMA ReleaseType ==
  ASSUME TypeOK, NEW w \in Worker, ForgetSave(w), GoTo(w, "loop"),
         category' = [category EXCEPT ![w] = 0],
         taskQueue' \in SUBSET [category : Category, after : Cursor],
         \A task \in taskQueue' : task.after \in CursorsOf(task.category),
         failuresByCategory' \in [Category -> Nat],
         failureCount' \in Nat,
         stopRequested' \in BOOLEAN,
         UNCHANGED <<diskVars, run, completed, inProgress, initialAfter, after,
                     seenCursors, faults, runs>>
  PROVE  TypeOK'
<1>1. NoSave \in [stage : Stages, category : Category \cup {0},
                  cursor : Cursor, after : Cursor]
  BY SizeAssumption DEF NoSave, Stages, Cursor, None
<1>2. /\ pc' \in [Worker -> Locations]
      /\ category' \in [Worker -> Category \cup {0}]
      /\ pendingSave' \in [Worker -> [stage : Stages, category : Category \cup {0},
                                      cursor : Cursor, after : Cursor]]
  BY <1>1 DEF TypeOK, Locations, GoTo, ForgetSave
<1>3. \A v \in Worker : pc'[v] \in Collecting \cup Failing => category'[v] # 0
  BY DEF TypeOK, GoTo, Collecting, Failing
<1>4. CursorsFit'
  BY DEF TypeOK, CursorsFit, diskVars, ForgetSave, NoSave
<1>5. QED
  BY <1>2, <1>3, <1>4 DEF TypeOK, diskVars

LEMMA HandleFailureType ==
  ASSUME TypeOK, NEW w \in Worker, HandleFailure(w),
         UNCHANGED <<diskVars, run, faults, runs>>
  PROVE  TypeOK'
<1>1. category[w] \in Category
  BY DEF HandleFailure, TypeOK, Failing
<1>2. category[w] # 0
  BY <1>1 DEF Category
<1>3. RetryAfter(w) \in Cursor /\ RetryAfter(w) \in CursorsOf(category[w])
  BY <1>1, <1>2 DEF RetryAfter, TypeOK, CursorsFit
<1>4. /\ taskQueue' \in SUBSET [category : Category, after : Cursor]
      /\ \A task \in taskQueue' : task.after \in CursorsOf(task.category)
  BY <1>1, <1>3 DEF HandleFailure, TypeOK, CursorsFit
<1>5. failuresByCategory' \in [Category -> Nat] /\ failureCount' \in Nat
  BY <1>1 DEF HandleFailure, TypeOK
<1>6. stopRequested' \in BOOLEAN
  BY DEF HandleFailure, TypeOK
<1>7. QED
  BY <1>4, <1>5, <1>6, ReleaseType DEF HandleFailure

\* What is being saved next is a page of the category.
LEMMA SubmitType ==
  ASSUME TypeOK, NEW w \in Worker, SubmitPage(w),
         UNCHANGED <<diskVars, run, faults, runs>>
  PROVE  TypeOK'
<1> DEFINE c == category[w]
           next == Follow[c][after[w]]
           save == [stage |-> "saving", category |-> c, cursor |-> after[w],
                    after |-> next]
<1>1. c \in Category /\ c # 0 /\ after[w] \in CursorsOf(c)
  BY DEF SubmitPage, TypeOK, CursorsFit, Collecting
<1>2. next \in CursorsOf(c) /\ next \in Cursor /\ after[w] \in Cursor
  BY <1>1, FollowFits DEF CursorsOf
<1>3. save \in [stage : Stages, category : Category \cup {0},
                cursor : Cursor, after : Cursor]
  BY <1>1, <1>2 DEF Stages
<1>4. pendingSave' = [pendingSave EXCEPT ![w] = save]
  BY DEF SubmitPage
<1>5. /\ pendingSave' \in [Worker -> [stage : Stages, category : Category \cup {0},
                                      cursor : Cursor, after : Cursor]]
      /\ \A v \in Worker :
            pendingSave'[v].stage # "none" =>
                /\ <<pendingSave'[v].category, pendingSave'[v].cursor>> \in Page
                /\ pendingSave'[v].after =
                        Follow[pendingSave'[v].category][pendingSave'[v].cursor]
  <2>1. pendingSave' \in [Worker -> [stage : Stages, category : Category \cup {0},
                                     cursor : Cursor, after : Cursor]]
    BY <1>3, <1>4 DEF TypeOK
  <2>2. \A v \in Worker : pendingSave'[v] = IF v = w THEN save ELSE pendingSave[v]
    BY <1>4 DEF TypeOK
  <2>3. <<save.category, save.cursor>> \in Page
    BY <1>1, PagePair
  <2>4. save.after = Follow[save.category][save.cursor]
    OBVIOUS
  <2>5. QED
    <3> HIDE DEF save
    <3> QED
      BY <2>1, <2>2, <2>3, <2>4 DEF TypeOK, CursorsFit
<1>6. \E location \in {"awaitLast", "request"} : GoTo(w, location)
  BY DEF SubmitPage
<1>7. /\ pc' \in [Worker -> Locations]
      /\ \A v \in Worker : pc'[v] \in Collecting \cup Failing => category'[v] # 0
  BY <1>1, <1>6 DEF TypeOK, GoTo, SubmitPage, Locations, Collecting
<1>8. /\ after' \in [Worker -> Cursor]
      /\ seenCursors' \in [Worker -> SUBSET Cursor]
      /\ \A v \in Worker : after'[v] = after[v] \/ (v = w /\ after'[v] = next)
  <2>0. /\ after \in [Worker -> Cursor]
        /\ seenCursors \in [Worker -> SUBSET Cursor]
    BY DEF TypeOK
  <2>1. CASE UNCHANGED <<after, seenCursors>>
    BY <2>0, <2>1
  <2>2. CASE /\ after' = [after EXCEPT ![w] = next]
             /\ seenCursors' = [seenCursors EXCEPT ![w] = @ \cup {next}]
    <3> HIDE DEF next
    <3> QED
      BY <2>0, <2>2, <1>2
  <2>3. QED
    BY <2>1, <2>2 DEF SubmitPage
<1>9. \A v \in Worker : category[v] # 0 => after'[v] \in CursorsOf(category[v])
  BY <1>2, <1>8 DEF TypeOK, CursorsFit
<1>10. CursorsFit'
  BY <1>5, <1>9 DEF TypeOK, CursorsFit, SubmitPage, sharedVars, diskVars
<1>11. QED
  BY <1>5, <1>7, <1>8, <1>10 DEF TypeOK, SubmitPage, sharedVars, diskVars

\* The stage of a save that is there changes, and with it possibly what the
\* process and the disk know.
LEMMA SaverType ==
  ASSUME TypeOK, NEW w \in Worker, SaverStep(w) \/ SaverFault(w),
         faults' \in 0..MaxFaults, UNCHANGED <<run, workerVars, runs>>
  PROVE  TypeOK'
<1> DEFINE c == pendingSave[w].category
           next == pendingSave[w].after
<1> USE DEF SaverStep, SaverFault, SavePage, SaveRaises, MarkProgress,
            MarkProgressRaises
<1>1. /\ pendingSave[w].stage # "none"
      /\ \E stage \in Stages : SaveStep(w, stage)
  BY DEF Stages
<1>2. /\ <<c, pendingSave[w].cursor>> \in Page
      /\ c \in Category
      /\ pendingSave[w].cursor \in CursorsOf(c)
      /\ next = Follow[c][pendingSave[w].cursor]
  BY <1>1, PagePair DEF TypeOK, CursorsFit
<1>3. next \in CursorsOf(c) /\ next \in Cursor
  BY <1>2, FollowFits DEF CursorsOf
<1>4. /\ pendingSave' \in [Worker -> [stage : Stages, category : Category \cup {0},
                                      cursor : Cursor, after : Cursor]]
      /\ \A v \in Worker :
            /\ pendingSave'[v].category = pendingSave[v].category
            /\ pendingSave'[v].cursor = pendingSave[v].cursor
            /\ pendingSave'[v].after = pendingSave[v].after
            /\ pendingSave'[v].stage # "none" => pendingSave[v].stage # "none"
  BY <1>1 DEF SaveStep, TypeOK
<1>5. /\ completed' \in SUBSET Category
      /\ inProgress' \in [Category -> Cursor]
      /\ \A d \in Category : inProgress'[d] \in CursorsOf(d)
  <2>1. CASE UNCHANGED <<completed, inProgress>>
    BY <2>1 DEF TypeOK, CursorsFit
  <2>2. CASE RecordInMemory(w)
    <3>1. \E k \in {None, next} : inProgress' = [inProgress EXCEPT ![c] = k]
      BY <2>2 DEF RecordInMemory
    <3>2. None \in CursorsOf(c) /\ None \in Cursor
      BY <1>2, NoneIsCursor DEF CursorsOf
    <3>3. completed' \in SUBSET Category
      BY <1>2, <2>2 DEF RecordInMemory, TypeOK
    <3>4. inProgress \in [Category -> Cursor]
          /\ \A d \in Category : inProgress[d] \in CursorsOf(d)
      BY DEF TypeOK, CursorsFit
    <3>5. QED
      <4> HIDE DEF c, next
      <4> QED
        BY <1>2, <1>3, <3>1, <3>2, <3>3, <3>4
  <2>3. QED
    BY <2>1, <2>2 DEF sharedVars
<1>6. /\ progressFile' \in Progress
      /\ \A d \in Category : progressFile'.inProgress[d] \in CursorsOf(d)
  <2>1. CASE UNCHANGED progressFile
    BY <2>1 DEF TypeOK, CursorsFit
  <2>2. CASE progressFile' = [completed |-> completed', inProgress |-> inProgress']
    BY <2>2, <1>5 DEF Progress
  <2>3. QED
    BY <2>1, <2>2 DEF diskVars
<1>7. handled' \in SUBSET Page
  BY <1>2 DEF TypeOK, diskVars
<1>8. UNCHANGED <<legacyState, taskQueue, failuresByCategory, failureCount,
                  stopRequested>>
  BY DEF diskVars, sharedVars
<1>9. CursorsFit'
  BY <1>4, <1>5, <1>6, <1>8 DEF TypeOK, CursorsFit, workerVars
<1>10. QED
  BY <1>4, <1>5, <1>6, <1>7, <1>8, <1>9 DEF TypeOK, workerVars

LEMMA WorkerType ==
  ASSUME TypeOK, NEW w \in Worker, WorkerStep(w),
         UNCHANGED <<diskVars, run, faults, runs>>
  PROVE  TypeOK'
<1> USE DEF sharedVars
<1>1. faults' \in 0..MaxFaults
  BY DEF TypeOK
<1>2. CASE CheckStop(w)
  BY <1>1, <1>2, MoveType DEF CheckStop, Locations, Collecting, Failing
<1>3. CASE \E task \in taskQueue : TakeTask(w, task)
  BY <1>3, TakeType
<1>4. CASE FindQueueEmpty(w)
  BY <1>1, <1>4, MoveType DEF FindQueueEmpty, Locations, Collecting, Failing
<1>5. CASE Drain(w)
  BY <1>1, <1>5, MoveType DEF Drain, Locations, Collecting, Failing
<1>6. CASE HandleFailure(w)
  BY <1>6, HandleFailureType
<1>7. CASE SaveErrorEscapes(w)
  BY <1>1, <1>7, MoveType DEF SaveErrorEscapes, Locations, Collecting, Failing
<1>8. CASE ReceivePage(w)
  BY <1>1, <1>8, MoveType DEF ReceivePage, Locations, Collecting, TypeOK
<1>9. CASE SubmitPage(w)
  BY <1>9, SubmitType
<1>10. CASE LeaveCategory(w)
  BY <1>10, ReleaseType DEF LeaveCategory, TypeOK, CursorsFit
<1>11. QED
  BY <1>2, <1>3, <1>4, <1>5, <1>6, <1>7, <1>8, <1>9, <1>10 DEF WorkerStep

LEMMA TypeStep == TypeOK /\ [Next]_vars => TypeOK'
<1> SUFFICES ASSUME TypeOK, [Next]_vars PROVE TypeOK'
  OBVIOUS
<1> USE DEF vars, diskVars, sharedVars, workerVars
<1>1. CASE MainStep \/ Crash \/ Rest
  BY <1>1, MainType
<1>2. ASSUME NEW w \in Worker, WorkerStep(w), UNCHANGED <<diskVars, run, faults, runs>>
      PROVE  TypeOK'
  BY <1>2, WorkerType
<1>3. ASSUME NEW w \in Worker, RequestFails(w), Fault, UNCHANGED <<diskVars, run, runs>>
      PROVE  TypeOK'
  <2>1. faults' \in 0..MaxFaults
    BY <1>3, BoundAssumption DEF Fault, TypeOK
  <2>2. PICK location \in Failing : GoTo(w, location)
    BY <1>3 DEF RequestFails
  <2>3. category[w] # 0 /\ location \in Locations
    BY <1>3 DEF RequestFails, TypeOK, Collecting, Locations
  <2>4. QED
    BY <1>3, <2>1, <2>2, <2>3, MoveType DEF RequestFails
<1>4. ASSUME NEW w \in Worker, SaverStep(w) \/ SaverFault(w),
             UNCHANGED faults \/ Fault, UNCHANGED <<run, workerVars, runs>>
      PROVE  TypeOK'
  <2>1. faults' \in 0..MaxFaults
    BY <1>4, BoundAssumption DEF Fault, TypeOK
  <2>2. QED
    BY <1>4, <2>1, SaverType
<1>5. CASE UNCHANGED vars
  BY <1>5 DEF TypeOK, CursorsFit
<1>6. QED
  BY <1>1, <1>2, <1>3, <1>4, <1>5 DEF Next

\* Type correctness: in particular the cursor a worker, a queued task, a save
\* or a state file holds is a cursor of its own category.
THEOREM TypeCorrect == Spec => []TypeOK
  BY TypeInit, TypeStep, PTL DEF Spec

-----------------------------------------------------------------------------
(* No page is skipped.  Because handled only grows, what has to be known of  *)
(* each cursor is local to its holder: everything before it has been saved,  *)
(* except possibly the one page the holder's own saver still has.            *)

\* The pages of category c before cursor k are saved.
SavedUpTo(c, k) == \A j \in CursorsOf(c) : j < k => <<c, j>> \in handled

AllSaved(c) == \A j \in CursorsOf(c) : <<c, j>> \in handled

\* Worker w's saver has the page at cursor j of its category, not yet saved.
WithSaver(w, j) ==
    /\ pendingSave[w].stage \in {"saving", "failed"}
    /\ pendingSave[w].category = category[w]
    /\ pendingSave[w].cursor = j

\* The same, up to the page the worker's saver has.
SubmittedUpTo(w, k) ==
    \A j \in CursorsOf(category[w]) :
        j < k => <<category[w], j>> \in handled \/ WithSaver(w, j)

AllSubmitted(w) ==
    \A j \in CursorsOf(category[w]) :
        <<category[w], j>> \in handled \/ WithSaver(w, j)

StoredBehind ==
    /\ \A c \in Category :
        /\ c \in progressFile.completed \cup completed => AllSaved(c)
        /\ SavedUpTo(c, progressFile.inProgress[c])
        /\ SavedUpTo(c, inProgress[c])
    /\ legacyState.category # 0 =>
        /\ \A c \in Category : c < legacyState.category => AllSaved(c)
        /\ SavedUpTo(legacyState.category, legacyState.after)

QueuedBehind == \A task \in taskQueue : SavedUpTo(task.category, task.after)

\* A worker whose walk has gone back to an earlier cursor has met the whole
\* category before.
Walked(w) ==
    category[w] # 0 =>
        /\ SavedUpTo(category[w], initialAfter[w])
        /\ pc[w] = "awaitLast" => AllSubmitted(w)
        /\ SubmittedUpTo(w, after[w])
        /\ \/ AllSubmitted(w)
           \/ \A k \in seenCursors[w] : k <= after[w]

WalkedBehind == \A w \in Worker : Walked(w)

Saving(w) ==
    pendingSave[w].stage # "none" =>
        /\ SavedUpTo(pendingSave[w].category, pendingSave[w].cursor)
        /\ pendingSave[w].stage \in {"marking", "returned"} =>
            <<pendingSave[w].category, pendingSave[w].cursor>> \in handled

SavingBehind == \A w \in Worker : Saving(w)

SavedInv == StoredBehind /\ QueuedBehind /\ WalkedBehind /\ SavingBehind

-----------------------------------------------------------------------------
(* Nothing is forgotten.  A category that is not saved yet is queued or with *)
(* a worker as long as no failure is counted, and a queue that is not empty  *)
(* has a worker that will look at it again, unless the run fails.            *)

Idle == {"loop", "take", "drain", "exited"}

StopCounted == stopRequested => failureCount > 0

IdleWithoutCategory == \A w \in Worker : pc[w] \in Idle => category[w] = 0

Waiting(c) ==
    \/ \E task \in taskQueue : task.category = c
    \/ \E w \in Worker : category[w] = c

NothingForgotten ==
    run = "working" /\ failureCount = 0 =>
        /\ \A c \in Category : AllSaved(c) \/ Waiting(c)
        /\ taskQueue # {} => \E w \in Worker : pc[w] \notin {"drain", "exited"}

ReadyWhenDown == run = "down" => \A w \in Worker : pc[w] = "loop"

ClearedInv ==
    /\ ReadyWhenDown
    /\ StopCounted
    /\ IdleWithoutCategory
    /\ NothingForgotten
    /\ CollectedWhenCleared

-----------------------------------------------------------------------------
(* SavedInv is kept. *)

LEMMA NothingBeforeNone == \A c \in Category : SavedUpTo(c, None)
  BY SizeAssumption DEF SavedUpTo, CursorsOf, Cursor, None

\* What is saved stays saved.
LEMMA SavedGrows ==
  ASSUME handled \subseteq handled'
  PROVE  /\ \A c, k : SavedUpTo(c, k) => SavedUpTo(c, k)'
         /\ \A c : AllSaved(c) => AllSaved(c)'
  BY DEF SavedUpTo, AllSaved

LEMMA SavedInit == Init => SavedInv
<1> SUFFICES ASSUME Init PROVE SavedInv
  OBVIOUS
<1> USE NothingBeforeNone DEF MemoryIsFresh
<1>1. ASSUME legacyState.category # 0
      PROVE  /\ \A c \in Category : c < legacyState.category => AllSaved(c)
             /\ SavedUpTo(legacyState.category, legacyState.after)
  <2>0. PICK c \in Category : \E k \in CursorsOf(c) :
            legacyState = [category |-> c, after |-> k]
    BY <1>1 DEF Init, NoLegacy
  <2>1. PICK k \in CursorsOf(c) : legacyState = [category |-> c, after |-> k]
    BY <2>0
  <2>2. StartIndex({}) = c /\ ResumeAfter(c) = k /\ c # 0
    BY <2>1 DEF Init, NoProgress, StartIndex, StartAt, ResumeAfter, Category
  <2>3. ASSUME NEW d \in Category, d < c
        PROVE  AllSaved(d)
    BY <2>2, <2>3, PagePair DEF Init, NoProgress, AllSaved, Covered, Skips
  <2>4. SavedUpTo(c, k)
    BY <2>2, PagePair DEF Init, SavedUpTo, Covered, Skips
  <2>5. QED
    BY <2>1, <2>3, <2>4
<1>2. StoredBehind
  BY <1>1 DEF Init, StoredBehind, NoProgress
<1>3. QED
  BY <1>2 DEF Init, SavedInv, QueuedBehind, WalkedBehind, Walked, SavingBehind, Saving, NoSave

LEMMA SavedFresh ==
  ASSUME SavedInv, LoseMemory, UNCHANGED <<handled, progressFile>>,
         legacyState' \in {legacyState, NoLegacy}
  PROVE  SavedInv'
<1>1. StoredBehind'
  BY NothingBeforeNone
  DEF SavedInv, StoredBehind, LoseMemory, SavedUpTo, AllSaved, NoProgress, NoLegacy
<1>2. QED
  BY <1>1 DEF SavedInv, LoseMemory, QueuedBehind, WalkedBehind, Walked, SavingBehind, Saving, NoSave

LEMMA SavedStart == TypeOK /\ SavedInv /\ StartRun => SavedInv'
<1> SUFFICES ASSUME TypeOK, SavedInv, StartRun PROVE SavedInv'
  OBVIOUS
<1> USE DEF StartRun, diskVars, workerVars
<1>1. \A c \in Category : SavedUpTo(c, ResumeAfter(c))
  BY NothingBeforeNone, SizeAssumption
  DEF SavedInv, StoredBehind, ResumeAfter, Category
<1>2. \A c, k : SavedUpTo(c, k)' <=> SavedUpTo(c, k)
  BY DEF SavedUpTo
<1>3. \A c : AllSaved(c)' <=> AllSaved(c)
  BY DEF AllSaved
<1>4. QueuedBehind'
  BY <1>1, <1>2 DEF QueuedBehind, InitialQueue
<1>5. StoredBehind'
  BY <1>2, <1>3 DEF SavedInv, StoredBehind
<1>6. WalkedBehind' /\ SavingBehind'
  BY DEF SavedInv, WalkedBehind, Walked, SavingBehind, Saving, SavedUpTo,
         SubmittedUpTo, AllSubmitted, WithSaver
<1>7. QED
  BY <1>4, <1>5, <1>6 DEF SavedInv

LEMMA SavedMain == TypeOK /\ SavedInv /\ (MainStep \/ Crash \/ Rest) => SavedInv'
<1> SUFFICES ASSUME TypeOK, SavedInv, MainStep \/ Crash \/ Rest PROVE SavedInv'
  OBVIOUS
<1>1. CASE StartRun
  BY <1>1, SavedStart
<1>2. CASE EndRun
  BY <1>2, SavedFresh DEF EndRun, diskVars
<1>3. CASE ClearProgress
  <2>1. \A c, k : SavedUpTo(c, k)' <=> SavedUpTo(c, k)
    BY <1>3 DEF ClearProgress, SavedUpTo
  <2>2. \A c : AllSaved(c)' <=> AllSaved(c)
    BY <1>3 DEF ClearProgress, AllSaved
  <2>3. StoredBehind'
    BY <1>3, <2>1, <2>2, NothingBeforeNone
    DEF SavedInv, StoredBehind, ClearProgress, NoProgress, sharedVars
  <2>4. QueuedBehind' /\ WalkedBehind' /\ SavingBehind'
    BY <1>3, <2>1
    DEF SavedInv, QueuedBehind, WalkedBehind, Walked, SavingBehind, Saving,
        SubmittedUpTo, AllSubmitted, WithSaver, ClearProgress, sharedVars, workerVars
  <2>5. QED
    BY <2>3, <2>4 DEF SavedInv
<1>4. CASE ClearLegacyState
  BY <1>4, SavedFresh DEF ClearLegacyState
<1>5. CASE Crash
  BY <1>5, SavedFresh DEF Crash, diskVars
<1>6. CASE Rest
  BY <1>6 DEF Rest, vars, diskVars, sharedVars, workerVars, SavedInv, StoredBehind,
              QueuedBehind, WalkedBehind, Walked, SavingBehind, Saving,
              SavedUpTo, AllSaved, SubmittedUpTo, AllSubmitted, WithSaver
<1>7. QED
  BY <1>1, <1>2, <1>3, <1>4, <1>5, <1>6 DEF MainStep

\* A step of worker w disturbs no other worker's claims.
LEMMA OthersKept ==
  ASSUME NEW w \in Worker, NEW v \in Worker, Walked(v), Saving(v),
         handled \subseteq handled',
         pc'[v] = pc[v], category'[v] = category[v],
         initialAfter'[v] = initialAfter[v], after'[v] = after[v],
         seenCursors'[v] = seenCursors[v], pendingSave'[v] = pendingSave[v]
  PROVE  Walked(v)' /\ Saving(v)'
<1>1. Saving(v)'
  BY SavedGrows DEF Saving
<1>2. \A j : WithSaver(v, j)' <=> WithSaver(v, j)
  BY DEF WithSaver
<1>3. AllSubmitted(v) => AllSubmitted(v)'
  BY <1>2 DEF AllSubmitted
<1>4. SubmittedUpTo(v, after[v]) => SubmittedUpTo(v, after[v])'
  BY <1>2 DEF SubmittedUpTo
<1>5. Walked(v)'
  BY <1>3, <1>4, SavedGrows DEF Walked
<1>6. QED
  BY <1>1, <1>5

\* A step of a worker's own thread saves nothing: only its own claims and the
\* queue are left to look at.
LEMMA WorkerFrame ==
  ASSUME TypeOK, SavedInv, NEW w \in Worker, WorkerStep(w) \/ RequestFails(w),
         UNCHANGED diskVars
  PROVE  /\ StoredBehind'
         /\ \A v \in Worker \ {w} : Walked(v)' /\ Saving(v)'
         /\ \A c, k : SavedUpTo(c, k)' <=> SavedUpTo(c, k)
<1> USE DEF diskVars, sharedVars
<1>1. /\ UNCHANGED <<completed, inProgress>>
      /\ \A v \in Worker \ {w} :
            /\ pc'[v] = pc[v] /\ category'[v] = category[v]
            /\ initialAfter'[v] = initialAfter[v] /\ after'[v] = after[v]
            /\ seenCursors'[v] = seenCursors[v] /\ pendingSave'[v] = pendingSave[v]
  BY DEF WorkerStep, RequestFails, CheckStop, TakeTask, FindQueueEmpty, Drain,
         HandleFailure, SaveErrorEscapes, ReceivePage, SubmitPage, LeaveCategory,
         GoTo, ForgetSave, TypeOK
<1>2. \A c, k : SavedUpTo(c, k)' <=> SavedUpTo(c, k)
  BY DEF SavedUpTo
<1>3. \A c : AllSaved(c)' <=> AllSaved(c)
  BY DEF AllSaved
<1>4. StoredBehind'
  BY <1>1, <1>2, <1>3 DEF SavedInv, StoredBehind
<1>5. ASSUME NEW v \in Worker \ {w}
      PROVE  Walked(v)' /\ Saving(v)'
  <2>1. Walked(v) /\ Saving(v) /\ handled \subseteq handled'
    BY DEF SavedInv, WalkedBehind, SavingBehind
  <2>2. QED
    BY <1>1, <2>1, OthersKept
<1>6. QED
  BY <1>2, <1>4, <1>5

\* A worker that only moves on keeps its claims.
LEMMA SavedMove ==
  ASSUME NEW w \in Worker, Walked(w), Saving(w), pc \in [Worker -> Locations],
         NEW location \in Locations \ {"awaitLast"}, GoTo(w, location),
         UNCHANGED <<handled, category, initialAfter, after, seenCursors,
                     pendingSave>>
  PROVE  Walked(w)' /\ Saving(w)'
  BY DEF Walked, Saving, GoTo, SavedUpTo, SubmittedUpTo, AllSubmitted, WithSaver

\* The page at the worker's cursor goes to its saver; where the walk ends,
\* the category has no page that was not handed over.
LEMMA SavedSubmit ==
  ASSUME TypeOK, SavedInv, NEW w \in Worker, SubmitPage(w), UNCHANGED handled
  PROVE  Walked(w)' /\ Saving(w)'
<1>0. PICK c, k, next : c = category[w] /\ k = after[w] /\ next = Follow[c][k]
  OBVIOUS
<1>1. c \in Category /\ c # 0 /\ k \in CursorsOf(c) /\ c = category'[w]
  BY <1>0 DEF SubmitPage, TypeOK, CursorsFit, Collecting
<1>2. /\ next \in CursorsOf(c)
      /\ next <= k + 1
      /\ CursorsOf(c) \subseteq Nat
      /\ k \in Nat /\ next \in Nat
  <2>1. next \in CursorsOf(c)
    BY <1>0, <1>1, FollowFits
  <2>2. k \in Cursor /\ next <= k + 1
    BY <1>0, <1>1, FollowAssumption DEF CursorsOf
  <2>3. QED
    BY <2>1, <2>2, SizeAssumption DEF CursorsOf, Cursor
<1>3. /\ pendingSave'[w].stage = "saving"
      /\ pendingSave'[w].category = c
      /\ pendingSave'[w].cursor = k
  BY <1>0 DEF SubmitPage, TypeOK
<1>4. WithSaver(w, k)' /\ \A j : ~WithSaver(w, j)
  BY <1>1, <1>3 DEF WithSaver, SubmitPage, SaveSettled
<1>5. SavedUpTo(c, k) /\ SavedUpTo(c, k)'
  BY <1>0, <1>1, <1>4
  DEF SavedInv, WalkedBehind, Walked, SubmittedUpTo, SavedUpTo
<1>6. Saving(w)'
  BY <1>3, <1>5 DEF Saving
<1>7. SavedUpTo(c, initialAfter[w])' /\ UNCHANGED initialAfter
  BY <1>0, <1>1 DEF SavedInv, WalkedBehind, Walked, SavedUpTo, SubmitPage
<1>8. \A i \in Nat : i <= k + 1 => SubmittedUpTo(w, i)'
  <2>1. SUFFICES ASSUME NEW i \in Nat, i <= k + 1, NEW j \in CursorsOf(c), j < i,
                        <<c, j>> \notin handled
                 PROVE  j = k
    BY <1>1, <1>4 DEF SubmittedUpTo
  <2>2. ~(j < k)
    BY <1>5, <2>1 DEF SavedUpTo
  <2>3. QED
    BY <1>2, <2>1, <2>2
<1>9. AllSubmitted(w) => AllSaved(c)
  BY <1>0, <1>4 DEF AllSubmitted, AllSaved
<1>10. AllSaved(c) => AllSubmitted(w)'
  BY <1>1 DEF AllSaved, AllSubmitted
<1>11. next # k + 1 => AllSubmitted(w)'
  <2>1. SUFFICES ASSUME next # k + 1, NEW j \in CursorsOf(c)
                 PROVE  <<c, j>> \in handled \/ j = k
    BY <1>1, <1>4 DEF AllSubmitted
  <2>2. j <= k
    BY <1>0, <1>1, <2>1, LastCursor
  <2>3. QED
    BY <1>2, <1>5, <2>2 DEF SavedUpTo
<1>12. AllSubmitted(w) \/ \A s \in seenCursors[w] : s <= k
  BY <1>0, <1>1 DEF SavedInv, WalkedBehind, Walked
<1>13. CASE next = None \/ Repeated(w, next)
  <2>1. AllSubmitted(w)'
    <3>1. CASE AllSubmitted(w)
      BY <3>1, <1>9, <1>10
    <3>2. CASE \A s \in seenCursors[w] : s <= k
      BY <3>2, <1>0, <1>2, <1>11, <1>13 DEF Repeated, None
    <3>3. QED
      BY <3>1, <3>2, <1>12
  <2>2. UNCHANGED after
    BY <1>0, <1>13 DEF SubmitPage
  <2>3. SubmittedUpTo(w, after[w])'
    BY <2>1, <2>2 DEF SubmittedUpTo, AllSubmitted
  <2>4. QED
    BY <1>1, <1>6, <1>7, <2>1, <2>3 DEF Walked
<1>14. CASE ~(next = None \/ Repeated(w, next))
  <2>1. /\ pc'[w] = "request"
        /\ after'[w] = next
        /\ seenCursors'[w] = seenCursors[w] \cup {next}
    BY <1>0, <1>14 DEF SubmitPage, GoTo, TypeOK
  <2>2. SubmittedUpTo(w, after[w])'
    BY <1>2, <1>8, <2>1
  <2>3. AllSubmitted(w)' \/ \A s \in seenCursors'[w] : s <= after'[w]
    <3>1. CASE AllSubmitted(w) \/ next # k + 1
      BY <3>1, <1>9, <1>10, <1>11
    <3>2. CASE next = k + 1 /\ \A s \in seenCursors[w] : s <= k
      <4>1. seenCursors[w] \subseteq Int
        BY SizeAssumption DEF TypeOK, Cursor
      <4>2. QED
        BY <3>2, <4>1, <1>2, <2>1
    <3>3. QED
      BY <3>1, <3>2, <1>12
  <2>4. QED
    BY <1>1, <1>6, <1>7, <2>1, <2>2, <2>3 DEF Walked
<1>15. QED
  BY <1>13, <1>14

\* A worker that holds no category and has forgotten its save claims nothing.
LEMMA SavedRelease ==
  ASSUME TypeOK, NEW w \in Worker, ForgetSave(w),
         category' = [category EXCEPT ![w] = 0]
  PROVE  Walked(w)' /\ Saving(w)'
  BY DEF TypeOK, ForgetSave, NoSave, Walked, Saving

LEMMA SavedTake ==
  ASSUME TypeOK, SavedInv, NEW w \in Worker, NEW task \in taskQueue,
         TakeTask(w, task), UNCHANGED handled
  PROVE  Walked(w)' /\ Saving(w)'
<1>1. /\ pc'[w] = "request"
      /\ category'[w] = task.category
      /\ initialAfter'[w] = task.after
      /\ after'[w] = task.after
      /\ seenCursors'[w] = {}
      /\ pendingSave' = pendingSave
  BY DEF TakeTask, GoTo, TypeOK
<1>2. SavedUpTo(task.category, task.after)'
  BY DEF SavedInv, QueuedBehind, SavedUpTo
<1>3. Walked(w)'
  BY <1>1, <1>2 DEF Walked, SubmittedUpTo, SavedUpTo
<1>4. Saving(w)'
  BY <1>1 DEF SavedInv, SavingBehind, Saving, SavedUpTo
<1>5. QED
  BY <1>3, <1>4

\* A failed category goes back with a cursor behind which all is saved.
LEMMA SavedHandleFailure ==
  ASSUME TypeOK, SavedInv, NEW w \in Worker, HandleFailure(w)
  PROVE  \A task \in taskQueue' : SavedUpTo(task.category, task.after)
<1>1. category[w] \in Category /\ category[w] # 0
  BY DEF HandleFailure, TypeOK, Failing
<1>2. SavedUpTo(category[w], RetryAfter(w))
  BY <1>1 DEF SavedInv, StoredBehind, WalkedBehind, Walked, RetryAfter
<1>3. QED
  BY <1>2 DEF HandleFailure, SavedInv, QueuedBehind

LEMMA SavedWorker ==
  ASSUME TypeOK, SavedInv, NEW w \in Worker, WorkerStep(w) \/ RequestFails(w),
         UNCHANGED diskVars
  PROVE  SavedInv'
<1> USE DEF sharedVars
<1>1. /\ StoredBehind'
      /\ \A v \in Worker \ {w} : Walked(v)' /\ Saving(v)'
      /\ \A c, k : SavedUpTo(c, k)' <=> SavedUpTo(c, k)
  BY WorkerFrame
<1>2. UNCHANGED handled /\ Walked(w) /\ Saving(w) /\ pc \in [Worker -> Locations]
  BY DEF diskVars, SavedInv, WalkedBehind, SavingBehind, TypeOK
<1>3. ASSUME taskQueue' \subseteq taskQueue
      PROVE  QueuedBehind'
  BY <1>1, <1>3 DEF SavedInv, QueuedBehind
<1>4. ASSUME QueuedBehind', Walked(w)' /\ Saving(w)'
      PROVE  SavedInv'
  BY <1>1, <1>4 DEF SavedInv, WalkedBehind, SavingBehind
<1>5. CASE CheckStop(w)
  BY <1>2, <1>3, <1>4, <1>5, SavedMove DEF CheckStop, Locations
<1>6. CASE \E task \in taskQueue : TakeTask(w, task)
  <2>1. PICK task \in taskQueue : TakeTask(w, task)
    BY <1>6
  <2>2. taskQueue' \subseteq taskQueue
    BY <2>1 DEF TakeTask
  <2>3. Walked(w)' /\ Saving(w)'
    BY <2>1, <1>2, SavedTake
  <2>4. QED
    BY <2>2, <2>3, <1>3, <1>4
<1>7. CASE FindQueueEmpty(w)
  BY <1>2, <1>3, <1>4, <1>7, SavedMove DEF FindQueueEmpty, Locations
<1>8. CASE Drain(w)
  BY <1>2, <1>3, <1>4, <1>8, SavedMove DEF Drain, Locations
<1>9. CASE HandleFailure(w)
  <2>1. QueuedBehind'
    BY <1>1, <1>9, SavedHandleFailure DEF QueuedBehind
  <2>2. Walked(w)' /\ Saving(w)'
    BY <1>9, SavedRelease DEF HandleFailure
  <2>3. QED
    BY <2>1, <2>2, <1>4
<1>10. CASE SaveErrorEscapes(w)
  BY <1>2, <1>3, <1>4, <1>10, SavedMove DEF SaveErrorEscapes, Locations
<1>11. CASE ReceivePage(w)
  BY <1>2, <1>3, <1>4, <1>11, SavedMove DEF ReceivePage, Locations, Collecting
<1>12. CASE SubmitPage(w)
  BY <1>2, <1>3, <1>4, <1>12, SavedSubmit DEF SubmitPage
<1>13. CASE LeaveCategory(w)
  BY <1>3, <1>4, <1>13, SavedRelease DEF LeaveCategory
<1>14. CASE RequestFails(w)
  <2>1. PICK location \in Failing : GoTo(w, location)
    BY <1>14 DEF RequestFails
  <2>2. location \in Locations \ {"awaitLast"}
    BY <2>1 DEF Locations, Failing
  <2>3. QED
    BY <1>2, <1>3, <1>4, <1>14, <2>1, <2>2, SavedMove DEF RequestFails
<1>15. QED
  BY <1>5, <1>6, <1>7, <1>8, <1>9, <1>10, <1>11, <1>12, <1>13, <1>14 DEF WorkerStep

\* A step of a saver only adds to what is saved; it records a cursor once
\* the page in front of it is.
LEMMA SavedSaver ==
  ASSUME TypeOK, SavedInv, NEW w \in Worker, SaverStep(w) \/ SaverFault(w),
         UNCHANGED workerVars
  PROVE  SavedInv'
<1> USE DEF SaverStep, SaverFault, SavePage, SaveRaises, MarkProgress,
            MarkProgressRaises, SaveStep, diskVars, sharedVars
<1>0. PICK save : save = pendingSave[w]
  OBVIOUS
<1>1. /\ save.stage # "none"
      /\ <<save.category, save.cursor>> \in Page
      /\ save.category \in Category
      /\ save.cursor \in CursorsOf(save.category)
      /\ save.after = Follow[save.category][save.cursor]
  BY <1>0, PagePair DEF TypeOK, CursorsFit
<1>2. /\ handled \subseteq handled'
      /\ UNCHANGED <<legacyState, taskQueue>>
      /\ pendingSave'[w].category = save.category
      /\ pendingSave'[w].cursor = save.cursor
      /\ \A v \in Worker \ {w} : pendingSave'[v] = pendingSave[v]
  BY <1>0 DEF TypeOK
<1>3. \/ /\ save.stage = "saving"
         /\ pendingSave'[w].stage = "marking"
         /\ <<save.category, save.cursor>> \in handled'
      \/ save.stage = "saving" /\ pendingSave'[w].stage = "failed"
      \/ save.stage = "marking" /\ pendingSave'[w].stage \in {"returned", "failed"}
  BY <1>0 DEF TypeOK
<1>4. SavedUpTo(save.category, save.cursor)
  BY <1>0, <1>1 DEF SavedInv, SavingBehind, Saving
<1>5. \A j : WithSaver(w, j) =>
        WithSaver(w, j)' \/ (j = save.cursor /\ category[w] = save.category
                               /\ <<save.category, save.cursor>> \in handled')
  BY <1>0, <1>2, <1>3 DEF WithSaver, workerVars
<1>6. Walked(w)'
  <2>1. AllSubmitted(w) => AllSubmitted(w)'
    BY <1>2, <1>5 DEF AllSubmitted, workerVars
  <2>2. SubmittedUpTo(w, after[w]) => SubmittedUpTo(w, after[w])'
    BY <1>2, <1>5 DEF SubmittedUpTo, workerVars
  <2>3. QED
    BY <1>2, <2>1, <2>2, SavedGrows DEF SavedInv, WalkedBehind, Walked, workerVars
<1>7. Saving(w)'
  <2>1. SavedUpTo(save.category, save.cursor)'
    BY <1>2, <1>4, SavedGrows
  <2>2. pendingSave'[w].stage = "returned" => <<save.category, save.cursor>> \in handled
    BY <1>0, <1>3 DEF SavedInv, SavingBehind, Saving
  <2>3. pendingSave'[w].stage \in {"marking", "returned"} =>
            <<save.category, save.cursor>> \in handled'
    BY <1>2, <1>3, <2>2
  <2>4. QED
    BY <1>2, <2>1, <2>3 DEF Saving
<1>8. ASSUME NEW v \in Worker
      PROVE  Walked(v)' /\ Saving(v)'
  <2>1. CASE v = w
    BY <2>1, <1>6, <1>7
  <2>2. CASE v # w
    <3>1. Walked(v) /\ Saving(v)
      BY DEF SavedInv, WalkedBehind, SavingBehind
    <3>2. QED
      BY <1>2, <2>2, <3>1, OthersKept DEF workerVars
  <2>3. QED
    BY <2>1, <2>2
<1>9. QueuedBehind'
  BY <1>2, SavedGrows DEF SavedInv, QueuedBehind
<1>10. /\ \A c \in Category :
            /\ c \in completed' => AllSaved(c)'
            /\ SavedUpTo(c, inProgress[c])'
  <2>1. CASE UNCHANGED <<completed, inProgress>>
    BY <1>2, <2>1, SavedGrows DEF SavedInv, StoredBehind
  <2>2. CASE save.stage = "marking" /\ RecordInMemory(w)
    <3>1. <<save.category, save.cursor>> \in handled
      BY <1>0, <2>2 DEF SavedInv, SavingBehind, Saving
    <3>2. \A j \in CursorsOf(save.category) :
            j <= save.cursor => <<save.category, j>> \in handled'
      BY <1>1, <1>2, <1>4, <3>1, SizeAssumption DEF SavedUpTo, CursorsOf, Cursor
    <3>3. save.after = None => AllSaved(save.category)'
      <4>1. save.after = None => save.after # save.cursor + 1
        BY <1>1, SizeAssumption DEF CursorsOf, Cursor, None
      <4>2. QED
        BY <1>1, <3>2, <4>1, LastCursor DEF AllSaved
    <3>4. SavedUpTo(save.category, save.after)'
      <4>1. save.after \in Nat /\ save.after <= save.cursor + 1 /\ save.cursor \in Nat
        BY <1>1, FollowAssumption, SizeAssumption DEF CursorsOf, Cursor
      <4>2. CursorsOf(save.category) \subseteq Nat
        BY SizeAssumption DEF CursorsOf, Cursor
      <4>3. QED
        BY <3>2, <4>1, <4>2 DEF SavedUpTo
    <3>5. SavedUpTo(save.category, None)'
      BY <1>1, SizeAssumption DEF SavedUpTo, CursorsOf, Cursor, None
    <3>6. \A c \in Category :
            /\ c \in completed' =>
                  c \in completed \/ (c = save.category /\ save.after = None)
            /\ \/ inProgress'[c] = inProgress[c]
               \/ c = save.category /\ inProgress'[c] \in {None, save.after}
      BY <1>0, <1>1, <2>2 DEF RecordInMemory, TypeOK
    <3>7. \A c \in Category :
            /\ c \in completed => AllSaved(c)'
            /\ inProgress'[c] = inProgress[c] => SavedUpTo(c, inProgress[c])'
      BY <1>2, SavedGrows DEF SavedInv, StoredBehind
    <3>8. QED
      BY <3>3, <3>4, <3>5, <3>6, <3>7
  <2>3. QED
    BY <1>0, <2>1, <2>2
<1>11. StoredBehind'
  <2>1. \/ UNCHANGED progressFile
        \/ progressFile' = [completed |-> completed', inProgress |-> inProgress']
    OBVIOUS
  <2>2. \A c \in Category :
            /\ c \in progressFile'.completed => AllSaved(c)'
            /\ SavedUpTo(c, progressFile.inProgress[c])'
    BY <1>2, <1>10, <2>1, SavedGrows DEF SavedInv, StoredBehind
  <2>3. QED
    BY <1>2, <1>10, <2>2, SavedGrows DEF SavedInv, StoredBehind
<1>12. QED
  BY <1>8, <1>9, <1>11 DEF SavedInv, WalkedBehind, SavingBehind

LEMMA SavedNext == TypeOK /\ SavedInv /\ [Next]_vars => SavedInv'
<1> SUFFICES ASSUME TypeOK, SavedInv, [Next]_vars PROVE SavedInv'
  OBVIOUS
<1>1. CASE MainStep \/ Crash \/ Rest
  BY <1>1, SavedMain
<1>2. ASSUME NEW w \in Worker, WorkerStep(w) \/ RequestFails(w), UNCHANGED diskVars
      PROVE  SavedInv'
  BY <1>2, SavedWorker
<1>3. ASSUME NEW w \in Worker, SaverStep(w) \/ SaverFault(w), UNCHANGED workerVars
      PROVE  SavedInv'
  BY <1>3, SavedSaver
<1>4. CASE UNCHANGED vars
  BY <1>4 DEF vars, diskVars, sharedVars, workerVars, SavedInv, StoredBehind,
              QueuedBehind, WalkedBehind, Walked, SavingBehind, Saving,
              SavedUpTo, AllSaved, SubmittedUpTo, AllSubmitted, WithSaver
<1>5. QED
  BY <1>1, <1>2, <1>3, <1>4 DEF Next, diskVars, workerVars

LEMMA SavedInvHolds == Spec => []SavedInv
  BY TypeCorrect, SavedInit, SavedNext, PTL DEF Spec

LEMMA SavedCovers == TypeOK /\ SavedInv => ResumePointBehindSaves
<1> SUFFICES ASSUME TypeOK, SavedInv, NEW p \in Covered PROVE p \in handled
  BY DEF ResumePointBehindSaves
<1>1. PICK c, k : p = <<c, k>> /\ c \in Category /\ k \in CursorsOf(c)
  BY DEF Covered, Page
<1>2. Skips(c, k)
  BY <1>1 DEF Covered
<1>3. SavedUpTo(c, ResumeAfter(c))
  BY <1>1, NothingBeforeNone, SizeAssumption
  DEF SavedInv, StoredBehind, ResumeAfter, Category
<1>4. CASE c < StartIndex(progressFile.completed)
  BY <1>1, <1>4 DEF StartIndex, StartAt, SavedInv, StoredBehind, AllSaved, Category
<1>5. CASE c \in progressFile.completed
  BY <1>1, <1>5 DEF SavedInv, StoredBehind, AllSaved
<1>6. CASE k < ResumeAfter(c)
  BY <1>1, <1>3, <1>6 DEF SavedUpTo
<1>7. QED
  BY <1>2, <1>4, <1>5, <1>6 DEF Skips

\* Whatever fails or crashes, the state files make no later run skip a page
\* that was not saved.
THEOREM ResumeIsSafe == Spec => []ResumePointBehindSaves
  BY TypeCorrect, SavedInvHolds, SavedCovers, PTL

-----------------------------------------------------------------------------
(* ClearedInv is kept, and with it the abstract pass is implemented. *)

LEMMA ClearedInit == Init => ClearedInv
  BY DEF Init, MemoryIsFresh, ClearedInv, ReadyWhenDown, StopCounted, IdleWithoutCategory,
         NothingForgotten, CollectedWhenCleared

LEMMA ClearedFresh ==
  ASSUME ClearedInv, LoseMemory, handled' = handled,
         \/ run' = "down"
         \/ run = "clearing" /\ run' = "finished"
  PROVE  ClearedInv'
  BY DEF LoseMemory, ClearedInv, ReadyWhenDown, StopCounted, IdleWithoutCategory,
         NothingForgotten, CollectedWhenCleared

LEMMA AllPages ==
  ASSUME \A c \in Category : AllSaved(c)
  PROVE  Page \subseteq handled
  BY DEF AllSaved, Page

\* A process that is not running remembers nothing.
FreshBetweenRuns == run \in {"down", "finished"} => MemoryIsFresh

LEMMA FreshNext == FreshBetweenRuns /\ [Next]_vars => FreshBetweenRuns'
<1> SUFFICES ASSUME FreshBetweenRuns, [Next]_vars PROVE FreshBetweenRuns'
  OBVIOUS
<1>1. LoseMemory => MemoryIsFresh'
  BY Zenon DEF LoseMemory, MemoryIsFresh, NoProgress
<1>2. ASSUME run' = "working" \/ run' = "clearing" PROVE FreshBetweenRuns'
  BY <1>2 DEF FreshBetweenRuns
<1>3. ASSUME UNCHANGED vars PROVE FreshBetweenRuns'
  BY <1>3 DEF FreshBetweenRuns, MemoryIsFresh, vars, diskVars, sharedVars, workerVars
<1>4. ASSUME LoseMemory PROVE FreshBetweenRuns'
  BY <1>1, <1>4 DEF FreshBetweenRuns
<1>5. CASE MainStep \/ Crash \/ Rest
  BY <1>2, <1>3, <1>4, <1>5
  DEF MainStep, StartRun, EndRun, ClearProgress, ClearLegacyState, Crash, Rest
<1>6. ASSUME run = "working", run' = run PROVE FreshBetweenRuns'
  BY <1>2, <1>6
<1>7. QED
  BY <1>3, <1>5, <1>6 DEF Next

\* At the start every category is saved, or queued for workers that are there.
LEMMA ClearedStart == TypeOK /\ SavedInv /\ ClearedInv /\ StartRun => ClearedInv'
<1> SUFFICES ASSUME TypeOK, SavedInv, ClearedInv, StartRun PROVE ClearedInv'
  OBVIOUS
<1> USE DEF StartRun, diskVars, workerVars
<1>1. ReadyWhenDown' /\ StopCounted' /\ IdleWithoutCategory' /\ CollectedWhenCleared'
  BY DEF ClearedInv, ReadyWhenDown, StopCounted, IdleWithoutCategory, CollectedWhenCleared
<1>2. ASSUME NEW c \in Category
      PROVE  (AllSaved(c) \/ Waiting(c))'
  <2>1. CASE c \in progressFile.completed
    BY <2>1 DEF SavedInv, StoredBehind, AllSaved
  <2>2. CASE c < StartIndex(progressFile.completed)
    BY <2>2 DEF StartIndex, StartAt, SavedInv, StoredBehind, AllSaved, Category
  <2>3. CASE c \notin progressFile.completed /\ c >= StartIndex(progressFile.completed)
    <3>1. [category |-> c, after |-> ResumeAfter(c)] \in InitialQueue
      BY <2>3 DEF InitialQueue
    <3>2. \E task \in taskQueue' : task.category = c
      BY <3>1
    <3>3. QED
      BY <3>2 DEF Waiting
  <2>4. StartIndex(progressFile.completed) \in Int /\ c \in Int
    BY DEF StartIndex, StartAt, TypeOK, Category
  <2>5. QED
    BY <2>1, <2>2, <2>3, <2>4
<1>3. run = "down" => \A w \in Worker : pc[w] = "loop"
  BY DEF ClearedInv, ReadyWhenDown
<1>4. NothingForgotten'
  BY <1>2, <1>3, WorkerAssumption DEF NothingForgotten
<1>5. QED
  BY <1>1, <1>4 DEF ClearedInv

\* No worker has a category and the queue is empty, or nobody would have left.
LEMMA ClearedMain ==
  TypeOK /\ SavedInv /\ ClearedInv /\ (MainStep \/ Crash \/ Rest) => ClearedInv'
<1> SUFFICES ASSUME TypeOK, SavedInv, ClearedInv, MainStep \/ Crash \/ Rest
             PROVE  ClearedInv'
  OBVIOUS
<1>1. CASE StartRun
  BY <1>1, ClearedStart
<1>2. CASE EndRun
  BY <1>2, ClearedFresh DEF EndRun, diskVars
<1>3. CASE ClearProgress
  <2>1. /\ run = "working" /\ failureCount = 0
        /\ \A w \in Worker : pc[w] = "exited" /\ category[w] = 0
    BY <1>3 DEF ClearProgress, ClearedInv, IdleWithoutCategory, Idle
  <2>2. taskQueue = {}
    BY <2>1 DEF ClearedInv, NothingForgotten
  <2>3. \A c \in Category : ~Waiting(c)
    BY <2>1, <2>2 DEF Waiting, Category
  <2>4. Page \subseteq handled
    BY <2>1, <2>3, AllPages DEF ClearedInv, NothingForgotten
  <2>5. QED
    BY <1>3, <2>4
    DEF ClearProgress, ClearedInv, ReadyWhenDown, StopCounted, IdleWithoutCategory,
        NothingForgotten, CollectedWhenCleared, sharedVars, workerVars
<1>4. CASE ClearLegacyState
  BY <1>4, ClearedFresh DEF ClearLegacyState
<1>5. CASE Crash
  BY <1>5, ClearedFresh DEF Crash, diskVars
<1>6. CASE Rest
  BY <1>6 DEF Rest, vars, diskVars, sharedVars, workerVars, ClearedInv,
              ReadyWhenDown, StopCounted, IdleWithoutCategory, NothingForgotten,
              AllSaved, Waiting, CollectedWhenCleared
<1>7. QED
  BY <1>1, <1>2, <1>3, <1>4, <1>5, <1>6 DEF MainStep

\* What has to be shown of a step while the run is going on.
LEMMA ClearedStep ==
  ASSUME run = "working", run' = run, StopCounted', IdleWithoutCategory',
         NothingForgotten'
  PROVE  ClearedInv'
  BY DEF ClearedInv, ReadyWhenDown, CollectedWhenCleared

\* A worker that moves on within its category, or without one, forgets
\* nothing, provided that it leaves only when the queue is empty or counted
\* failures have stopped it.
LEMMA ClearedMove ==
  ASSUME TypeOK, ClearedInv, run = "working", run' = run, NEW w \in Worker,
         NEW location \in Locations, GoTo(w, location),
         location \in Idle => pc[w] \in Idle,
         \/ location \notin {"drain", "exited"}
         \/ pc[w] = "drain"
         \/ taskQueue = {} \/ failureCount > 0,
         UNCHANGED <<handled, category, taskQueue, stopRequested, failureCount>>
  PROVE  ClearedInv'
<1>1. \A v \in Worker : pc'[v] = IF v = w THEN location ELSE pc[v]
  BY DEF TypeOK, GoTo
<1>2. StopCounted' /\ IdleWithoutCategory'
  BY <1>1 DEF ClearedInv, StopCounted, IdleWithoutCategory
<1>3. ASSUME failureCount = 0
      PROVE  /\ \A c \in Category : (AllSaved(c) \/ Waiting(c))'
             /\ taskQueue # {} => \E v \in Worker : pc'[v] \notin {"drain", "exited"}
  <2>1. \A c \in Category : (AllSaved(c) \/ Waiting(c))'
    BY <1>3 DEF ClearedInv, NothingForgotten, AllSaved, Waiting
  <2>2. ASSUME taskQueue # {}
        PROVE  \E v \in Worker : pc'[v] \notin {"drain", "exited"}
    <3>1. PICK v \in Worker : pc[v] \notin {"drain", "exited"}
      BY <1>3, <2>2 DEF ClearedInv, NothingForgotten
    <3>2. location \notin {"drain", "exited"} \/ v # w
      BY <1>3, <2>2, <3>1 DEF TypeOK
    <3>3. QED
      BY <1>1, <3>1, <3>2
  <2>3. QED
    BY <2>1, <2>2
<1>4. NothingForgotten'
  BY <1>3 DEF NothingForgotten
<1>5. QED
  BY <1>2, <1>4, ClearedStep

LEMMA ClearedTake ==
  ASSUME TypeOK, ClearedInv, run = "working", run' = run, NEW w \in Worker,
         NEW task \in taskQueue, TakeTask(w, task), UNCHANGED handled
  PROVE  ClearedInv'
<1>1. /\ \A v \in Worker : /\ pc'[v] = IF v = w THEN "request" ELSE pc[v]
                           /\ category'[v] = IF v = w THEN task.category
                                             ELSE category[v]
      /\ category[w] = 0
      /\ taskQueue' = taskQueue \ {task}
      /\ UNCHANGED <<failureCount, stopRequested>>
  BY DEF TakeTask, GoTo, TypeOK, ClearedInv, IdleWithoutCategory, Idle
<1>2. StopCounted' /\ IdleWithoutCategory'
  BY <1>1 DEF ClearedInv, StopCounted, IdleWithoutCategory, Idle
<1>3. ASSUME failureCount = 0, NEW c \in Category
      PROVE  (AllSaved(c) \/ Waiting(c))'
  <2>1. AllSaved(c) \/ Waiting(c)
    BY <1>3 DEF ClearedInv, NothingForgotten
  <2>2. CASE AllSaved(c)
    BY <2>2 DEF AllSaved
  <2>3. CASE c = task.category
    BY <2>3, <1>1 DEF Waiting
  <2>4. CASE Waiting(c) /\ c # task.category
    BY <2>4, <1>1 DEF Waiting, Category
  <2>5. QED
    BY <2>1, <2>2, <2>3, <2>4
<1>4. pc'[w] \notin {"drain", "exited"}
  BY <1>1
<1>5. NothingForgotten'
  BY <1>1, <1>3, <1>4 DEF NothingForgotten
<1>6. QED
  BY <1>2, <1>5, ClearedStep

\* A worker that gives its category back has saved it, has queued it, or has
\* counted a failure; and it looks at the queue again.
LEMMA ClearedRelease ==
  ASSUME TypeOK, ClearedInv, run = "working", run' = run, NEW w \in Worker,
         GoTo(w, "loop"), category' = [category EXCEPT ![w] = 0],
         taskQueue \subseteq taskQueue', UNCHANGED handled,
         \/ failureCount' > 0
         \/ AllSaved(category[w])
         \/ \E task \in taskQueue' : task.category = category[w],
         failureCount' >= failureCount,
         stopRequested' => failureCount' > 0
  PROVE  ClearedInv'
<1>1. \A v \in Worker : /\ pc'[v] = IF v = w THEN "loop" ELSE pc[v]
                        /\ category'[v] = IF v = w THEN 0 ELSE category[v]
  BY DEF GoTo, TypeOK
<1>2. StopCounted' /\ IdleWithoutCategory'
  BY <1>1 DEF ClearedInv, StopCounted, IdleWithoutCategory, Idle
<1>3. ASSUME failureCount' = 0, NEW c \in Category
      PROVE  (AllSaved(c) \/ Waiting(c))'
  <2>1. failureCount = 0
    BY <1>3 DEF TypeOK
  <2>2. AllSaved(c) \/ Waiting(c)
    BY <2>1 DEF ClearedInv, NothingForgotten
  <2>3. CASE AllSaved(c)
    BY <2>3 DEF AllSaved
  <2>4. CASE c = category[w]
    BY <2>4, <1>3 DEF AllSaved, Waiting
  <2>5. CASE Waiting(c) /\ c # category[w]
    BY <2>5, <1>1 DEF Waiting
  <2>6. QED
    BY <2>2, <2>3, <2>4, <2>5
<1>4. pc'[w] \notin {"drain", "exited"}
  BY <1>1
<1>5. NothingForgotten'
  BY <1>3, <1>4 DEF NothingForgotten
<1>6. QED
  BY <1>2, <1>5, ClearedStep

LEMMA ClearedHandleFailure ==
  ASSUME TypeOK, ClearedInv, run = "working", run' = run, NEW w \in Worker,
         HandleFailure(w), UNCHANGED handled
  PROVE  ClearedInv'
<1>1. /\ failureCount' >= failureCount
      /\ stopRequested' => failureCount' > 0
      /\ taskQueue \subseteq taskQueue'
  BY DEF HandleFailure, ClearedInv, StopCounted, TypeOK
<1>2. \/ failureCount' = failureCount + 1
      \/ [category |-> category[w], after |-> RetryAfter(w)] \in taskQueue'
  BY DEF HandleFailure
<1>3. \/ failureCount' > 0
      \/ \E task \in taskQueue' : task.category = category[w]
  BY <1>2 DEF TypeOK
<1>4. QED
  BY <1>1, <1>3, ClearedRelease DEF HandleFailure

LEMMA ClearedLeave ==
  ASSUME TypeOK, SavedInv, ClearedInv, run = "working", run' = run,
         NEW w \in Worker, LeaveCategory(w), UNCHANGED handled
  PROVE  ClearedInv'
<1>1. AllSubmitted(w) /\ \A j : ~WithSaver(w, j)
  BY DEF LeaveCategory, SaveSettled, WithSaver, SavedInv, WalkedBehind, Walked,
         TypeOK, Collecting
<1>2. AllSaved(category[w])
  BY <1>1 DEF AllSubmitted, AllSaved
<1>3. /\ taskQueue \subseteq taskQueue'
      /\ failureCount' >= failureCount
      /\ stopRequested' => failureCount' > 0
  BY DEF LeaveCategory, sharedVars, ClearedInv, StopCounted, TypeOK
<1>4. QED
  BY <1>2, <1>3, ClearedRelease DEF LeaveCategory

LEMMA ClearedSaver ==
  ASSUME ClearedInv, run = "working", run' = run, NEW w \in Worker,
         SaverStep(w) \/ SaverFault(w), UNCHANGED workerVars
  PROVE  ClearedInv'
<1>1. /\ handled \subseteq handled'
      /\ UNCHANGED <<taskQueue, failureCount, stopRequested, pc, category>>
  BY DEF SaverStep, SaverFault, SavePage, SaveRaises, MarkProgress,
         MarkProgressRaises, diskVars, sharedVars, workerVars
<1>2. \A c : AllSaved(c) \/ Waiting(c) => (AllSaved(c) \/ Waiting(c))'
  BY <1>1, SavedGrows DEF Waiting
<1>3. StopCounted' /\ IdleWithoutCategory' /\ NothingForgotten'
  BY <1>1, <1>2
  DEF ClearedInv, StopCounted, IdleWithoutCategory, NothingForgotten
<1>4. QED
  BY <1>3, ClearedStep

LEMMA ClearedWorker ==
  ASSUME TypeOK, SavedInv, ClearedInv, run = "working", run' = run,
         NEW w \in Worker, WorkerStep(w) \/ RequestFails(w), UNCHANGED diskVars
  PROVE  ClearedInv'
<1> USE DEF diskVars, sharedVars, Idle, Locations, Collecting, Failing
<1>1. CASE CheckStop(w)
  <2>1. stopRequested => failureCount > 0
    BY DEF ClearedInv, StopCounted
  <2>2. PICK location \in {"drain", "take"} :
            GoTo(w, location) /\ (location = "drain" => stopRequested)
    BY <1>1 DEF CheckStop
  <2>3. QED
    BY <1>1, <2>1, <2>2, ClearedMove DEF CheckStop
<1>2. CASE \E task \in taskQueue : TakeTask(w, task)
  BY <1>2, ClearedTake
<1>3. CASE FindQueueEmpty(w)
  BY <1>3, ClearedMove DEF FindQueueEmpty
<1>4. CASE Drain(w)
  BY <1>4, ClearedMove DEF Drain
<1>5. CASE HandleFailure(w)
  BY <1>5, ClearedHandleFailure
<1>6. CASE SaveErrorEscapes(w)
  BY <1>6, ClearedMove DEF SaveErrorEscapes
<1>7. CASE ReceivePage(w)
  BY <1>7, ClearedMove DEF ReceivePage
<1>8. CASE SubmitPage(w)
  <2>1. PICK location \in {"awaitLast", "request"} : GoTo(w, location)
    BY <1>8 DEF SubmitPage
  <2>2. QED
    BY <1>8, <2>1, ClearedMove DEF SubmitPage
<1>9. CASE LeaveCategory(w)
  BY <1>9, ClearedLeave
<1>10. CASE RequestFails(w)
  <2>1. PICK location \in Failing : GoTo(w, location)
    BY <1>10 DEF RequestFails
  <2>2. QED
    BY <1>10, <2>1, ClearedMove DEF RequestFails
<1>11. QED
  BY <1>1, <1>2, <1>3, <1>4, <1>5, <1>6, <1>7, <1>8, <1>9, <1>10 DEF WorkerStep

LEMMA ClearedNext ==
  TypeOK /\ SavedInv /\ ClearedInv /\ [Next]_vars => ClearedInv'
<1> SUFFICES ASSUME TypeOK, SavedInv, ClearedInv, [Next]_vars PROVE ClearedInv'
  OBVIOUS
<1>1. CASE MainStep \/ Crash \/ Rest
  BY <1>1, ClearedMain
<1>2. ASSUME NEW w \in Worker, run = "working", run' = run,
             WorkerStep(w) \/ RequestFails(w), UNCHANGED diskVars
      PROVE  ClearedInv'
  BY <1>2, ClearedWorker
<1>3. ASSUME NEW w \in Worker, run = "working", run' = run,
             SaverStep(w) \/ SaverFault(w), UNCHANGED workerVars
      PROVE  ClearedInv'
  BY <1>3, ClearedSaver
<1>4. CASE UNCHANGED vars
  BY <1>4 DEF vars, diskVars, sharedVars, workerVars, ClearedInv, ReadyWhenDown,
              StopCounted, IdleWithoutCategory, NothingForgotten, AllSaved, Waiting,
              CollectedWhenCleared
<1>5. QED
  BY <1>1, <1>2, <1>3, <1>4 DEF Next, diskVars, workerVars

\* When the state files are removed every page of every category is saved,
\* although failed categories come back to the queue after other workers have
\* left it.
THEOREM ClearingIsSafe == Spec => []CollectedWhenCleared
<1>1. ClearedInv => CollectedWhenCleared
  BY DEF ClearedInv
<1>2. QED
  BY <1>1, TypeCorrect, SavedInvHolds, ClearedInit, ClearedNext, PTL DEF Spec

-----------------------------------------------------------------------------
(* Refinement. *)

\* The files are removed one after the other.
FilesGone ==
    /\ run \in {"clearing", "finished"} => progressFile = NoProgress
    /\ run = "finished" => legacyState = NoLegacy

LEMMA FilesGoneNext == TypeOK /\ FilesGone /\ [Next]_vars => FilesGone'
  BY DEF FilesGone, Next, MainStep, StartRun, EndRun, ClearProgress,
         ClearLegacyState, Crash, Rest, vars, diskVars

LEMMA FilesGoneHolds == Spec => []FilesGone
<1>1. Init => FilesGone
  BY DEF Init, FilesGone
<1>2. QED
  BY <1>1, TypeCorrect, FilesGoneNext, PTL DEF Spec

LEMMA PassInit == Init /\ TypeOK /\ ResumePointBehindSaves => Pass!Init
  BY DEF Init, Pass!Init, TypeOK, ResumePointBehindSaves

\* The state files of a pass that has ended cover nothing.
LEMMA NothingCovered ==
  ASSUME progressFile = NoProgress, legacyState = NoLegacy
  PROVE  Covered = {}
<1>1. \A p \in Page : ~Skips(p[1], p[2])
  <2>1. SUFFICES ASSUME NEW p \in Page PROVE ~Skips(p[1], p[2])
    OBVIOUS
  <2>2. p[1] \in Category /\ p[2] \in CursorsOf(p[1]) /\ p[1] >= 1 /\ p[2] >= 0
    BY SizeAssumption DEF Page, Category, CursorsOf, Cursor
  <2>3. p[1] \in Int /\ p[2] \in Int
    BY SizeAssumption DEF Page, Category, Cursor
  <2>4. StartIndex(progressFile.completed) = 1 /\ ResumeAfter(p[1]) = 0
    BY <2>2 DEF StartIndex, StartAt, ResumeAfter, NoProgress, NoLegacy, Category, None
  <2>5. p[1] \notin progressFile.completed
    BY DEF NoProgress
  <2>6. QED
    BY <2>2, <2>3, <2>4, <2>5 DEF Skips
<1>2. QED
  BY <1>1 DEF Covered

LEMMA PassStep ==
  TypeOK /\ TypeOK' /\ ResumePointBehindSaves' /\ CollectedWhenCleared
    /\ FilesGone /\ [Next]_vars => [Pass!Next]_Pass!vars
<1> SUFFICES ASSUME TypeOK, TypeOK', ResumePointBehindSaves', CollectedWhenCleared,
                    FilesGone, [Next]_vars
             PROVE  [Pass!Next]_Pass!vars
  OBVIOUS
<1> USE DEF vars, diskVars, sharedVars, workerVars
<1>1. ASSUME run # "finished", run' # "finished", handled' = handled
      PROVE  Pass!Next
  <2>1. Covered' \subseteq handled
    BY <1>1 DEF ResumePointBehindSaves
  <2>2. Pass!WriteResumePoint
    BY <1>1, <2>1 DEF Pass!WriteResumePoint
  <2>3. QED
    BY <2>2 DEF Pass!Next
<1>2. CASE ClearLegacyState
  <2>1. run = "clearing" /\ run' = "finished" /\ handled' = handled
    BY <1>2 DEF ClearLegacyState
  <2>2. progressFile' = NoProgress /\ legacyState' = NoLegacy
    BY <1>2 DEF ClearLegacyState, FilesGone
  <2>3. Covered' = {}
    <3>1. (progressFile = NoProgress /\ legacyState = NoLegacy => Covered = {})'
      BY NothingCovered, PTL
    <3>2. QED
      BY <2>2, <3>1
  <2>4. Page \subseteq handled
    BY <2>1 DEF CollectedWhenCleared
  <2>5. Pass!Finish
    BY <2>1, <2>3, <2>4 DEF Pass!Finish
  <2>6. QED
    BY <2>5 DEF Pass!Next
<1>3. ASSUME NEW w \in Worker, SavePage(w), run = "working", run' = run
      PROVE  [Pass!Next]_Pass!vars
  <2>1. PICK p : handled' = handled \cup {p}
    BY <1>3 DEF SavePage
  <2>2. {p} \in SUBSET Page
    BY <2>1 DEF TypeOK
  <2>3. Covered' = Covered
    BY <1>3 DEF SavePage, Covered, Skips, StartIndex, StartAt, ResumeAfter
  <2>4. Pass!HandlePages({p})
    BY <1>3, <2>1, <2>3 DEF Pass!HandlePages
  <2>5. QED
    BY <2>2, <2>4 DEF Pass!Next
<1>4. CASE StartRun \/ EndRun \/ ClearProgress \/ Crash
  BY <1>4, <1>1 DEF StartRun, EndRun, ClearProgress, Crash
<1>5. CASE Rest \/ UNCHANGED vars
  BY <1>5 DEF Rest, Pass!vars, Covered, Skips, StartIndex, StartAt, ResumeAfter
<1>6. ASSUME NEW w \in Worker, run = "working", run' = run,
             \/ WorkerStep(w) /\ UNCHANGED diskVars
             \/ RequestFails(w) /\ UNCHANGED diskVars
             \/ SaverStep(w)
             \/ SaverFault(w)
      PROVE  [Pass!Next]_Pass!vars
  <2>1. CASE SavePage(w)
    BY <1>3, <1>6, <2>1
  <2>2. CASE handled' = handled
    BY <1>1, <1>6, <2>2
  <2>3. QED
    BY <1>6, <2>1, <2>2
    DEF SaverStep, SaverFault, MarkProgress, SaveRaises, MarkProgressRaises
<1>7. QED
  BY <1>2, <1>4, <1>5, <1>6 DEF Next, MainStep

\* The parallel collection implements the abstract collection pass: every
\* step hands over a page, moves the resume point within what is saved,
\* finishes a complete pass, or is invisible.
THEOREM ImplementsPass == Spec => PassSpec
  BY TypeCorrect, ResumeIsSafe, ClearingIsSafe, FilesGoneHolds, PassInit,
     PassStep, PTL DEF Spec, PassSpec, Pass!Spec

-----------------------------------------------------------------------------
(* One owner per category.  A worker that takes a category has none and no   *)
(* running save; the except block and the end of a category wait for the     *)
(* save before the category is given back.                                   *)

LEMMA ClearedInvHolds == Spec => []ClearedInv
  BY TypeCorrect, SavedInvHolds, ClearedInit, ClearedNext, PTL DEF Spec

Unsettled(w) == pendingSave[w].stage \in {"saving", "marking"}

InHand(w) == pc[w] \in Collecting \cup Failing

QueuedOnce == \A t, u \in taskQueue : t.category = u.category => t = u

QueuedOrOwned == \A w \in Worker : \A t \in taskQueue : t.category # category[w]

OwnersDistinct ==
    \A v, w \in Worker : category[v] = category[w] => v = w \/ category[w] = 0

SavedByOwner ==
    \A w \in Worker : Unsettled(w) => pendingSave[w].category = category[w] /\ InHand(w)

OwnerInv == QueuedOnce /\ QueuedOrOwned /\ OwnersDistinct /\ SavedByOwner

LEMMA OwnerFresh == LoseMemory => OwnerInv'
  BY DEF LoseMemory, OwnerInv, QueuedOnce, QueuedOrOwned, OwnersDistinct,
         SavedByOwner, Unsettled, NoSave

LEMMA OwnerInit == Init => OwnerInv
  BY DEF Init, MemoryIsFresh, OwnerInv, QueuedOnce, QueuedOrOwned, OwnersDistinct,
         SavedByOwner, Unsettled, NoSave

\* A run begins with every category at most once in the queue and no owners.
LEMMA OwnerStart == TypeOK /\ ClearedInv /\ OwnerInv /\ StartRun => OwnerInv'
<1> SUFFICES ASSUME TypeOK, ClearedInv, OwnerInv, StartRun PROVE OwnerInv'
  OBVIOUS
<1>1. \A w \in Worker : category[w] = 0
  BY DEF StartRun, ClearedInv, ReadyWhenDown, IdleWithoutCategory, Idle
<1>2. \A t \in taskQueue' : /\ t.category \in Category
                            /\ t = [category |-> t.category,
                                    after |-> ResumeAfter(t.category)]
  BY DEF StartRun, InitialQueue
<1>3. QueuedOnce' /\ QueuedOrOwned'
  BY <1>1, <1>2 DEF QueuedOnce, QueuedOrOwned, StartRun, workerVars, Category
<1>4. QED
  BY <1>3 DEF OwnerInv, OwnersDistinct, SavedByOwner, Unsettled, InHand, StartRun,
              workerVars

LEMMA OwnerMain ==
  TypeOK /\ ClearedInv /\ OwnerInv /\ (MainStep \/ Crash \/ Rest) => OwnerInv'
<1> SUFFICES ASSUME TypeOK, ClearedInv, OwnerInv, MainStep \/ Crash \/ Rest
             PROVE  OwnerInv'
  OBVIOUS
<1>1. CASE StartRun
  BY <1>1, OwnerStart
<1>2. CASE EndRun \/ ClearLegacyState \/ Crash
  BY <1>2, OwnerFresh DEF EndRun, ClearLegacyState, Crash
<1>3. CASE ClearProgress \/ Rest
  BY <1>3 DEF ClearProgress, Rest, vars, sharedVars, workerVars, OwnerInv, QueuedOnce,
              QueuedOrOwned, OwnersDistinct, SavedByOwner, Unsettled, InHand
<1>4. QED
  BY <1>1, <1>2, <1>3 DEF MainStep

\* A worker that moves on keeps its category in hand while a save of it runs.
LEMMA OwnerMove ==
  ASSUME TypeOK, OwnerInv, NEW w \in Worker, NEW location \in Locations,
         GoTo(w, location),
         Unsettled(w) => location \in Collecting \cup Failing,
         UNCHANGED <<category, taskQueue, pendingSave>>
  PROVE  OwnerInv'
<1>1. \A v \in Worker : pc'[v] = IF v = w THEN location ELSE pc[v]
  BY DEF TypeOK, GoTo
<1>2. SavedByOwner'
  BY <1>1 DEF OwnerInv, SavedByOwner, Unsettled, InHand
<1>3. QED
  BY <1>2 DEF OwnerInv, QueuedOnce, QueuedOrOwned, OwnersDistinct

LEMMA OwnerTake ==
  ASSUME TypeOK, OwnerInv, NEW w \in Worker, NEW task \in taskQueue,
         TakeTask(w, task)
  PROVE  OwnerInv'
<1>1. /\ \A v \in Worker : /\ pc'[v] = IF v = w THEN "request" ELSE pc[v]
                           /\ category'[v] = IF v = w THEN task.category
                                             ELSE category[v]
      /\ taskQueue' = taskQueue \ {task}
      /\ pendingSave' = pendingSave
  BY DEF TypeOK, TakeTask, GoTo
<1>2. ~Unsettled(w)
  BY DEF TakeTask, OwnerInv, SavedByOwner, InHand, Collecting, Failing
<1>3. QueuedOnce' /\ QueuedOrOwned'
  BY <1>1 DEF OwnerInv, QueuedOnce, QueuedOrOwned
<1>4. OwnersDistinct'
  BY <1>1 DEF OwnerInv, QueuedOrOwned, OwnersDistinct
<1>5. SavedByOwner'
  BY <1>1, <1>2 DEF OwnerInv, SavedByOwner, Unsettled, InHand
<1>6. QED
  BY <1>3, <1>4, <1>5 DEF OwnerInv

\* A category is given back, to the queue or for good, without a save.
LEMMA OwnerRelease ==
  ASSUME TypeOK, OwnerInv, NEW w \in Worker, category[w] # 0,
         GoTo(w, "loop"), ForgetSave(w),
         category' = [category EXCEPT ![w] = 0],
         \/ taskQueue' = taskQueue
         \/ \E k : taskQueue' = taskQueue \cup {[category |-> category[w], after |-> k]}
  PROVE  OwnerInv'
<1>1. \A v \in Worker :
        /\ pc'[v] = IF v = w THEN "loop" ELSE pc[v]
        /\ category'[v] = IF v = w THEN 0 ELSE category[v]
        /\ pendingSave'[v] = IF v = w THEN NoSave ELSE pendingSave[v]
  BY DEF TypeOK, GoTo, ForgetSave
<1>2. \A t \in taskQueue' : t \in taskQueue \/ t.category = category[w]
  OBVIOUS
<1>3. \A t, u \in taskQueue' : t.category = category[w] /\ u.category = category[w] => t = u
  BY DEF OwnerInv, QueuedOrOwned
<1>4. QueuedOnce'
  BY <1>2, <1>3 DEF OwnerInv, QueuedOnce
<1>5. \A t \in taskQueue' : t.category \in Category
  BY <1>2 DEF TypeOK
<1>6. QueuedOrOwned'
  BY <1>1, <1>2, <1>5 DEF OwnerInv, QueuedOrOwned, OwnersDistinct, Category
<1>7. OwnersDistinct'
  BY <1>1 DEF OwnerInv, OwnersDistinct
<1>8. SavedByOwner'
  BY <1>1 DEF OwnerInv, SavedByOwner, Unsettled, InHand, NoSave
<1>9. QED
  BY <1>4, <1>6, <1>7, <1>8 DEF OwnerInv

LEMMA OwnerSubmit ==
  ASSUME TypeOK, OwnerInv, NEW w \in Worker, SubmitPage(w)
  PROVE  OwnerInv'
<1>1. \A v \in Worker :
        /\ v # w => pendingSave'[v] = pendingSave[v] /\ pc'[v] = pc[v]
        /\ v = w => /\ pendingSave'[v].category = category[v]
                    /\ pc'[v] \in {"request", "awaitLast"}
  BY DEF TypeOK, SubmitPage, GoTo
<1>2. UNCHANGED <<category, taskQueue>>
  BY DEF SubmitPage, sharedVars
<1>3. SavedByOwner'
  BY <1>1, <1>2 DEF OwnerInv, SavedByOwner, Unsettled, InHand, Collecting
<1>4. QED
  BY <1>2, <1>3 DEF OwnerInv, QueuedOnce, QueuedOrOwned, OwnersDistinct

LEMMA OwnerSaver ==
  ASSUME TypeOK, OwnerInv, NEW w \in Worker, SaverStep(w) \/ SaverFault(w),
         UNCHANGED workerVars
  PROVE  OwnerInv'
<1>1. PICK stage \in Stages : SaveStep(w, stage) /\ Unsettled(w)
  BY DEF SaverStep, SaverFault, SavePage, SaveRaises, MarkProgress,
         MarkProgressRaises, Unsettled, Stages
<1>2. \A v \in Worker : /\ Unsettled(v)' => Unsettled(v)
                        /\ pendingSave'[v].category = pendingSave[v].category
  BY <1>1 DEF SaveStep, Unsettled, TypeOK
<1>3. UNCHANGED <<category, taskQueue, pc>>
  BY DEF SaverStep, SaverFault, SavePage, SaveRaises, MarkProgress,
         MarkProgressRaises, sharedVars, workerVars
<1>4. SavedByOwner'
  BY <1>2, <1>3 DEF OwnerInv, SavedByOwner, InHand
<1>5. QED
  BY <1>3, <1>4 DEF OwnerInv, QueuedOnce, QueuedOrOwned, OwnersDistinct

LEMMA OwnerWorker ==
  ASSUME TypeOK, OwnerInv, NEW w \in Worker, WorkerStep(w) \/ RequestFails(w)
  PROVE  OwnerInv'
<1> USE DEF Locations, Collecting, Failing
<1>1. pc[w] \notin Collecting \cup Failing => ~Unsettled(w)
  BY DEF OwnerInv, SavedByOwner, InHand
<1>2. CASE CheckStop(w)
  <2>1. PICK location \in {"drain", "take"} : GoTo(w, location)
    BY <1>2 DEF CheckStop
  <2>2. QED
    BY <1>1, <1>2, <2>1, OwnerMove DEF CheckStop, sharedVars
<1>3. CASE \E task \in taskQueue : TakeTask(w, task)
  BY <1>3, OwnerTake
<1>4. CASE FindQueueEmpty(w)
  BY <1>1, <1>4, OwnerMove DEF FindQueueEmpty, sharedVars
<1>5. CASE Drain(w)
  BY <1>1, <1>5, OwnerMove DEF Drain, sharedVars
<1>6. CASE HandleFailure(w)
  <2>1. category[w] # 0
    BY <1>6 DEF HandleFailure, TypeOK
  <2>2. QED
    BY <1>6, <2>1, OwnerRelease DEF HandleFailure
<1>7. CASE SaveErrorEscapes(w)
  BY <1>7, OwnerMove DEF SaveErrorEscapes, sharedVars, Unsettled
<1>8. CASE ReceivePage(w)
  BY <1>8, OwnerMove DEF ReceivePage, sharedVars
<1>9. CASE SubmitPage(w)
  BY <1>9, OwnerSubmit
<1>10. CASE LeaveCategory(w)
  <2>1. category[w] # 0
    BY <1>10 DEF LeaveCategory, TypeOK
  <2>2. QED
    BY <1>10, <2>1, OwnerRelease DEF LeaveCategory, sharedVars
<1>11. CASE RequestFails(w)
  <2>1. PICK location \in Failing : GoTo(w, location)
    BY <1>11 DEF RequestFails
  <2>2. QED
    BY <1>11, <2>1, OwnerMove DEF RequestFails, sharedVars
<1>12. QED
  BY <1>2, <1>3, <1>4, <1>5, <1>6, <1>7, <1>8, <1>9, <1>10, <1>11 DEF WorkerStep

LEMMA OwnerNext == TypeOK /\ ClearedInv /\ OwnerInv /\ [Next]_vars => OwnerInv'
<1> SUFFICES ASSUME TypeOK, ClearedInv, OwnerInv, [Next]_vars PROVE OwnerInv'
  OBVIOUS
<1>1. CASE MainStep \/ Crash \/ Rest
  BY <1>1, OwnerMain
<1>2. ASSUME NEW w \in Worker, WorkerStep(w) \/ RequestFails(w)
      PROVE  OwnerInv'
  BY <1>2, OwnerWorker
<1>3. ASSUME NEW w \in Worker, SaverStep(w) \/ SaverFault(w), UNCHANGED workerVars
      PROVE  OwnerInv'
  BY <1>3, OwnerSaver
<1>4. CASE UNCHANGED vars
  BY <1>4 DEF vars, sharedVars, workerVars, OwnerInv, QueuedOnce, QueuedOrOwned,
              OwnersDistinct, SavedByOwner, Unsettled, InHand
<1>5. QED
  BY <1>1, <1>2, <1>3, <1>4 DEF Next, workerVars

LEMMA OwnerInvHolds == Spec => []OwnerInv
  BY OwnerInit, OwnerNext, TypeCorrect, ClearedInvHolds, PTL DEF Spec

\* A category is queued at most once or with one worker, and a save that runs is
\* its worker's: what the code does without a lock is done by one thread.
THEOREM OneOwnerEach == Spec => []OneOwner
<1>1. OwnerInv => OneOwner
  BY DEF OwnerInv, QueuedOnce, QueuedOrOwned, OwnersDistinct, SavedByOwner,
         Unsettled, OneOwner
<1>2. QED
  BY <1>1, OwnerInvHolds, PTL

-----------------------------------------------------------------------------
(* A category is given up after MaxCategoryFailures failures.  While it is   *)
(* queued or in hand it has failed less often, and because it is in one      *)
(* place nobody counts another failure of it meanwhile.                      *)

NoFailuresWhenDown == run = "down" => \A c \in Category : failuresByCategory[c] = 0

CountInv == NoFailuresWhenDown /\ FailuresBounded

LEMMA CountFresh == LoseMemory => CountInv'
  BY BoundAssumption
  DEF LoseMemory, CountInv, NoFailuresWhenDown, FailuresBounded

LEMMA CountInit == Init => CountInv
  BY BoundAssumption
  DEF Init, MemoryIsFresh, CountInv, NoFailuresWhenDown, FailuresBounded

\* Nothing is counted, and what is queued or taken was queued before.
LEMMA CountKept ==
  ASSUME CountInv, run' = run \/ run' # "down",
         UNCHANGED <<failuresByCategory, failureCount>>,
         taskQueue' \subseteq taskQueue,
         \A w \in Worker : \/ category'[w] = category[w]
                           \/ category'[w] = 0
                           \/ \E task \in taskQueue : category'[w] = task.category
  PROVE  CountInv'
<1>1. \A c \in Category : c # 0
  BY DEF Category
<1>2. FailuresBounded'
  <2>1. \A c \in Category : \A w \in Worker :
          category[w] # c /\ (\A t \in taskQueue : t.category # c) => category'[w] # c
    BY <1>1
  <2>2. QED
    BY <2>1 DEF CountInv, FailuresBounded
<1>3. QED
  BY <1>2 DEF CountInv, NoFailuresWhenDown

LEMMA CountHandleFailure ==
  ASSUME TypeOK, OwnerInv, CountInv, NEW w \in Worker, run = "working", run' = run,
         HandleFailure(w)
  PROVE  CountInv'
<1> DEFINE c == category[w]
           count == failuresByCategory[c] + 1
           abandoned == pc[w] = "rateLimited" \/ FailedTooOften(count)
<1>1. c \in Category /\ c # 0
  BY DEF HandleFailure, TypeOK
<1>2. /\ failuresByCategory[c] \in Nat
      /\ failuresByCategory[c] < MaxCategoryFailures
  <2>1. failuresByCategory[c] \in Nat
    BY <1>1 DEF TypeOK
  <2>2. /\ failuresByCategory[c] <= MaxCategoryFailures
        /\ failuresByCategory[c] # MaxCategoryFailures
    BY <1>1 DEF CountInv, FailuresBounded
  <2>3. QED
    BY <2>1, <2>2, BoundAssumption
<1>3. count <= MaxCategoryFailures /\ (count = MaxCategoryFailures => abandoned)
  BY <1>2, BoundAssumption DEF FailedTooOften
<1>4. /\ \A d \in Category : failuresByCategory'[d] =
            IF d = c THEN count ELSE failuresByCategory[d]
      /\ \A v \in Worker : category'[v] = IF v = w THEN 0 ELSE category[v]
      /\ abandoned => failureCount' > 0 /\ taskQueue' = taskQueue
      /\ failureCount > 0 => failureCount' > 0
      /\ \A t \in taskQueue' : t \in taskQueue \/ t.category = c
  BY DEF HandleFailure, TypeOK
<1>5. \A v \in Worker : category'[v] # c
  BY <1>1, <1>4 DEF OwnerInv, OwnersDistinct
<1>6. \A t \in taskQueue : t.category # c
  BY DEF OwnerInv, QueuedOrOwned
<1> HIDE DEF c, count, abandoned
<1>7. FailuresBounded'
  <2>1. SUFFICES ASSUME NEW d \in Category
                 PROVE  /\ failuresByCategory'[d] <= MaxCategoryFailures
                        /\ failuresByCategory'[d] = MaxCategoryFailures =>
                             /\ failureCount' > 0
                             /\ \A t \in taskQueue' : t.category # d
                             /\ \A v \in Worker : category'[v] # d
    BY DEF FailuresBounded
  <2>2. CASE d = c
    BY <2>2, <1>3, <1>4, <1>5, <1>6
  <2>3. CASE d # c
    <3>1. failuresByCategory'[d] = failuresByCategory[d]
      BY <2>3, <1>4
    <3>2. \A v \in Worker : category[v] # d => category'[v] # d
      BY <1>4 DEF Category
    <3>3. QED
      BY <2>3, <3>1, <3>2, <1>4 DEF CountInv, FailuresBounded
  <2>4. QED
    BY <2>2, <2>3
<1>8. QED
  BY <1>7 DEF CountInv, NoFailuresWhenDown

LEMMA CountNext ==
  TypeOK /\ OwnerInv /\ CountInv /\ [Next]_vars => CountInv'
<1> SUFFICES ASSUME TypeOK, OwnerInv, CountInv, [Next]_vars PROVE CountInv'
  OBVIOUS
<1>1. CASE StartRun
  BY <1>1, BoundAssumption
  DEF StartRun, CountInv, NoFailuresWhenDown, FailuresBounded
<1>2. CASE EndRun \/ ClearLegacyState \/ Crash
  BY <1>2, CountFresh DEF EndRun, ClearLegacyState, Crash
<1>3. CASE ClearProgress \/ UNCHANGED vars
  BY <1>3, CountKept DEF ClearProgress, vars, sharedVars, workerVars
<1>4. ASSUME NEW w \in Worker, run = "working", run' = run,
             WorkerStep(w) \/ RequestFails(w)
      PROVE  CountInv'
  <2>1. CASE HandleFailure(w)
    BY <1>4, <2>1, CountHandleFailure
  <2>2. CASE \E task \in taskQueue : TakeTask(w, task)
    <3>1. PICK task \in taskQueue : TakeTask(w, task)
      BY <2>2
    <3>2. \A v \in Worker : category'[v] = category[v] \/ category'[v] = task.category
      BY <3>1 DEF TakeTask, TypeOK
    <3>3. QED
      BY <1>4, <3>1, <3>2, CountKept DEF TakeTask
  <2>3. CASE LeaveCategory(w)
    <3>1. \A v \in Worker : category'[v] = category[v] \/ category'[v] = 0
      BY <2>3 DEF LeaveCategory, TypeOK
    <3>2. QED
      BY <1>4, <2>3, <3>1, CountKept DEF LeaveCategory, sharedVars
  <2>4. CASE \/ CheckStop(w) \/ FindQueueEmpty(w) \/ Drain(w) \/ SaveErrorEscapes(w)
             \/ ReceivePage(w) \/ SubmitPage(w) \/ RequestFails(w)
    BY <1>4, <2>4, CountKept
    DEF CheckStop, FindQueueEmpty, Drain, SaveErrorEscapes, ReceivePage, SubmitPage,
        RequestFails, sharedVars
  <2>5. QED
    BY <1>4, <2>1, <2>2, <2>3, <2>4 DEF WorkerStep
<1>5. ASSUME NEW w \in Worker, run' = run, SaverStep(w) \/ SaverFault(w),
             UNCHANGED workerVars
      PROVE  CountInv'
  BY <1>5, CountKept
  DEF SaverStep, SaverFault, SavePage, SaveRaises, MarkProgress, MarkProgressRaises,
      sharedVars, workerVars
<1>6. QED
  BY <1>1, <1>2, <1>3, <1>4, <1>5 DEF Next, MainStep, Rest, workerVars

LEMMA CountInvHolds == Spec => []CountInv
  BY CountInit, CountNext, TypeCorrect, OwnerInvHolds, PTL DEF Spec

\* A category that has failed MAX_PARALLEL_CATEGORY_FAILURES times is given up
\* and the run counts it, whichever workers met the failures.
THEOREM FailuresAreBounded == Spec => []FailuresBounded
<1>1. CountInv => FailuresBounded
  BY DEF CountInv
<1>2. QED
  BY <1>1, CountInvHolds, PTL

-----------------------------------------------------------------------------
(* How far a category has come, where the server repeats no cursor: what is  *)
(* recorded of it never lies ahead of the place from which it is fetched     *)
(* on, and in the first run nothing from there on has been saved.            *)

Unfetched(c, k) == \A j \in CursorsOf(c) : j >= k => <<c, j>> \notin handled

\* The first run begins with what Init says.
BeforeFirst ==
    runs = 0 => run = "down" /\ progressFile = NoProgress /\ handled = Covered

\* No writer of the file has an older picture than the one before.
FileBehindMemory ==
    run = "working" =>
        \A c \in Category :
            /\ c \in progressFile.completed => c \in completed
            /\ \/ c \in completed
               \/ Repeats(c)
               \/ inProgress[c] >= progressFile.inProgress[c]

QueuedAhead ==
    \A t \in taskQueue : ~Repeats(t.category) =>
        /\ inProgress[t.category] <= t.after
        /\ runs = 1 => /\ Unfetched(t.category, t.after)
                       /\ inProgress[t.category] \in {None, t.after}

Fetching(w) == pc[w] \in {"request", "await"}

\* The page with the saver lies behind the one being fetched, and is the last
\* only when none is.
SaverBehind(w) ==
    Unsettled(w) =>
        /\ inProgress[category[w]] <= pendingSave[w].cursor
        /\ Fetching(w) => pendingSave[w].cursor < after[w]
        /\ pendingSave[w].after = None => pc[w] = "awaitLast"

UnfetchedAhead(w) ==
    /\ Fetching(w) => Unfetched(category[w], after[w])
    /\ SaveSettled(w) /\ pc[w] # "awaitLast" => Unfetched(category[w], RetryAfter(w))
    /\ pendingSave[w].stage = "saving" =>
            Unfetched(category[w], pendingSave[w].cursor)
    /\ pendingSave[w].stage = "marking" =>
            Unfetched(category[w], pendingSave[w].cursor + 1)

Ordered(w) ==
    InHand(w) /\ ~Repeats(category[w]) =>
        /\ Fetching(w) => inProgress[category[w]] <= after[w]
        /\ SaverBehind(w)
        /\ runs = 1 => UnfetchedAhead(w)

OrderInv ==
    /\ BeforeFirst
    /\ FileBehindMemory
    /\ QueuedAhead
    /\ \A w \in Worker : Ordered(w)

\* Where the server repeats no cursor it goes on by one or ends.
LEMMA GoesOnByOne ==
  ASSUME NEW c \in Category, NEW k \in CursorsOf(c), ~Repeats(c)
  PROVE  Follow[c][k] \in {None, k + 1}
<1>1. k \in Cursor /\ Follow[c][k] \in Cursor /\ Follow[c][k] <= k + 1
  BY FollowAssumption DEF CursorsOf
<1>2. Follow[c][k] \notin 1..k
  BY DEF Repeats
<1>3. QED
  BY <1>1, <1>2, SizeAssumption DEF Cursor, None

LEMMA UnfetchedBehind ==
  ASSUME NEW c, NEW k \in Nat, NEW l \in Nat, k <= l, Unfetched(c, k)
  PROVE  Unfetched(c, l)
<1>1. \A j \in CursorsOf(c) : j \in Nat
  BY SizeAssumption DEF CursorsOf, Cursor
<1>2. QED
  BY <1>1 DEF Unfetched

\* What a worker's claims are about.
LEMMA OrderedKept ==
  ASSUME NEW v \in Worker, Ordered(v), UNCHANGED runs,
         pc'[v] = pc[v], category'[v] = category[v],
         initialAfter'[v] = initialAfter[v], after'[v] = after[v],
         pendingSave'[v] = pendingSave[v],
         InHand(v) => /\ inProgress'[category[v]] = inProgress[category[v]]
                      /\ \A j : <<category[v], j>> \in handled'
                                 => <<category[v], j>> \in handled
  PROVE  Ordered(v)'
<1> SUFFICES ASSUME InHand(v), ~Repeats(category[v])
             PROVE  /\ Fetching(v) => inProgress[category[v]] <= after[v]
                    /\ SaverBehind(v)'
                    /\ runs = 1 => UnfetchedAhead(v)'
  BY DEF Ordered, InHand, Fetching
<1>1. \A k : Unfetched(category[v], k) => Unfetched(category[v], k)'
  BY DEF Unfetched
<1>2. SaverBehind(v)'
  BY DEF Ordered, SaverBehind, Unsettled, Fetching
<1>3. (SaveSettled(v)' <=> SaveSettled(v)) /\ RetryAfter(v)' = RetryAfter(v)
  BY DEF SaveSettled, RetryAfter
<1>4. runs = 1 => UnfetchedAhead(v)'
  BY <1>1, <1>3 DEF Ordered, UnfetchedAhead, Fetching
<1>5. QED
  BY <1>2, <1>4 DEF Ordered

\* A worker's own step saves nothing and records nothing: what is left to look
\* at are its own claims and those of the queue.
LEMMA OrderFrame ==
  ASSUME TypeOK, OrderInv, NEW w \in Worker, WorkerStep(w) \/ RequestFails(w),
         UNCHANGED <<diskVars, run, runs>>,
         Ordered(w)', QueuedAhead'
  PROVE  OrderInv'
<1>1. /\ UNCHANGED <<completed, inProgress, handled, progressFile, run, runs>>
      /\ \A v \in Worker \ {w} :
            /\ pc'[v] = pc[v] /\ category'[v] = category[v]
            /\ initialAfter'[v] = initialAfter[v] /\ after'[v] = after[v]
            /\ pendingSave'[v] = pendingSave[v]
  BY DEF WorkerStep, RequestFails, CheckStop, TakeTask, FindQueueEmpty, Drain,
         HandleFailure, SaveErrorEscapes, ReceivePage, SubmitPage, LeaveCategory,
         GoTo, ForgetSave, TypeOK, diskVars, sharedVars
<1>2. \A v \in Worker : Ordered(v)'
  BY <1>1, OrderedKept DEF OrderInv
<1>3. BeforeFirst' /\ FileBehindMemory'
  BY <1>1 DEF OrderInv, BeforeFirst, FileBehindMemory, Covered, Skips, StartIndex,
              ResumeAfter, diskVars
<1>4. QED
  BY <1>2, <1>3 DEF OrderInv

LEMMA QueueKept ==
  ASSUME QueuedAhead, UNCHANGED <<inProgress, runs, handled>>,
         taskQueue' \subseteq taskQueue
  PROVE  QueuedAhead'
  BY DEF QueuedAhead, Unfetched

LEMMA OrderTake ==
  ASSUME TypeOK, OrderInv, OwnerInv, NEW w \in Worker, NEW task \in taskQueue,
         TakeTask(w, task), UNCHANGED <<diskVars, run, runs>>
  PROVE  Ordered(w)' /\ QueuedAhead'
<1>1. /\ pc'[w] = "request" /\ category'[w] = task.category
      /\ initialAfter'[w] = task.after /\ after'[w] = task.after
      /\ pendingSave' = pendingSave /\ inProgress' = inProgress
      /\ taskQueue' \subseteq taskQueue
      /\ handled' = handled
  BY DEF TypeOK, TakeTask, GoTo, diskVars
<1>2. ~Unsettled(w)
  BY DEF TakeTask, OwnerInv, SavedByOwner, InHand, Collecting, Failing
<1>3. SaverBehind(w)'
  BY <1>1, <1>2 DEF SaverBehind, Unsettled
<1>4. /\ task.category \in Category /\ task.after \in Cursor
      /\ RetryAfter(w)' \in {inProgress[task.category], task.after}
      /\ inProgress[task.category] = None => RetryAfter(w)' = task.after
  BY <1>1 DEF TypeOK, RetryAfter
<1>5. \A k : Unfetched(task.category, k)' <=> Unfetched(task.category, k)
  BY <1>1 DEF Unfetched
<1>6. ASSUME ~Repeats(task.category), runs = 1
      PROVE  UnfetchedAhead(w)'
  <2>1. /\ Unfetched(task.category, task.after)
        /\ inProgress[task.category] \in {None, task.after}
    BY <1>6 DEF OrderInv, QueuedAhead
  <2>2. RetryAfter(w)' = task.after
    BY <1>4, <2>1
  <2>3. QED
    BY <1>1, <1>2, <1>5, <2>1, <2>2 DEF UnfetchedAhead, Unsettled
<1>7. ~Repeats(task.category) => inProgress[task.category] <= task.after
  BY DEF OrderInv, QueuedAhead
<1>8. Ordered(w)'
  BY <1>1, <1>3, <1>6, <1>7 DEF Ordered
<1>9. QED
  BY <1>1, <1>8, QueueKept DEF OrderInv

LEMMA OrderSubmit ==
  ASSUME TypeOK, OrderInv, NEW w \in Worker, SubmitPage(w), UNCHANGED <<handled, runs>>
  PROVE  Ordered(w)'
<1> DEFINE c == category[w]
           k == after[w]
           next == Follow[c][k]
<1>1. /\ pc[w] = "await" /\ SaveSettled(w)
      /\ c \in Category /\ k \in CursorsOf(c) /\ k \in Nat /\ inProgress[c] \in Nat
  <2>1. pc[w] = "await" /\ SaveSettled(w) /\ c \in Category /\ c # 0
    BY DEF SubmitPage, TypeOK, Collecting
  <2>2. k \in CursorsOf(c) /\ k \in Cursor /\ inProgress[c] \in Cursor
    BY <2>1 DEF TypeOK, CursorsFit
  <2>3. QED
    BY <2>1, <2>2, SizeAssumption DEF Cursor
<1>2. /\ category' = category /\ inProgress' = inProgress
      /\ pendingSave'[w] = [stage |-> "saving", category |-> c, cursor |-> k,
                            after |-> next]
      /\ \/ pc'[w] = "awaitLast"
         \/ pc'[w] = "request" /\ after'[w] = next /\ next # None
  BY DEF SubmitPage, GoTo, TypeOK, sharedVars
<1>3. SUFFICES ASSUME ~Repeats(c)
               PROVE  /\ Fetching(w)' => inProgress[c] <= after'[w]
                      /\ SaverBehind(w)'
                      /\ runs = 1 => UnfetchedAhead(w)'
  BY <1>2 DEF Ordered
<1>4. pc'[w] = "request" => after'[w] = k + 1
  BY <1>1, <1>2, <1>3, GoesOnByOne
<1>5. inProgress[c] <= k /\ (runs = 1 => Unfetched(c, k))
  BY <1>1, <1>3 DEF OrderInv, Ordered, InHand, Fetching, UnfetchedAhead, Collecting
<1>6. Fetching(w)' => pc'[w] = "request" /\ k < after'[w] /\ inProgress[c] <= after'[w]
  BY <1>1, <1>2, <1>4, <1>5 DEF Fetching
<1>7. ~SaveSettled(w)'
  BY <1>2 DEF SaveSettled
<1>8. pc'[w] = "request" => next # None
  BY <1>2
<1> HIDE DEF c, k, next
<1>9. SaverBehind(w)'
  BY <1>2, <1>5, <1>6, <1>8 DEF SaverBehind, c
<1>10. ASSUME runs = 1
       PROVE  UnfetchedAhead(w)'
  <2>1. \A d, l : Unfetched(d, l)' <=> Unfetched(d, l)
    BY DEF Unfetched
  <2>2. pc'[w] = "request" => Unfetched(c, after'[w])
    BY <1>1, <1>4, <1>5, <1>10, UnfetchedBehind
  <2>3. QED
    BY <1>2, <1>5, <1>6, <1>7, <1>10, <2>1, <2>2 DEF UnfetchedAhead, c
<1>11. QED
  BY <1>6, <1>9, <1>10

LEMMA OrderHandleFailure ==
  ASSUME TypeOK, OrderInv, NEW w \in Worker, HandleFailure(w), UNCHANGED <<handled, runs>>
  PROVE  Ordered(w)' /\ QueuedAhead'
<1> DEFINE c == category[w]
<1>1. /\ c \in Category /\ InHand(w) /\ SaveSettled(w) /\ pc[w] # "awaitLast"
      /\ initialAfter[w] \in Nat /\ inProgress[c] \in Nat
  BY SizeAssumption DEF HandleFailure, TypeOK, InHand, Failing, Collecting, Cursor
<1>2. pc'[w] = "loop" /\ UNCHANGED inProgress
  BY DEF HandleFailure, GoTo, TypeOK
<1>3. Ordered(w)'
  BY <1>2 DEF Ordered, InHand, Collecting, Failing
<1>4. \A t \in taskQueue' : t \in taskQueue \/ t = [category |-> c, after |-> RetryAfter(w)]
  BY DEF HandleFailure
<1>5. inProgress[c] <= RetryAfter(w) /\ inProgress[c] \in {None, RetryAfter(w)}
  BY <1>1 DEF RetryAfter, None
<1>6. ~Repeats(c) /\ runs = 1 => Unfetched(c, RetryAfter(w))
  BY <1>1 DEF OrderInv, Ordered, UnfetchedAhead
<1> HIDE DEF c
<1>7. QueuedAhead'
  BY <1>2, <1>4, <1>5, <1>6 DEF OrderInv, QueuedAhead, Unfetched
<1>8. QED
  BY <1>3, <1>7

\* A worker that only moves on keeps its claims, unless it begins to fetch.
LEMMA OrderMove ==
  ASSUME TypeOK, OrderInv, NEW w \in Worker, NEW location \in Locations,
         GoTo(w, location), location # "awaitLast",
         \/ location \notin Collecting \cup Failing
         \/ Fetching(w),
         UNCHANGED <<inProgress, handled, runs, category, initialAfter, after, pendingSave>>
  PROVE  Ordered(w)'
<1>1. pc'[w] = location
  BY DEF TypeOK, GoTo
<1>2. CASE location \notin Collecting \cup Failing
  BY <1>1, <1>2 DEF Ordered, InHand
<1>3. CASE Fetching(w)
  <2>1. Ordered(w) /\ InHand(w) /\ pc[w] # "awaitLast"
    BY <1>3 DEF OrderInv, InHand, Fetching, Collecting
  <2>2. \A c, k : Unfetched(c, k)' <=> Unfetched(c, k)
    BY DEF Unfetched
  <2>3. RetryAfter(w)' = RetryAfter(w) /\ (SaveSettled(w)' <=> SaveSettled(w))
    BY DEF RetryAfter, SaveSettled
  <2>4. ~Repeats(category[w]) /\ runs = 1 => UnfetchedAhead(w)'
    BY <1>3, <2>1, <2>2, <2>3 DEF Ordered, UnfetchedAhead
  <2>5. ~Repeats(category[w]) => SaverBehind(w)'
    BY <1>1, <1>3, <2>1 DEF Ordered, SaverBehind, Unsettled
  <2>6. QED
    BY <1>3, <2>1, <2>4, <2>5 DEF Ordered
<1>4. QED
  BY <1>2, <1>3

LEMMA OrderWorker ==
  ASSUME TypeOK, OwnerInv, OrderInv, NEW w \in Worker, WorkerStep(w) \/ RequestFails(w),
         UNCHANGED <<diskVars, run, runs>>
  PROVE  OrderInv'
<1> USE DEF Locations, Collecting, Failing, Fetching, diskVars, sharedVars
<1>1. SUFFICES Ordered(w)' /\ QueuedAhead'
  BY OrderFrame
<1>2. QueuedAhead
  BY DEF OrderInv
<1>3. CASE CheckStop(w)
  <2>1. PICK location \in {"drain", "take"} : GoTo(w, location)
    BY <1>3 DEF CheckStop
  <2>2. QED
    BY <1>2, <1>3, <2>1, OrderMove, QueueKept DEF CheckStop
<1>4. CASE \E task \in taskQueue : TakeTask(w, task)
  BY <1>4, OrderTake
<1>5. CASE FindQueueEmpty(w)
  BY <1>2, <1>5, OrderMove, QueueKept DEF FindQueueEmpty
<1>6. CASE Drain(w)
  BY <1>2, <1>6, OrderMove, QueueKept DEF Drain
<1>7. CASE HandleFailure(w)
  BY <1>7, OrderHandleFailure
<1>8. CASE SaveErrorEscapes(w)
  BY <1>2, <1>8, OrderMove, QueueKept DEF SaveErrorEscapes
<1>9. CASE ReceivePage(w)
  BY <1>2, <1>9, OrderMove, QueueKept DEF ReceivePage
<1>10. CASE SubmitPage(w)
  BY <1>2, <1>10, OrderSubmit, QueueKept DEF SubmitPage
<1>11. CASE LeaveCategory(w)
  <2>1. pc'[w] = "loop"
    BY <1>11 DEF LeaveCategory, GoTo, TypeOK
  <2>2. QED
    BY <1>2, <1>11, <2>1, QueueKept DEF LeaveCategory, Ordered, InHand
<1>12. CASE RequestFails(w)
  <2>1. PICK location \in Failing : GoTo(w, location)
    BY <1>12 DEF RequestFails
  <2>2. QED
    BY <1>2, <1>12, <2>1, OrderMove, QueueKept DEF RequestFails
<1>13. QED
  BY <1>3, <1>4, <1>5, <1>6, <1>7, <1>8, <1>9, <1>10, <1>11, <1>12 DEF WorkerStep

\* With a page saved by worker w, the claims of the others, and of the queue,
\* are about other categories.
LEMMA OthersOrdered ==
  ASSUME TypeOK, OwnerInv, OrderInv, NEW w \in Worker, Unsettled(w),
         UNCHANGED <<workerVars, taskQueue, runs>>,
         \A v \in Worker \ {w} : pendingSave'[v] = pendingSave[v],
         \A d \in Category : d # category[w] => inProgress'[d] = inProgress[d],
         \A d \in Category : d # category[w] =>
            \A j : <<d, j>> \in handled' => <<d, j>> \in handled
  PROVE  (\A v \in Worker \ {w} : Ordered(v)') /\ QueuedAhead'
<1> USE DEF workerVars
<1>1. ASSUME NEW v \in Worker \ {w}
      PROVE  Ordered(v)'
  <2>1. InHand(v) => category[v] \in Category /\ category[v] # category[w]
    BY DEF InHand, TypeOK, OwnerInv, OwnersDistinct
  <2>2. QED
    BY <2>1, OrderedKept DEF OrderInv
<1>2. \A t \in taskQueue : t.category \in Category /\ t.category # category[w]
  BY DEF TypeOK, OwnerInv, QueuedOrOwned
<1>3. \A t \in taskQueue : \A k :
        Unfetched(t.category, k) => Unfetched(t.category, k)'
  BY <1>2 DEF Unfetched
<1>4. QueuedAhead'
  BY <1>2, <1>3 DEF OrderInv, QueuedAhead
<1>5. QED
  BY <1>1, <1>4

\* What a save that runs says of its worker.
LEMMA SaverClaims ==
  ASSUME TypeOK, OwnerInv, NEW w \in Worker, Unsettled(w)
  PROVE  /\ InHand(w)
         /\ pendingSave[w].category = category[w]
         /\ category[w] \in Category
         /\ pendingSave[w].cursor \in CursorsOf(category[w])
         /\ pendingSave[w].cursor \in Nat
         /\ pendingSave[w].after \in Nat
         /\ after[w] \in Nat
         /\ inProgress[category[w]] \in Nat
         /\ ~Repeats(category[w]) =>
                pendingSave[w].after \in {None, pendingSave[w].cursor + 1}
<1>1. InHand(w) /\ pendingSave[w].category = category[w]
  BY DEF OwnerInv, SavedByOwner
<1>2. category[w] \in Category
  BY <1>1 DEF TypeOK, InHand
<1>3. /\ pendingSave[w].cursor \in CursorsOf(category[w])
      /\ pendingSave[w].after = Follow[category[w]][pendingSave[w].cursor]
  BY <1>1, PagePair DEF TypeOK, CursorsFit, Unsettled
<1>4. /\ pendingSave[w].cursor \in Nat /\ pendingSave[w].after \in Nat
      /\ after[w] \in Nat /\ inProgress[category[w]] \in Nat
  BY <1>2, SizeAssumption DEF TypeOK, Cursor
<1>5. QED
  BY <1>1, <1>2, <1>3, <1>4, GoesOnByOne

LEMMA OrderSavePage ==
  ASSUME TypeOK, OwnerInv, OrderInv, NEW w \in Worker, SavePage(w),
         UNCHANGED <<workerVars, run, runs>>, runs # 0
  PROVE  OrderInv'
<1> DEFINE c == category[w]
           k == pendingSave[w].cursor
<1>1. Unsettled(w) /\ pendingSave[w].stage = "saving"
  BY DEF SavePage, Unsettled
<1>2. /\ c \in Category /\ pendingSave[w].category = c /\ InHand(w)
      /\ k \in Nat /\ after[w] \in Nat
  BY <1>1, SaverClaims
<1>3. /\ handled' = handled \cup {<<c, k>>}
      /\ pendingSave'[w].stage = "marking"
      /\ pendingSave'[w].cursor = k /\ pendingSave'[w].after = pendingSave[w].after
      /\ \A v \in Worker \ {w} : pendingSave'[v] = pendingSave[v]
      /\ UNCHANGED <<progressFile, completed, inProgress, taskQueue>>
  BY <1>2 DEF SavePage, SaveStep, TypeOK, sharedVars
<1> HIDE DEF c, k
<1>4. (\A v \in Worker \ {w} : Ordered(v)') /\ QueuedAhead'
  <2>1. \A d \in Category : d # category[w] =>
            \A j : <<d, j>> \in handled' => <<d, j>> \in handled
    BY <1>3 DEF c
  <2>2. QED
    BY <1>1, <1>3, <2>1, OthersOrdered
<1>5. Ordered(w)'
  <2>1. SUFFICES ASSUME ~Repeats(c)
                 PROVE  /\ Fetching(w) => inProgress[c] <= after[w]
                        /\ SaverBehind(w)'
                        /\ runs = 1 => UnfetchedAhead(w)'
    BY <1>3 DEF Ordered, Fetching, InHand, workerVars, c
  <2>2. Ordered(w) /\ Fetching(w) = Fetching(w)' /\ category' = category /\ after' = after
    BY DEF OrderInv, Fetching, workerVars
  <2>3. (Fetching(w) => inProgress[c] <= after[w] /\ k < after[w]) /\ SaverBehind(w)
    BY <1>1, <1>2, <2>1, <2>2 DEF Ordered, SaverBehind, c, k
  <2>4. SaverBehind(w)'
    BY <1>1, <1>3, <2>3 DEF SaverBehind, Unsettled, Fetching, workerVars, k
  <2>5. ASSUME runs = 1
        PROVE  UnfetchedAhead(w)'
    <3>1. Unfetched(c, k)
      BY <1>1, <1>2, <2>1, <2>2, <2>5 DEF Ordered, UnfetchedAhead, c, k
    <3>2. \A l \in Nat : l > k => Unfetched(c, l)'
      <4>1. \A j \in CursorsOf(c) : j \in Nat
        BY SizeAssumption DEF CursorsOf, Cursor
      <4>2. \A l \in Nat : l > k => \A j \in CursorsOf(c) :
                j >= l => <<c, j>> \notin handled'
        BY <1>2, <1>3, <3>1, <4>1 DEF Unfetched
      <4>3. c' = c
        BY <2>2 DEF c
      <4>4. QED
        BY <4>2, <4>3 DEF Unfetched
    <3>3. c' = c /\ category'[w] = c
      BY <2>2 DEF c
    <3>4. ~SaveSettled(w)'
      BY <1>3 DEF SaveSettled
    <3>5. Fetching(w)' => Unfetched(c, after[w])'
      BY <1>2, <2>2, <2>3, <3>2
    <3>6. Unfetched(c, k + 1)'
      BY <1>2, <1>3, <3>2 DEF k
    <3>7. QED
      BY <1>3, <2>2, <3>3, <3>4, <3>5, <3>6 DEF UnfetchedAhead, c, k
  <2>6. QED
    BY <2>3, <2>4, <2>5
<1>6. BeforeFirst' /\ FileBehindMemory'
  BY <1>3 DEF OrderInv, BeforeFirst, FileBehindMemory
<1>7. QED
  BY <1>4, <1>5, <1>6 DEF OrderInv

\* Both savers' writes of a category move its record on, and the file's picture
\* stays behind the one in memory.
LEMMA MarkMovesOn ==
  ASSUME TypeOK, OwnerInv, OrderInv, NEW w \in Worker, run = "working",
         MarkProgress(w) \/ MarkProgressRaises(w)
  PROVE  \A d \in Category :
           /\ d \in progressFile.completed => d \in completed'
           /\ \/ d \in completed'
              \/ Repeats(d)
              \/ inProgress'[d] >= progressFile.inProgress[d]
<1> DEFINE c == category[w]
           next == pendingSave[w].after
<1>1. Unsettled(w)
  BY DEF MarkProgress, MarkProgressRaises, Unsettled
<1>2. /\ c \in Category /\ pendingSave[w].category = c /\ InHand(w)
      /\ pendingSave[w].cursor \in Nat /\ next \in Nat /\ inProgress[c] \in Nat
      /\ ~Repeats(c) => next \in {None, pendingSave[w].cursor + 1}
  BY <1>1, SaverClaims
<1>3. /\ completed \subseteq completed'
      /\ next = None => c \in completed'
      /\ \A d \in Category : inProgress'[d] = IF d = c THEN next ELSE inProgress[d]
  BY <1>2 DEF MarkProgress, MarkProgressRaises, RecordInMemory, TypeOK, None
<1> HIDE DEF c, next
<1>4. SUFFICES ASSUME NEW d \in Category
               PROVE  /\ d \in progressFile.completed => d \in completed'
                      /\ \/ d \in completed'
                         \/ Repeats(d)
                         \/ inProgress'[d] >= progressFile.inProgress[d]
  OBVIOUS
<1>5. /\ d \in progressFile.completed => d \in completed
      /\ \/ d \in completed
         \/ Repeats(d)
         \/ inProgress[d] >= progressFile.inProgress[d]
  BY DEF OrderInv, FileBehindMemory
<1>6. CASE d # c
  BY <1>3, <1>5, <1>6
<1>7. CASE d = c
  <2>1. progressFile.inProgress[c] \in Nat
    BY <1>2, SizeAssumption DEF TypeOK, Progress, Cursor
  <2>2. ~Repeats(c) => inProgress[c] <= pendingSave[w].cursor
    BY <1>1, <1>2 DEF OrderInv, Ordered, SaverBehind, c
  <2>3. next = None \/ Repeats(c) \/ next >= inProgress[c]
    BY <1>2, <2>2
  <2>4. QED
    BY <1>2, <1>3, <1>5, <1>7, <2>1, <2>3
<1>8. QED
  BY <1>6, <1>7

\* mark_progress, whether or not the file can be written afterwards: the
\* category is recorded up to the page behind the one just saved.
LEMMA OrderMark ==
  ASSUME TypeOK, OwnerInv, OrderInv, NEW w \in Worker, run = "working",
         MarkProgress(w) \/ MarkProgressRaises(w),
         UNCHANGED <<workerVars, run, runs>>, runs # 0
  PROVE  OrderInv'
<1> DEFINE c == category[w]
           k == pendingSave[w].cursor
           next == pendingSave[w].after
<1>1. Unsettled(w) /\ pendingSave[w].stage = "marking"
  BY DEF MarkProgress, MarkProgressRaises, Unsettled
<1>2. /\ c \in Category /\ pendingSave[w].category = c /\ InHand(w)
      /\ k \in Nat /\ after[w] \in Nat /\ next \in Nat /\ inProgress[c] \in Nat
      /\ ~Repeats(c) => next \in {None, k + 1}
  BY <1>1, SaverClaims
<1>3. /\ handled' = handled /\ taskQueue' = taskQueue
      /\ pendingSave'[w].stage \in {"returned", "failed"}
      /\ \A v \in Worker \ {w} : pendingSave'[v] = pendingSave[v]
  BY DEF MarkProgress, MarkProgressRaises, SaveStep, TypeOK, diskVars
<1>4. /\ completed \subseteq completed'
      /\ next = None => c \in completed'
      /\ \A d \in Category : inProgress'[d] = IF d = c THEN next ELSE inProgress[d]
  BY <1>2 DEF MarkProgress, MarkProgressRaises, RecordInMemory, TypeOK, None
<1>5. \/ progressFile' = progressFile
      \/ progressFile' = [completed |-> completed', inProgress |-> inProgress']
  BY DEF MarkProgress, MarkProgressRaises, diskVars
<1> HIDE DEF c, k, next
<1>6. (\A v \in Worker \ {w} : Ordered(v)') /\ QueuedAhead'
  <2>1. \A d \in Category : d # category[w] => inProgress'[d] = inProgress[d]
    BY <1>4 DEF c
  <2>2. QED
    BY <1>1, <1>3, <2>1, OthersOrdered
<1>7. Ordered(w)
  BY DEF OrderInv
<1>8. ~Repeats(c) =>
        /\ inProgress[c] <= k
        /\ Fetching(w) => k < after[w]
        /\ next = None => pc[w] = "awaitLast"
  BY <1>1, <1>2, <1>7 DEF Ordered, SaverBehind, c, k, next
<1>9. Ordered(w)'
  <2>1. /\ c' = c /\ category'[w] = c /\ inProgress'[c] = next
        /\ (Fetching(w)' <=> Fetching(w)) /\ after' = after /\ pc' = pc
    BY <1>2, <1>4 DEF c, Fetching, workerVars
  <2>2. SUFFICES ASSUME ~Repeats(c)
                 PROVE  /\ Fetching(w) => next <= after[w]
                        /\ SaverBehind(w)'
                        /\ runs = 1 => UnfetchedAhead(w)'
    BY <2>1 DEF Ordered
  <2>3. Fetching(w) => next <= after[w]
    BY <1>2, <1>8, <2>2 DEF None
  <2>4. SaverBehind(w)'
    BY <1>3 DEF SaverBehind, Unsettled
  <2>5. ASSUME runs = 1
        PROVE  UnfetchedAhead(w)'
    <3>1. \A d, l : Unfetched(d, l)' <=> Unfetched(d, l)
      BY <1>3 DEF Unfetched
    <3>2. Unfetched(c, k + 1) /\ (Fetching(w) => Unfetched(c, after[w]))
      BY <1>1, <1>2, <1>7, <2>2, <2>5 DEF Ordered, UnfetchedAhead, c, k
    <3>3. pc[w] # "awaitLast" => next = k + 1 /\ next # None /\ RetryAfter(w)' = next
      BY <1>2, <1>8, <2>1, <2>2 DEF RetryAfter
    <3>4. QED
      BY <1>3, <2>1, <3>1, <3>2, <3>3 DEF UnfetchedAhead
  <2>6. QED
    BY <2>3, <2>4, <2>5
<1>10. FileBehindMemory'
  <2>1. CASE progressFile' = progressFile
    BY <2>1, MarkMovesOn DEF FileBehindMemory
  <2>2. CASE progressFile' = [completed |-> completed', inProgress |-> inProgress']
    <3>1. \A d \in Category : inProgress'[d] \in Nat
      BY <1>2, <1>4, SizeAssumption DEF TypeOK, Cursor
    <3>2. QED
      BY <2>2, <3>1 DEF FileBehindMemory
  <2>3. QED
    BY <1>5, <2>1, <2>2
<1>11. QED
  BY <1>6, <1>9, <1>10 DEF OrderInv, BeforeFirst

LEMMA OrderSaverFails ==
  ASSUME TypeOK, OwnerInv, OrderInv, NEW w \in Worker, SaveRaises(w),
         UNCHANGED <<workerVars, run, runs>>, runs # 0
  PROVE  OrderInv'
<1>1. Unsettled(w)
  BY DEF SaveRaises, Unsettled
<1>2. /\ UNCHANGED <<handled, taskQueue, inProgress, completed, progressFile>>
      /\ pendingSave'[w].stage = "failed"
      /\ \A v \in Worker \ {w} : pendingSave'[v] = pendingSave[v]
  BY DEF SaveRaises, SaveStep, TypeOK, diskVars, sharedVars
<1>3. (\A v \in Worker \ {w} : Ordered(v)') /\ QueuedAhead'
  BY <1>1, <1>2, OthersOrdered
<1>4. Ordered(w)'
  <2>1. SaverBehind(w)' /\ ~SaveSettled(w)'
    BY <1>2 DEF SaverBehind, SaveSettled, Unsettled
  <2>2. \A c, k : Unfetched(c, k)' <=> Unfetched(c, k)
    BY <1>2 DEF Unfetched
  <2>3. Ordered(w) /\ UNCHANGED <<pc, category, after, runs, inProgress>>
    BY <1>2 DEF OrderInv, workerVars
  <2>4. QED
    BY <1>2, <2>1, <2>2, <2>3 DEF Ordered, UnfetchedAhead, InHand, Fetching
<1>5. QED
  BY <1>2, <1>3, <1>4 DEF OrderInv, BeforeFirst, FileBehindMemory

LEMMA OrderFresh ==
  ASSUME LoseMemory, run' # "working", runs # 0, runs' = runs
  PROVE  OrderInv'
<1>1. \A w \in Worker : pc'[w] = "loop"
  BY DEF LoseMemory
<1>2. \A w \in Worker : Ordered(w)'
  BY <1>1 DEF Ordered, InHand, Collecting, Failing
<1>3. QED
  BY <1>2 DEF LoseMemory, OrderInv, BeforeFirst, FileBehindMemory, QueuedAhead

LEMMA OrderInit == Init => OrderInv
<1> SUFFICES ASSUME Init PROVE OrderInv
  OBVIOUS
<1>1. \A w \in Worker : Ordered(w)
  BY DEF Init, MemoryIsFresh, Ordered, InHand, Collecting, Failing
<1>2. QED
  BY <1>1 DEF Init, MemoryIsFresh, OrderInv, BeforeFirst, FileBehindMemory, QueuedAhead

\* A run goes on from the file, the first one from what Init has covered.
LEMMA OrderStart == TypeOK /\ ClearedInv /\ OrderInv /\ StartRun => OrderInv'
<1> SUFFICES ASSUME TypeOK, ClearedInv, OrderInv, StartRun PROVE OrderInv'
  OBVIOUS
<1>1. /\ completed' = progressFile.completed
      /\ inProgress' = progressFile.inProgress
      /\ taskQueue' = InitialQueue
      /\ UNCHANGED <<progressFile, legacyState, handled>>
      /\ runs' = runs + 1 /\ runs \in Nat
      /\ UNCHANGED <<pc, category>>
  BY DEF StartRun, diskVars, workerVars, TypeOK
<1>2. \A c \in Category : progressFile.inProgress[c] \in Nat
  BY SizeAssumption DEF TypeOK, Progress, Cursor
<1>3. FileBehindMemory'
  BY <1>1, <1>2 DEF FileBehindMemory
<1>4. \A w \in Worker : Ordered(w)'
  BY <1>1 DEF StartRun, ClearedInv, ReadyWhenDown, Ordered, InHand, Collecting, Failing
<1>5. ASSUME NEW t \in taskQueue'
      PROVE  /\ inProgress'[t.category] <= t.after
             /\ runs' = 1 => /\ Unfetched(t.category, t.after)'
                             /\ inProgress'[t.category] \in {None, t.after}
  <2>1. PICK c \in Category : /\ t = [category |-> c, after |-> ResumeAfter(c)]
                              /\ c >= StartIndex(progressFile.completed)
                              /\ c \notin progressFile.completed
    BY <1>1 DEF InitialQueue
  <2>2. ResumeAfter(c) \in Nat
    BY <1>2, SizeAssumption DEF ResumeAfter, TypeOK, Cursor, None
  <2>3. /\ inProgress'[c] <= ResumeAfter(c)
        /\ inProgress'[c] \in {None, ResumeAfter(c)}
    BY <1>1, <1>2, <2>2 DEF ResumeAfter, None
  <2>4. ASSUME runs' = 1
        PROVE  Unfetched(c, ResumeAfter(c))'
    <3>1. handled = Covered
      BY <1>1, <2>4 DEF OrderInv, BeforeFirst
    <3>2. StartIndex(progressFile.completed) \in Nat
      BY SizeAssumption DEF StartIndex, StartAt, Category
    <3>3. \A j \in CursorsOf(c) : j >= ResumeAfter(c) => <<c, j>> \notin handled
      <4>1. \A j \in CursorsOf(c) : j \in Nat
        BY SizeAssumption DEF CursorsOf, Cursor
      <4>2. \A j \in CursorsOf(c) : j >= ResumeAfter(c) => ~Skips(c, j)
        BY <2>1, <2>2, <3>2, <4>1 DEF Skips, Category
      <4>3. QED
        BY <3>1, <4>2 DEF Covered
    <3>4. ResumeAfter(c)' = ResumeAfter(c)
      BY <1>1 DEF ResumeAfter
    <3>5. QED
      BY <1>1, <3>3, <3>4 DEF Unfetched
  <2>5. Unfetched(c, ResumeAfter(c))' <=> Unfetched(t.category, t.after)'
    <3>1. ResumeAfter(c)' = ResumeAfter(c)
      BY <1>1 DEF ResumeAfter
    <3>2. QED
      BY <2>1, <3>1 DEF Unfetched
  <2>6. QED
    BY <2>1, <2>3, <2>4, <2>5
<1>6. QueuedAhead'
  BY <1>5 DEF QueuedAhead
<1>7. QED
  BY <1>1, <1>3, <1>4, <1>6 DEF OrderInv, BeforeFirst

LEMMA OrderNext ==
  TypeOK /\ ClearedInv /\ OwnerInv /\ OrderInv /\ [Next]_vars => OrderInv'
<1> SUFFICES ASSUME TypeOK, ClearedInv, OwnerInv, OrderInv, [Next]_vars PROVE OrderInv'
  OBVIOUS
<1>1. CASE StartRun
  BY <1>1, OrderStart
<1>2. run # "down" => runs # 0
  BY DEF OrderInv, BeforeFirst
<1>3. CASE EndRun \/ ClearLegacyState \/ Crash
  BY <1>2, <1>3, OrderFresh DEF EndRun, ClearLegacyState, Crash
<1>4. CASE ClearProgress
  <2>1. \A w \in Worker : Ordered(w)'
    BY <1>4 DEF ClearProgress, workerVars, Ordered, InHand, Collecting, Failing
  <2>2. /\ UNCHANGED <<taskQueue, inProgress, handled, runs>>
        /\ run # "down" /\ run' = "clearing"
    BY <1>4 DEF ClearProgress, sharedVars
  <2>3. QueuedAhead'
    BY <2>2, QueueKept DEF OrderInv
  <2>4. QED
    BY <1>2, <2>1, <2>2, <2>3 DEF OrderInv, BeforeFirst, FileBehindMemory
<1>5. ASSUME NEW w \in Worker, WorkerStep(w) \/ RequestFails(w),
             UNCHANGED <<diskVars, run, runs>>
      PROVE  OrderInv'
  BY <1>5, OrderWorker
<1>6. ASSUME NEW w \in Worker, run = "working", SaverStep(w) \/ SaverFault(w),
             UNCHANGED <<run, workerVars, runs>>
      PROVE  OrderInv'
  BY <1>2, <1>6, OrderSavePage, OrderMark, OrderSaverFails DEF SaverStep, SaverFault
<1>7. CASE UNCHANGED vars
  <2>1. /\ UNCHANGED <<progressFile, legacyState, handled, run, completed, inProgress>>
        /\ UNCHANGED <<taskQueue, pc, category, initialAfter, after, pendingSave, runs>>
    BY <1>7 DEF vars, diskVars, sharedVars, workerVars
  <2>2. \A w \in Worker : Ordered(w)'
    BY <2>1, OrderedKept DEF OrderInv
  <2>3. QueuedAhead' /\ FileBehindMemory'
    BY <2>1, QueueKept DEF OrderInv, FileBehindMemory
  <2>4. BeforeFirst'
    BY <2>1 DEF OrderInv, BeforeFirst, Covered, Skips, StartIndex, ResumeAfter
  <2>5. QED
    BY <2>2, <2>3, <2>4 DEF OrderInv
<1>8. QED
  BY <1>1, <1>3, <1>4, <1>5, <1>6, <1>7 DEF Next, MainStep, Rest

LEMMA OrderInvHolds == Spec => []OrderInv
  BY OrderInit, OrderNext, TypeCorrect, ClearedInvHolds, OwnerInvHolds, PTL DEF Spec

\* The first run saves no page twice where the server repeats no cursor: a
\* category that failed goes on behind its last saved page.
THEOREM EachPageSavedOnce == Spec => []NoPageSavedTwice
<1>1. TypeOK /\ OwnerInv /\ OrderInv => NoPageSavedTwice
  <2> SUFFICES ASSUME TypeOK, OwnerInv, OrderInv, NEW w \in Worker, runs = 1,
                      pendingSave[w].stage = "saving",
                      ~Repeats(pendingSave[w].category)
               PROVE  <<pendingSave[w].category, pendingSave[w].cursor>> \notin handled
    BY DEF NoPageSavedTwice
  <2>1. Unsettled(w)
    BY DEF Unsettled
  <2>2. /\ InHand(w) /\ pendingSave[w].category = category[w]
        /\ pendingSave[w].cursor \in CursorsOf(category[w])
        /\ pendingSave[w].cursor \in Nat
    BY <2>1, SaverClaims
  <2>3. Unfetched(category[w], pendingSave[w].cursor)
    BY <2>2 DEF OrderInv, Ordered, UnfetchedAhead
  <2>4. QED
    BY <2>2, <2>3 DEF Unfetched
<1>2. QED
  BY <1>1, TypeCorrect, OwnerInvHolds, OrderInvHolds, PTL

\* What the progress file records of a category only grows until the file is
\* removed: no saver replaces it with an older picture.
THEOREM ProgressOnlyGrows == Spec => ProgressKept
<1> DEFINE Kept == \A c \in Category :
                     /\ c \in progressFile.completed => c \in progressFile'.completed
                     /\ \/ c \in progressFile'.completed
                        \/ Repeats(c)
                        \/ progressFile'.inProgress[c] >= progressFile.inProgress[c]
<1>1. ASSUME TypeOK, OwnerInv, OrderInv, [Next]_vars, run' # "clearing"
      PROVE  Kept
  <2>1. \A c \in Category : progressFile.inProgress[c] \in Nat
    BY <1>1, SizeAssumption DEF TypeOK, Progress, Cursor
  <2>2. CASE progressFile' = progressFile
    <3>1. \A c \in Category : progressFile'.inProgress[c] >= progressFile.inProgress[c]
      BY <2>1, <2>2
    <3>2. QED
      BY <2>2, <3>1
  <2>3. ASSUME NEW w \in Worker, run = "working", MarkProgress(w)
        PROVE  Kept
    <3>1. progressFile' = [completed |-> completed', inProgress |-> inProgress']
      BY <2>3 DEF MarkProgress
    <3>2. QED
      BY <1>1, <2>3, <3>1, MarkMovesOn
  <2> HIDE DEF Kept
  <2>4. CASE MainStep \/ Crash \/ Rest \/ UNCHANGED vars
    <3>1. progressFile' = progressFile
      BY <1>1, <2>4 DEF MainStep, StartRun, EndRun, ClearProgress, ClearLegacyState,
                        Crash, Rest, vars, diskVars
    <3>2. QED
      BY <2>2, <3>1
  <2>5. ASSUME NEW w \in Worker, SavePage(w) \/ SaveRaises(w) \/ MarkProgressRaises(w)
        PROVE  Kept
    BY <2>2, <2>5 DEF SavePage, SaveRaises, MarkProgressRaises, diskVars
  <2>6. CASE UNCHANGED diskVars
    BY <2>2, <2>6 DEF diskVars
  <2>7. QED
    BY <1>1, <2>3, <2>4, <2>5, <2>6 DEF Next, SaverStep, SaverFault
<1>2. QED
  BY <1>1, TypeCorrect, OwnerInvHolds, OrderInvHolds, PTL DEF Spec, ProgressKept
=============================================================================
