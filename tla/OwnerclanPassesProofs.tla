------------------------ MODULE OwnerclanPassesProofs ------------------------
(***************************************************************************)
(* Proofs about OwnerclanPasses, for every number of passes, workers,      *)
(* categories, cursors, faults and limited runs.  What each collection     *)
(* keeps by itself is taken from its own proofs; what is shown here is     *)
(* that neither disturbs the other, over the files and the saved pages     *)
(* that they share.                                                        *)
(***************************************************************************)
EXTENDS OwnerclanPasses, TLAPS

P == INSTANCE OwnerclanParallelProofs

S == INSTANCE OwnerclanSequentialProofs
    WITH run <- seqRun, options <- seqOptions, pc <- seqPc,
         category <- seqCategory, after <- seqAfter,
         seenCursors <- seqSeenCursors, resume <- seqResume,
         limitReached <- seqLimitReached, pendingSave <- seqPendingSave,
         faults <- seqFaults, limitedRuns <- seqLimitedRuns

-----------------------------------------------------------------------------
(* The two collections are those that their proofs are about. *)

LEMMA SameParallel ==
  /\ Parallel!Init <=> P!Init
  /\ Parallel!Next <=> P!Next
  /\ Parallel!ResumePointBehindSaves <=> P!ResumePointBehindSaves
  /\ Parallel!NoProgress = P!NoProgress
  BY Zenon
  DEF Parallel!None, P!None, Parallel!Category, P!Category, Parallel!Cursor, P!Cursor,
      Parallel!CursorsOf, P!CursorsOf, Parallel!Page, P!Page, Parallel!NoLegacy,
      P!NoLegacy, Parallel!StartAt, P!StartAt, Parallel!NoSave, P!NoSave,
      Parallel!Failing, P!Failing, Parallel!diskVars, P!diskVars, Parallel!sharedVars,
      P!sharedVars, Parallel!workerVars, P!workerVars, Parallel!vars, P!vars,
      Parallel!NoProgress, P!NoProgress, Parallel!StartIndex, P!StartIndex,
      Parallel!ResumeAfter, P!ResumeAfter, Parallel!Skips, P!Skips, Parallel!Covered,
      P!Covered, Parallel!InitialQueue, P!InitialQueue, Parallel!MemoryIsFresh,
      P!MemoryIsFresh, Parallel!LoseMemory, P!LoseMemory, Parallel!Init, P!Init,
      Parallel!StartRun, P!StartRun, Parallel!WorkersGone, P!WorkersGone,
      Parallel!EndRun, P!EndRun, Parallel!ClearProgress, P!ClearProgress,
      Parallel!ClearLegacyState, P!ClearLegacyState, Parallel!Rest, P!Rest,
      Parallel!Fault, P!Fault, Parallel!Crash, P!Crash, Parallel!GoTo, P!GoTo,
      Parallel!SaveSettled, P!SaveSettled, Parallel!ForgetSave, P!ForgetSave,
      Parallel!CheckStop, P!CheckStop, Parallel!TakeTask, P!TakeTask,
      Parallel!FindQueueEmpty, P!FindQueueEmpty, Parallel!Drain, P!Drain,
      Parallel!FailedTooOften, P!FailedTooOften, Parallel!RetryAfter, P!RetryAfter,
      Parallel!HandleFailure, P!HandleFailure, Parallel!SaveErrorEscapes,
      P!SaveErrorEscapes, Parallel!ReceivePage, P!ReceivePage, Parallel!RequestFails,
      P!RequestFails, Parallel!Repeated, P!Repeated, Parallel!SubmitPage,
      P!SubmitPage, Parallel!LeaveCategory, P!LeaveCategory, Parallel!SaveStep,
      P!SaveStep, Parallel!SavePage, P!SavePage, Parallel!SaveRaises, P!SaveRaises,
      Parallel!RecordInMemory, P!RecordInMemory, Parallel!MarkProgress,
      P!MarkProgress, Parallel!MarkProgressRaises, P!MarkProgressRaises,
      Parallel!WorkerStep, P!WorkerStep, Parallel!SaverStep, P!SaverStep,
      Parallel!SaverFault, P!SaverFault, Parallel!MainStep, P!MainStep, Parallel!Next,
      P!Next, Parallel!ResumePointBehindSaves, P!ResumePointBehindSaves

LEMMA SameSequential ==
  /\ Sequential!Init <=> S!Init
  /\ Sequential!Next <=> S!Next
  /\ Sequential!ResumePointBehindSaves <=> S!ResumePointBehindSaves
  BY Zenon
  DEF Sequential!None, S!None, Sequential!Category, S!Category, Sequential!Cursor,
      S!Cursor, Sequential!CursorsOf, S!CursorsOf, Sequential!Page, S!Page,
      Sequential!NoLegacy, S!NoLegacy, Sequential!StartAt, S!StartAt,
      Sequential!Options, S!Options, Sequential!FullRun, S!FullRun, Sequential!NoSave,
      S!NoSave, Sequential!diskVars, S!diskVars, Sequential!loopVars, S!loopVars,
      Sequential!vars, S!vars, Sequential!Skips, S!Skips, Sequential!Covered,
      S!Covered, Sequential!MemoryIsFresh, S!MemoryIsFresh, Sequential!LoseMemory,
      S!LoseMemory, Sequential!Init, S!Init, Sequential!StartRun, S!StartRun,
      Sequential!StartFullRun, S!StartFullRun, Sequential!StartLimitedRun,
      S!StartLimitedRun, Sequential!Fault, S!Fault, Sequential!Crash, S!Crash,
      Sequential!SaveSettled, S!SaveSettled, Sequential!GoTo, S!GoTo,
      Sequential!EnterCategory, S!EnterCategory, Sequential!ReceivePage,
      S!ReceivePage, Sequential!RequestFails, S!RequestFails,
      Sequential!WriteStateFile, S!WriteStateFile, Sequential!ReturnFailure,
      S!ReturnFailure, Sequential!ErrorEscapes, S!ErrorEscapes, Sequential!Repeated,
      S!Repeated, Sequential!NextCategory, S!NextCategory, Sequential!StateAfterSave,
      S!StateAfterSave, Sequential!SubmitPage, S!SubmitPage, Sequential!LeaveCategory,
      S!LeaveCategory, Sequential!KeepsNothing, S!KeepsNothing, Sequential!EndRun,
      S!EndRun, Sequential!SaveStep, S!SaveStep, Sequential!SavePage, S!SavePage,
      Sequential!SaveRaises, S!SaveRaises, Sequential!SaveState, S!SaveState,
      Sequential!Rest, S!Rest, Sequential!LoopStep, S!LoopStep, Sequential!SaverStep,
      S!SaverStep, Sequential!Next, S!Next, Sequential!ResumePointBehindSaves,
      S!ResumePointBehindSaves

LEMMA SameCatalogue ==
  /\ P!Page = Page /\ S!Page = Page
  /\ P!NoLegacy = NoLegacy /\ S!NoLegacy = NoLegacy
  BY Zenon
  DEF Page, P!Page, S!Page, CursorsOf, P!CursorsOf, S!CursorsOf, Cursor, P!Cursor,
      S!Cursor, Category, P!Category, S!Category, NoLegacy, P!NoLegacy, S!NoLegacy,
      None, P!None, S!None

-----------------------------------------------------------------------------
(* What each collection keeps. *)

ParallelInv ==
    P!TypeOK /\ P!SavedInv /\ P!ClearedInv /\ P!FreshBetweenRuns /\ P!FilesGone

SequentialInv ==
    S!TypeOK /\ S!MemoryFits /\ S!SavedInv /\ S!WholeWhenFinished

LEMMA ParallelStart == P!Init => ParallelInv
<1> USE SizeAssumption, FollowAssumption, PassAssumption
    DEF Category, Cursor, P!Category, P!Cursor
<1>1. P!Init => P!TypeOK
  BY P!TypeInit, Zenon
<1>2. P!Init => P!SavedInv
  BY P!SavedInit, Zenon
<1>3. P!Init => P!ClearedInv
  BY P!ClearedInit, Zenon
<1>4. P!Init => P!FreshBetweenRuns /\ P!FilesGone
  BY DEF P!Init, P!FreshBetweenRuns, P!FilesGone
<1>5. QED
  BY <1>1, <1>2, <1>3, <1>4, Zenon DEF ParallelInv

LEMMA ParallelNext == ParallelInv /\ [P!Next]_P!vars => ParallelInv'
<1> USE SizeAssumption, FollowAssumption, PassAssumption
    DEF Category, Cursor, P!Category, P!Cursor
<1>1. P!TypeOK /\ [P!Next]_P!vars => P!TypeOK'
  BY P!TypeStep, Zenon
<1>2. P!TypeOK /\ P!SavedInv /\ [P!Next]_P!vars => P!SavedInv'
  BY P!SavedNext, Zenon
<1>3. P!TypeOK /\ P!SavedInv /\ P!ClearedInv /\ [P!Next]_P!vars => P!ClearedInv'
  BY P!ClearedNext, Zenon
<1>4. P!FreshBetweenRuns /\ [P!Next]_P!vars => P!FreshBetweenRuns'
  BY P!FreshNext, Zenon
<1>5. P!TypeOK /\ P!FilesGone /\ [P!Next]_P!vars => P!FilesGone'
  BY P!FilesGoneNext, Zenon
<1>6. QED
  BY <1>1, <1>2, <1>3, <1>4, <1>5, Zenon DEF ParallelInv

LEMMA SequentialStart == S!Init => SequentialInv
<1> USE SizeAssumption, FollowAssumption, PassAssumption
    DEF Category, Cursor, S!Category, S!Cursor
<1>1. S!Init => S!TypeOK /\ S!MemoryFits
  BY S!TypeInit, Zenon
<1>2. S!Init => S!SavedInv
  BY S!SavedInit, Zenon
<1>3. S!Init => S!WholeWhenFinished
  BY DEF S!Init, S!WholeWhenFinished
<1>4. QED
  BY <1>1, <1>2, <1>3, Zenon DEF SequentialInv

LEMMA SequentialNext == SequentialInv /\ [S!Next]_S!vars => SequentialInv'
<1> USE SizeAssumption, FollowAssumption, PassAssumption
    DEF Category, Cursor, S!Category, S!Cursor
<1>1. S!TypeOK /\ S!MemoryFits /\ [S!Next]_S!vars => S!TypeOK' /\ S!MemoryFits'
  BY S!TypeNext, Zenon
<1>2. S!TypeOK /\ S!MemoryFits /\ S!SavedInv /\ [S!Next]_S!vars => S!SavedInv'
  BY S!SavedNext, Zenon
<1>3. S!SavedInv /\ S!WholeWhenFinished /\ [S!Next]_S!vars => S!WholeWhenFinished'
  BY S!WholeNext, Zenon
<1>4. QED
  BY <1>1, <1>2, <1>3, Zenon DEF SequentialInv

-----------------------------------------------------------------------------
(* A step of one collection keeps what is known of the other. *)

LEMMA ParallelGrows ==
  P!Next => handled \subseteq handled' /\ legacyState' \in {legacyState, NoLegacy}
<1>1. P!MainStep \/ P!Crash \/ P!Rest =>
        handled' = handled /\ legacyState' \in {legacyState, NoLegacy}
  BY SameCatalogue
  DEF P!MainStep, P!StartRun, P!EndRun, P!ClearProgress, P!ClearLegacyState, P!Crash, P!Rest,
      P!vars, P!diskVars
<1>2. ASSUME NEW w \in Worker, P!SaverStep(w) \/ P!SaverFault(w)
      PROVE  handled \subseteq handled' /\ legacyState' = legacyState
  BY <1>2 DEF P!SaverStep, P!SaverFault, P!SavePage, P!MarkProgress, P!SaveRaises,
     P!MarkProgressRaises, P!diskVars
<1>3. QED
  BY <1>1, <1>2 DEF P!Next, P!diskVars

LEMMA SequentialGrows == S!Next => handled \subseteq handled'
  BY DEF S!Next, S!StartFullRun, S!StartLimitedRun, S!StartRun, S!Crash, S!Rest, S!LoopStep,
     S!SaverStep, S!EnterCategory, S!ReceivePage, S!ReturnFailure, S!ErrorEscapes,
     S!SubmitPage, S!LeaveCategory, S!EndRun, S!RequestFails, S!SavePage, S!SaveState,
     S!SaveRaises, S!vars, S!diskVars

seqMemory == <<seqOptions, seqPc, seqCategory, seqAfter, seqSeenCursors, seqResume,
               seqLimitReached, seqPendingSave, seqFaults, seqLimitedRuns>>

\* A sequential run that is not going on has forgotten everything, and is content
\* with any state file that the saved pages are behind.
LEMMA SequentialRests ==
  ASSUME SequentialInv, seqRun # "working", seqRun' = "down", UNCHANGED seqMemory,
         handled' \subseteq Page, legacyState' \in {legacyState, NoLegacy},
         handled \subseteq handled' \/ legacyState' = NoLegacy
  PROVE  SequentialInv'
<1> USE SizeAssumption, FollowAssumption, PassAssumption
<1>1. S!TypeOK /\ S!MemoryFits /\ S!SavedInv
  BY DEF SequentialInv
<1>2. S!MemoryIsFresh
  BY <1>1 DEF S!MemoryFits
<1>3. S!LoseMemory
  BY <1>2, Zenon DEF S!MemoryIsFresh, S!LoseMemory, seqMemory
<1>4. NoLegacy \in S!LegacyState /\ S!Before(NoLegacy) = {}
  <2>1. S!NoLegacy \in S!LegacyState
    BY S!NoLegacyFits, Zenon DEF Category, Cursor, S!Category, S!Cursor
  <2>2. S!Before(S!NoLegacy) = {}
    BY S!NothingBefore, Zenon DEF Category, Cursor, S!Category, S!Cursor
  <2>3. QED
    BY <2>1, <2>2, SameCatalogue
<1>5. S!TypeOK'
  <2>1. legacyState' \in S!LegacyState /\ handled' \in SUBSET S!Page
    BY <1>1, <1>4, SameCatalogue DEF S!TypeOK
  <2>2. IF legacyState'.category = 0 THEN legacyState' = S!NoLegacy
        ELSE legacyState'.after \in S!CursorsOf(legacyState'.category)
    BY <1>1, SameCatalogue DEF S!TypeOK, NoLegacy
  <2>3. QED
    BY <1>1, <2>1, <2>2 DEF S!TypeOK, seqMemory
<1>6. S!Before(legacyState') \subseteq handled'
  BY <1>1, <1>4 DEF S!SavedInv, S!StatesBehind
<1>7. S!SavedInv'
  BY <1>3, <1>6, S!SavedFresh, Zenon DEF Category, Cursor, S!Category, S!Cursor
<1>8. S!MemoryFits' /\ S!WholeWhenFinished'
  BY <1>1, <1>2 DEF S!MemoryFits, S!MemoryIsFresh, S!WholeWhenFinished, seqMemory
<1>9. QED
  BY <1>5, <1>7, <1>8 DEF SequentialInv

parMemory == <<completed, inProgress, taskQueue, failuresByCategory, failureCount,
               stopRequested, pc, category, initialAfter, after, seenCursors, pendingSave,
               faults, runs>>

\* A parallel run that has not been started remembers nothing, and is content with
\* the state file of a sequential one.
LEMMA ParallelWaits ==
  ASSUME ParallelInv, SequentialInv', run = "down",
         UNCHANGED <<run, parMemory, progressFile>>, handled \subseteq handled'
  PROVE  ParallelInv'
<1> USE SizeAssumption, FollowAssumption, PassAssumption
<1>1. P!TypeOK /\ P!SavedInv /\ P!ClearedInv /\ P!FreshBetweenRuns /\ P!FilesGone
  BY DEF ParallelInv
<1>2. S!TypeOK' /\ S!SavedInv'
  BY DEF SequentialInv
<1>3. /\ legacyState' \in [category : P!Category \cup {0}, after : P!Cursor]
      /\ handled' \in SUBSET P!Page
      /\ legacyState'.category # 0 =>
            legacyState'.after \in P!CursorsOf(legacyState'.category)
  BY <1>2 DEF S!TypeOK, S!LegacyState, S!Category, P!Category, S!Cursor, P!Cursor, S!Page,
     P!Page, S!CursorsOf, P!CursorsOf
<1>4. P!TypeOK'
  <2>1. UNCHANGED <<run, progressFile>> /\ UNCHANGED parMemory
    OBVIOUS
  <2>2. P!CursorsFit'
    BY <1>1, <1>3, <2>1 DEF P!TypeOK, P!CursorsFit, parMemory
  <2>3. QED
    BY <1>1, <1>3, <2>1, <2>2 DEF P!TypeOK, parMemory
<1>5. P!SavedInv'
  <2>1. /\ \A c, k : P!SavedUpTo(c, k) => P!SavedUpTo(c, k)'
        /\ \A c : P!AllSaved(c) => P!AllSaved(c)'
    BY P!SavedGrows, Zenon DEF Category, Cursor, P!Category, P!Cursor
  <2>2. S!Before(legacyState') \subseteq handled'
    BY <1>2 DEF S!SavedInv, S!StatesBehind
  <2>3. ASSUME legacyState'.category # 0
        PROVE  /\ \A c \in P!Category : c < legacyState'.category => P!AllSaved(c)'
               /\ P!SavedUpTo(legacyState.category, legacyState.after)'
    <3>1. legacyState'.category \in P!Category
      BY <1>3, <2>3
    <3>2. \A c \in P!Category : \A k \in P!CursorsOf(c) : <<c, k>> \in S!Page
      BY DEF P!Category, P!CursorsOf, P!Cursor, S!Page, S!Category, S!CursorsOf, S!Cursor
    <3>3. QED
      BY <2>2, <3>1, <3>2 DEF S!Before, P!AllSaved, P!SavedUpTo
  <2>4. P!StoredBehind'
    BY <1>1, <2>1, <2>3 DEF P!SavedInv, P!StoredBehind, parMemory
  <2>5. P!QueuedBehind'
    BY <1>1, <2>1 DEF P!SavedInv, P!QueuedBehind, parMemory
  <2>6. P!WalkedBehind'
    BY <1>1, <2>1 DEF P!SavedInv, P!WalkedBehind, P!Walked, P!AllSubmitted, P!SubmittedUpTo,
       P!WithSaver, parMemory
  <2>7. P!SavingBehind'
    BY <1>1, <2>1 DEF P!SavedInv, P!SavingBehind, P!Saving, parMemory
  <2>8. QED
    BY <2>4, <2>5, <2>6, <2>7 DEF P!SavedInv
<1>6. P!ClearedInv'
  BY <1>1 DEF P!ClearedInv, P!ReadyWhenDown, P!StopCounted, P!IdleWithoutCategory,
     P!NothingForgotten, P!CollectedWhenCleared, parMemory
<1>7. P!FreshBetweenRuns' /\ P!FilesGone'
  BY <1>1 DEF P!FreshBetweenRuns, P!MemoryIsFresh, P!FilesGone, parMemory
<1>8. QED
  BY <1>4, <1>5, <1>6, <1>7 DEF ParallelInv

\* When the next pass begins a parallel run remembers nothing either, and finds no file.
LEMMA ParallelAnew ==
  ASSUME ParallelInv, run \in {"down", "finished"}, run' = "down",
         UNCHANGED <<progressFile, legacyState>>, UNCHANGED parMemory,
         progressFile = P!NoProgress, legacyState = NoLegacy, handled' = {}
  PROVE  ParallelInv'
<1> USE SizeAssumption
<1>1. P!TypeOK /\ P!MemoryIsFresh
  BY DEF ParallelInv, P!FreshBetweenRuns
<1>2. P!TypeOK'
  <2>1. P!CursorsFit'
    BY <1>1 DEF P!TypeOK, P!CursorsFit, parMemory
  <2>2. QED
    BY <1>1, <2>1 DEF P!TypeOK, parMemory
<1>3. P!SavedInv'
  <2>1. /\ completed' = {} /\ inProgress' = P!NoProgress.inProgress /\ taskQueue' = {}
        /\ category' = [w \in Worker |-> 0] /\ pendingSave' = [w \in Worker |-> P!NoSave]
    BY <1>1, Zenon DEF P!MemoryIsFresh, parMemory
  <2>2. \A c : P!SavedUpTo(c, P!None)'
    BY DEF P!SavedUpTo, P!CursorsOf, P!Cursor, P!None
  <2>3. P!StoredBehind'
    BY <2>1, <2>2 DEF P!StoredBehind, P!NoProgress, NoLegacy
  <2>4. P!QueuedBehind' /\ P!WalkedBehind' /\ P!SavingBehind'
    BY <2>1 DEF P!QueuedBehind, P!WalkedBehind, P!Walked, P!SavingBehind, P!Saving, P!NoSave
  <2>5. QED
    BY <2>3, <2>4 DEF P!SavedInv
<1>4. P!ClearedInv'
  BY <1>1 DEF P!MemoryIsFresh, P!ClearedInv, P!ReadyWhenDown, P!StopCounted,
     P!IdleWithoutCategory, P!NothingForgotten, P!CollectedWhenCleared, parMemory
<1>5. P!FreshBetweenRuns' /\ P!FilesGone'
  BY <1>1 DEF P!FreshBetweenRuns, P!MemoryIsFresh, P!FilesGone, parMemory
<1>6. QED
  BY <1>2, <1>3, <1>4, <1>5 DEF ParallelInv

-----------------------------------------------------------------------------
(* The two together. *)

\* Each collection keeps its own, and they do not run at once.
PassesInv ==
    /\ ParallelInv
    /\ SequentialInv
    /\ seqRun # "down" => run = "down"

LEMMA PassesStart == Init => PassesInv
<1>1. Init => P!Init /\ S!Init
  BY SameParallel, SameSequential DEF Init
<1>2. Init => run = "down"
  BY <1>1 DEF P!Init
<1>3. QED
  BY <1>1, <1>2, ParallelStart, SequentialStart DEF PassesInv

\* A pass that is over has removed the state file, and a parallel one the progress
\* file as well.
LEMMA FilesOfFinished ==
  ASSUME PassesInv, Finished
  PROVE  /\ run \in {"down", "finished"} /\ seqRun # "working"
         /\ legacyState = NoLegacy
         /\ run = "finished" => progressFile = P!NoProgress
  BY SameCatalogue
  DEF PassesInv, Finished, ParallelInv, SequentialInv, P!FilesGone, S!WholeWhenFinished

LEMMA PassesKept ==
  PassesInv /\ [Next]_vars /\ [NextPass => progressFile = Parallel!NoProgress]_vars
     => PassesInv'
<1> SUFFICES ASSUME PassesInv, [Next]_vars,
                    [NextPass => progressFile = Parallel!NoProgress]_vars
             PROVE  PassesInv'
  OBVIOUS
<1>0. ParallelInv /\ SequentialInv
  BY DEF PassesInv
<1>1. CASE ParallelStep
  <2>1. P!Next /\ seqRun = "down" /\ seqRun' = "down" /\ UNCHANGED seqMemory
    BY <1>1, SameParallel DEF ParallelStep, seqVars, seqMemory
  <2>2. ParallelInv'
    BY <1>0, <2>1, ParallelNext
  <2>3. handled' \subseteq Page
    BY <2>2, SameCatalogue DEF ParallelInv, P!TypeOK
  <2>4. SequentialInv'
    BY <1>0, <2>1, <2>3, ParallelGrows, SequentialRests
  <2>5. QED
    BY <2>1, <2>2, <2>4 DEF PassesInv
<1>2. CASE SequentialStep
  <2>1. S!Next /\ run = "down" /\ UNCHANGED <<run, parMemory, progressFile>>
    BY <1>2, SameSequential DEF SequentialStep, parVars, parMemory
  <2>2. SequentialInv'
    BY <1>0, <2>1, SequentialNext
  <2>3. ParallelInv'
    BY <1>0, <2>1, <2>2, SequentialGrows, ParallelWaits
  <2>4. QED
    BY <2>1, <2>2, <2>3 DEF PassesInv
<1>3. CASE NextPass /\ vars' # vars
  <2>1. /\ Finished /\ handled' = {} /\ run' = "down" /\ seqRun' = "down"
        /\ UNCHANGED <<progressFile, legacyState>>
        /\ UNCHANGED parMemory /\ UNCHANGED seqMemory
    BY <1>3 DEF NextPass, parMemory, seqMemory
  <2>2. /\ run \in {"down", "finished"} /\ seqRun # "working"
        /\ legacyState = NoLegacy /\ legacyState' = NoLegacy
        /\ progressFile = P!NoProgress
    BY <1>3, <2>1, FilesOfFinished, SameParallel
  <2>3. ParallelInv'
    BY <1>0, <2>1, <2>2, ParallelAnew
  <2>4. SequentialInv'
    BY <1>0, <2>1, <2>2, SequentialRests
  <2>5. QED
    BY <2>1, <2>3, <2>4 DEF PassesInv
<1>4. CASE UNCHANGED vars \/ Rest
  <2>1. UNCHANGED <<run, seqRun>> /\ UNCHANGED P!vars /\ UNCHANGED S!vars
    BY <1>4 DEF Rest, vars, parVars, seqVars, P!vars, P!diskVars, P!sharedVars, P!workerVars,
       S!vars, S!diskVars, S!loopVars
  <2>2. ParallelInv' /\ SequentialInv'
    BY <1>0, <2>1, ParallelNext, SequentialNext
  <2>3. QED
    BY <2>1, <2>2 DEF PassesInv
<1>5. QED
  BY <1>1, <1>2, <1>3, <1>4 DEF Next

LEMMA PassesSafe == PassesInv => PassIsWhole /\ EitherMayGoOn
<1> USE SizeAssumption, FollowAssumption, PassAssumption
<1> SUFFICES ASSUME PassesInv PROVE PassIsWhole /\ EitherMayGoOn
  OBVIOUS
<1>1. PassIsWhole
  BY SameCatalogue DEF PassIsWhole, Finished, PassesInv, ParallelInv, SequentialInv,
     P!ClearedInv, P!CollectedWhenCleared, S!WholeWhenFinished
<1>2. P!ResumePointBehindSaves
  <2>1. P!TypeOK /\ P!SavedInv => P!ResumePointBehindSaves
    BY P!SavedCovers, Zenon DEF Category, Cursor, P!Category, P!Cursor
  <2>2. QED
    BY <2>1 DEF PassesInv, ParallelInv
<1>3. S!ResumePointBehindSaves
  <2>1. S!TypeOK => S!Covered = S!Before(legacyState)
    BY S!CoveredIsBefore, Zenon DEF Category, Cursor, S!Category, S!Cursor
  <2>2. QED
    BY <2>1 DEF PassesInv, SequentialInv, S!SavedInv, S!StatesBehind, S!ResumePointBehindSaves
<1>4. QED
  BY <1>1, <1>2, <1>3, SameParallel, SameSequential DEF EitherMayGoOn

\* Only a progress file that a pass leaves behind can make the next pass skip pages:
\* as long as no pass ends with one, every pass that is over is whole and runs of
\* either kind go on from the other's files, in whatever order they meet.
THEOREM OnlyLeftoversSkip == Spec /\ NothingLeftOver => [](PassIsWhole /\ EitherMayGoOn)
<1>1. Spec /\ NothingLeftOver => []PassesInv
  BY PassesStart, PassesKept, PTL DEF Spec, NothingLeftOver
<1>2. QED
  BY <1>1, PassesSafe, PTL

-----------------------------------------------------------------------------
(* Passes of one kind of run leave no progress file. *)

\* Only parallel runs write the progress file.
ProgressInv ==
    /\ pass \in 1..MaxPasses
    /\ "parallel" \notin Modes[pass] => progressFile = P!NoProgress
    /\ seqRun = "finished" => "sequential" \in Modes[pass]

LEMMA NothingIsLeft ==
  ASSUME OneWayUntilLast, PassesInv, ProgressInv
  PROVE  NextPass => progressFile = Parallel!NoProgress
<1> SUFFICES ASSUME NextPass PROVE progressFile = P!NoProgress
  BY SameParallel
<1>1. Finished /\ pass \in 1..MaxPasses - 1
  BY PassAssumption DEF NextPass, ProgressInv
<1>2. CASE run = "finished"
  BY <1>1, <1>2, FilesOfFinished
<1>3. CASE seqRun = "finished"
  BY <1>1, <1>3 DEF ProgressInv, OneWayUntilLast
<1>4. QED
  BY <1>1, <1>2, <1>3 DEF Finished

LEMMA ProgressStart == Init => ProgressInv
<1>1. Init => progressFile = P!NoProgress /\ seqRun = "down"
  BY SameParallel, SameSequential DEF Init, P!Init, S!Init
<1>2. QED
  BY <1>1, PassAssumption DEF Init, ProgressInv

LEMMA ProgressKept ==
  ASSUME OneWayUntilLast
  PROVE  PassesInv /\ ProgressInv /\ [Next]_vars => ProgressInv'
<1> SUFFICES ASSUME PassesInv, ProgressInv, [Next]_vars PROVE ProgressInv'
  OBVIOUS
<1>1. CASE ParallelStep
  BY <1>1 DEF ParallelStep, ProgressInv, seqVars
<1>2. CASE SequentialStep
  BY <1>2 DEF SequentialStep, ProgressInv
<1>3. CASE NextPass
  <2>1. progressFile' = P!NoProgress
    BY <1>3, NothingIsLeft, SameParallel DEF NextPass
  <2>2. pass' \in 1..MaxPasses /\ seqRun' = "down"
    BY <1>3, PassAssumption DEF NextPass, ProgressInv
  <2>3. QED
    BY <2>1, <2>2 DEF ProgressInv
<1>4. CASE UNCHANGED vars \/ Rest
  BY <1>4 DEF Rest, vars, seqVars, ProgressInv
<1>5. QED
  BY <1>1, <1>2, <1>3, <1>4 DEF Next

LEMMA PassesInvHolds ==
  ASSUME OneWayUntilLast
  PROVE  Spec => []PassesInv
<1>1. Init => PassesInv /\ ProgressInv
  BY PassesStart, ProgressStart
<1>2. PassesInv /\ ProgressInv /\ [Next]_vars => PassesInv' /\ ProgressInv'
  BY PassesKept, NothingIsLeft, ProgressKept
<1>3. QED
  BY <1>1, <1>2, PTL DEF Spec

\* Where every pass but the last is collected in one way, every pass that is over
\* has saved all pages of all categories, whichever runs it was put together from.
THEOREM PassesAreWhole ==
  ASSUME OneWayUntilLast
  PROVE  Spec => []PassIsWhole
  BY PassesInvHolds, PassesSafe, PTL

\* There, a run of either kind that goes on from the files skips saved pages only.
THEOREM EitherGoesOn ==
  ASSUME OneWayUntilLast
  PROVE  Spec => []EitherMayGoOn
  BY PassesInvHolds, PassesSafe, PTL
=============================================================================
