----------------------- MODULE OwnerclanSequentialProofs -----------------------
(* Proofs about OwnerclanSequential, for every number of categories, cursors, *)
(* faults and limited runs.                                                   *)
EXTENDS OwnerclanSequential, TLAPS

-----------------------------------------------------------------------------
(* Cursors, as in OwnerclanParallelProofs. *)

\* The first cursor belongs to every category.
LEMMA NoneIsCursor == \A c \in Category : None \in CursorsOf(c)
  BY SizeAssumption DEF None, CursorsOf, Cursor

\* Where the server leads from a cursor of a category is one of its cursors.
LEMMA FollowFits ==
  ASSUME NEW c \in Category, NEW k \in CursorsOf(c)
  PROVE  Follow[c][k] \in CursorsOf(c)
<1>1. Follow[c][k] \in Cursor /\ Follow[c][k] <= k + 1 /\ k \in Cursor
  BY FollowAssumption DEF CursorsOf
<1>2. \A j \in 0..(Follow[c][k] - 1) : j = k \/ j \in 0..(k - 1)
  BY <1>1, SizeAssumption DEF Cursor
<1>3. ASSUME NEW j \in 0..(Follow[c][k] - 1)
      PROVE  Follow[c][j] = j + 1
  <2>1. CASE j \in 0..(k - 1)
    BY <2>1 DEF CursorsOf
  <2>2. CASE j = k
    BY <2>2, <1>1, <1>3, SizeAssumption DEF Cursor
  <2>3. QED
    BY <2>1, <2>2, <1>2
<1>4. QED
  BY <1>1, <1>3 DEF CursorsOf

\* A category has no cursor behind one from which the server does not go on.
LEMMA LastCursor ==
  ASSUME NEW c \in Category, NEW k \in CursorsOf(c), Follow[c][k] # k + 1
  PROVE  \A j \in CursorsOf(c) : j <= k
<1>1. SUFFICES ASSUME NEW j \in CursorsOf(c), j > k
               PROVE  FALSE
  BY SizeAssumption DEF CursorsOf, Cursor
<1>2. k \in 0..(j - 1)
  BY <1>1, SizeAssumption DEF CursorsOf, Cursor
<1>3. QED
  BY <1>1, <1>2 DEF CursorsOf

LEMMA PagePair ==
  \A c, k : <<c, k>> \in Page <=> c \in Category /\ k \in CursorsOf(c)
  BY DEF Page, CursorsOf

LEMMA CursorsAreNumbers ==
  /\ \A c : CursorsOf(c) \subseteq Cursor
  /\ Cursor \subseteq Nat /\ Category \subseteq Nat \ {0} /\ NumCategories \in Category
  BY SizeAssumption DEF CursorsOf, Cursor, Category

-----------------------------------------------------------------------------
(* Type correctness. *)

\* A state that names no category, or a cursor of its category.
Fits(state) ==
    IF state.category = 0 THEN state = NoLegacy
    ELSE state.after \in CursorsOf(state.category)

LEMMA NoLegacyFits == NoLegacy \in LegacyState /\ Fits(NoLegacy)
  BY CursorsAreNumbers, SizeAssumption DEF NoLegacy, LegacyState, Fits, None, Cursor

LEMMA StateFits ==
  ASSUME NEW c \in Category, NEW k \in CursorsOf(c)
  PROVE  /\ [category |-> c, after |-> k] \in LegacyState
         /\ Fits([category |-> c, after |-> k])
         /\ [category |-> c, after |-> k] # NoLegacy
  BY CursorsAreNumbers DEF LegacyState, Fits, NoLegacy

SaveType == [stage : Stages, category : Category \cup {0}, cursor : Cursor,
             cut : BOOLEAN, state : LegacyState]

LEMMA NoSaveType == NoSave \in SaveType /\ Fits(NoSave.state)
<1>1. 0 \in Cursor
  BY SizeAssumption DEF Cursor
<1>2. NoSave.state = NoLegacy
  BY DEF NoSave
<1>3. NoSave \in SaveType
  BY <1>1, NoLegacyFits DEF NoSave, SaveType, Stages, None
<1>4. QED
  BY <1>2, <1>3, NoLegacyFits

\* A process that is not running remembers nothing, and what the saver has is
\* a page.
MemoryFits ==
    /\ run # "working" => MemoryIsFresh
    /\ pendingSave.stage # "none" => <<pendingSave.category, pendingSave.cursor>> \in Page

LEMMA FreshType ==
  ASSUME LoseMemory
  PROVE  /\ options' \in Options /\ pc' \in Locations /\ category' \in 1..options'.listed
         /\ after' \in Cursor /\ seenCursors' \in SUBSET Cursor
         /\ resume' \in LegacyState /\ Fits(resume')
         /\ limitReached' \in BOOLEAN
         /\ pendingSave' \in SaveType /\ Fits(pendingSave'.state)
         /\ after' \in CursorsOf(category')
         /\ MemoryIsFresh' /\ pendingSave'.stage = "none"
<1> USE CursorsAreNumbers, NoLegacyFits, SizeAssumption DEF LoseMemory
<1>1. options' \in Options /\ pc' \in Locations /\ category' \in 1..options'.listed
  <2>1. FullRun \in Options /\ 1 \in 1..FullRun.listed
    BY DEF FullRun, Options, Category
  <2>2. QED
    BY <2>1 DEF Locations
<1>2. /\ after' \in Cursor /\ after' \in CursorsOf(category')
      /\ seenCursors' \in SUBSET Cursor
  BY NoneIsCursor DEF Category
<1>3. /\ resume' \in LegacyState /\ Fits(resume')
      /\ limitReached' \in BOOLEAN
      /\ pendingSave' \in SaveType /\ Fits(pendingSave'.state)
  <2>1. pendingSave' = NoSave /\ resume' = NoLegacy /\ limitReached' = FALSE
    OBVIOUS
  <2>2. QED
    BY <2>1, NoSaveType
<1>4. MemoryIsFresh' /\ pendingSave'.stage = "none"
  BY DEF MemoryIsFresh, NoSave
<1>5. QED
  BY <1>1, <1>2, <1>3, <1>4

LEMMA TypeParts ==
  TypeOK <=>
    /\ legacyState \in LegacyState /\ Fits(legacyState)
    /\ handled \in SUBSET Page
    /\ run \in {"down", "working", "finished"}
    /\ options \in Options
    /\ pc \in Locations
    /\ category \in 1..options.listed
    /\ after \in Cursor
    /\ seenCursors \in SUBSET Cursor
    /\ resume \in LegacyState /\ Fits(resume)
    /\ limitReached \in BOOLEAN
    /\ pendingSave \in SaveType /\ Fits(pendingSave.state)
    /\ faults \in 0..MaxFaults
    /\ limitedRuns \in 0..MaxLimitedRuns
    /\ after \in CursorsOf(category) \/ pc = "enter"
  BY DEF TypeOK, Fits, SaveType

LEMMA CategoryType ==
  ASSUME TypeOK
  PROVE  category \in Category /\ options.listed \in Category
         /\ (category < options.listed => category + 1 \in Category)
<1>1. options.listed \in Category /\ category \in 1..options.listed
  BY DEF TypeOK, Options
<1>2. QED
  BY <1>1, SizeAssumption DEF Category

\* The state after a page that has been saved.
LEMMA StateAfterSaveType ==
  ASSUME TypeOK, pc = "await", NEW cut \in BOOLEAN, NEW met \in BOOLEAN
  PROVE  /\ Follow[category][after] \in CursorsOf(category)
         /\ StateAfterSave(Follow[category][after], cut, met) \in LegacyState
         /\ Fits(StateAfterSave(Follow[category][after], cut, met))
<1>1. category \in Category /\ (category < options.listed => category + 1 \in Category)
  BY CategoryType
<1>2. after \in CursorsOf(category)
  BY DEF TypeOK
<1>3. Follow[category][after] \in CursorsOf(category)
  BY <1>1, <1>2, FollowFits
<1>4. NextCategory \in LegacyState /\ Fits(NextCategory)
  BY <1>1, NoneIsCursor, StateFits, NoLegacyFits DEF NextCategory
<1>5. QED
  BY <1>1, <1>2, <1>3, <1>4, StateFits DEF StateAfterSave

LEMMA TypeInit == Init => TypeOK /\ MemoryFits
<1> SUFFICES ASSUME Init PROVE TypeOK /\ MemoryFits
  OBVIOUS
<1> USE CursorsAreNumbers, NoLegacyFits, NoneIsCursor, SizeAssumption, BoundAssumption
    DEF Init, MemoryIsFresh
<1>1. options \in Options /\ pc \in Locations /\ category \in 1..options.listed
  <2>1. FullRun \in Options /\ 1 \in 1..FullRun.listed
    BY DEF FullRun, Options, Category
  <2>2. QED
    BY <2>1 DEF Locations
<1>2. /\ after \in Cursor /\ seenCursors \in SUBSET Cursor /\ after \in CursorsOf(category)
  BY DEF Category
<1>3. pendingSave \in SaveType /\ Fits(pendingSave.state)
  BY NoSaveType
<1>4. TypeOK
  <2>1. /\ handled \in SUBSET Page /\ run \in {"down", "working", "finished"}
        /\ limitReached \in BOOLEAN
        /\ faults \in 0..MaxFaults /\ limitedRuns \in 0..MaxLimitedRuns
    <3>1. faults \in 0..MaxFaults /\ limitedRuns \in 0..MaxLimitedRuns
      BY BoundAssumption
    <3>2. limitReached \in BOOLEAN
      BY Zenon
    <3>3. QED
      BY <3>1, <3>2
  <2>2. /\ legacyState \in LegacyState /\ Fits(legacyState)
        /\ resume \in LegacyState /\ Fits(resume)
    OBVIOUS
  <2>3. QED
    BY <1>1, <1>2, <1>3, <2>1, <2>2, TypeParts
<1>5. QED
  BY <1>4 DEF MemoryFits, NoSave

\* The steps of the process and its threads, run by run.
LEMMA TypeNext == TypeOK /\ MemoryFits /\ [Next]_vars => TypeOK' /\ MemoryFits'
<1> SUFFICES ASSUME TypeOK, MemoryFits, [Next]_vars
             PROVE  TypeOK' /\ MemoryFits'
  OBVIOUS
<1>t. /\ legacyState \in LegacyState /\ Fits(legacyState)
      /\ handled \in SUBSET Page
      /\ run \in {"down", "working", "finished"}
      /\ options \in Options
      /\ pc \in Locations
      /\ category \in 1..options.listed
      /\ after \in Cursor
      /\ seenCursors \in SUBSET Cursor
      /\ resume \in LegacyState /\ Fits(resume)
      /\ limitReached \in BOOLEAN
      /\ pendingSave \in SaveType /\ Fits(pendingSave.state)
      /\ faults \in 0..MaxFaults
      /\ limitedRuns \in 0..MaxLimitedRuns
      /\ after \in CursorsOf(category) \/ pc = "enter"
  BY TypeParts
<1> DEFINE Parts ==
             /\ legacyState \in LegacyState /\ Fits(legacyState)
             /\ handled \in SUBSET Page
             /\ run \in {"down", "working", "finished"}
             /\ options \in Options
             /\ pc \in Locations
             /\ category \in 1..options.listed
             /\ after \in Cursor
             /\ seenCursors \in SUBSET Cursor
             /\ resume \in LegacyState /\ Fits(resume)
             /\ limitReached \in BOOLEAN
             /\ pendingSave \in SaveType /\ Fits(pendingSave.state)
             /\ faults \in 0..MaxFaults
             /\ limitedRuns \in 0..MaxLimitedRuns
             /\ after \in CursorsOf(category) \/ pc = "enter"
<1>p. Parts' => TypeOK'
  <2>1. (Parts <=> TypeOK)'
    BY TypeParts, PTL
  <2>2. QED
    BY <2>1
<1>c. /\ category \in Category /\ options.listed \in Category
      /\ category < options.listed => category + 1 \in Category
  BY CategoryType
<1>f. ASSUME Fault PROVE faults' \in 0..MaxFaults
  BY <1>f, <1>t, BoundAssumption DEF Fault
<1>1. ASSUME LoseMemory, handled' = handled, legacyState' \in LegacyState, Fits(legacyState'),
             run' \in {"down", "finished"}, faults' \in 0..MaxFaults, limitedRuns' = limitedRuns
      PROVE  TypeOK' /\ MemoryFits'
  BY <1>1, <1>t, <1>p, FreshType DEF MemoryFits
<1>2. ASSUME UNCHANGED <<diskVars, run, options, limitedRuns>>, run = "working",
             faults' \in 0..MaxFaults,
             pc' \in Locations, category' \in 1..options.listed, after' \in Cursor,
             seenCursors' \in SUBSET Cursor, resume' \in LegacyState, Fits(resume'),
             limitReached' \in BOOLEAN, pendingSave' \in SaveType, Fits(pendingSave'.state),
             \/ pendingSave' = pendingSave
             \/ pendingSave'.stage # "none" =>
                  <<pendingSave'.category, pendingSave'.cursor>> \in Page,
             after' \in CursorsOf(category') \/ pc' = "enter"
      PROVE  TypeOK' /\ MemoryFits'
  BY <1>2, <1>t, <1>p DEF MemoryFits, diskVars
<1>3. CASE UNCHANGED vars
  BY <1>3, <1>t, <1>p DEF vars, diskVars, loopVars, MemoryFits, MemoryIsFresh
<1>4. ASSUME NEW asked \in Options, StartRun(asked), limitedRuns' \in 0..MaxLimitedRuns
      PROVE  TypeOK' /\ MemoryFits'
  <2>1. category' \in 1..asked.listed
    BY <1>4, <1>t, SizeAssumption DEF StartRun, Options, Category
  <2>2. /\ options' = asked /\ pc' = "enter" /\ run' = "working" /\ resume' = legacyState
        /\ UNCHANGED <<legacyState, handled, after, seenCursors, limitReached, pendingSave,
                       faults>>
    BY <1>4 DEF StartRun, diskVars
  <2>3. QED
    BY <1>4, <1>t, <1>p, <2>1, <2>2 DEF MemoryFits, Locations
<1>5. CASE StartFullRun
  <2>1. FullRun \in Options
    BY CursorsAreNumbers DEF FullRun, Options
  <2>2. QED
    BY <1>4, <1>5, <1>t, <2>1 DEF StartFullRun
<1>6. CASE StartLimitedRun
  <2>1. limitedRuns' \in 0..MaxLimitedRuns
    BY <1>6, <1>t, BoundAssumption DEF StartLimitedRun
  <2>2. QED
    BY <1>4, <1>6, <2>1 DEF StartLimitedRun
<1>7. CASE Crash
  BY <1>1, <1>7, <1>f, <1>t DEF Crash, diskVars
<1>8. CASE Rest
  BY <1>3, <1>8 DEF Rest
<1>9. ASSUME run = "working", EnterCategory PROVE TypeOK' /\ MemoryFits'
  <2>1. after' \in CursorsOf(category)
    BY <1>9, <1>t, <1>c, NoneIsCursor, CursorsAreNumbers DEF EnterCategory, Fits
  <2>2. after' \in Cursor
    BY <2>1, CursorsAreNumbers
  <2>3. QED
    BY <1>2, <1>9, <1>t, <2>1, <2>2 DEF EnterCategory, GoTo, Locations
<1>10. ASSUME run = "working", ReceivePage \/ RequestFails PROVE TypeOK' /\ MemoryFits'
  BY <1>2, <1>10, <1>f, <1>t DEF ReceivePage, RequestFails, GoTo, Locations
<1>11. ASSUME ReturnFailure PROVE TypeOK' /\ MemoryFits'
  <2>1. legacyState' \in LegacyState /\ Fits(legacyState')
    BY <1>11, <1>t, <1>c, StateFits DEF ReturnFailure, WriteStateFile
  <2>2. QED
    BY <1>1, <1>11, <1>t, <2>1 DEF ReturnFailure
<1>12. ASSUME ErrorEscapes PROVE TypeOK' /\ MemoryFits'
  BY <1>1, <1>12, <1>f, <1>t DEF ErrorEscapes, diskVars
<1>13. ASSUME run = "working", SubmitPage PROVE TypeOK' /\ MemoryFits'
  <2> DEFINE next == Follow[category][after]
  <2>1. pc = "await" /\ after \in CursorsOf(category)
    BY <1>13, <1>t DEF SubmitPage
  <2>2. PICK cut \in BOOLEAN, met \in BOOLEAN :
          /\ pendingSave' = [stage |-> "saving", category |-> category,
                             cursor |-> after, cut |-> cut,
                             state |-> StateAfterSave(next, cut, met)]
          /\ limitReached' = (cut \/ met)
          /\ IF cut \/ met \/ next = None \/ Repeated(next)
               THEN /\ GoTo("awaitLast")
                    /\ UNCHANGED <<after, seenCursors>>
               ELSE /\ GoTo("request")
                    /\ after' = next
                    /\ seenCursors' = seenCursors \cup {next}
    BY <1>13 DEF SubmitPage
  <2>3. /\ next \in CursorsOf(category)
        /\ StateAfterSave(next, cut, met) \in LegacyState
        /\ Fits(StateAfterSave(next, cut, met))
    BY <2>1, StateAfterSaveType
  <2> HIDE DEF next
  <2>4. next \in Cursor
    BY <2>3, CursorsAreNumbers
  <2>5. /\ pendingSave' \in SaveType /\ Fits(pendingSave'.state)
        /\ <<pendingSave'.category, pendingSave'.cursor>> \in Page
    <3>1. <<category, after>> \in Page
      BY <1>c, <2>1, PagePair
    <3>2. QED
      BY <1>t, <1>c, <2>2, <2>3, <3>1 DEF SaveType, Stages
  <2>6. /\ after' \in Cursor /\ after' \in CursorsOf(category)
        /\ seenCursors' \in SUBSET Cursor /\ limitReached' \in BOOLEAN
        /\ pc' \in Locations
    BY <1>t, <2>1, <2>2, <2>3, <2>4 DEF GoTo, Locations
  <2>7. QED
    BY <1>2, <1>13, <1>t, <2>5, <2>6 DEF SubmitPage
<1>14. ASSUME run = "working", LeaveCategory PROVE TypeOK' /\ MemoryFits'
  <2>1. /\ pendingSave' \in SaveType /\ Fits(pendingSave'.state)
        /\ pendingSave'.stage = "none"
    <3>1. pendingSave' = NoSave /\ NoSave.stage = "none"
      BY <1>14 DEF LeaveCategory, NoSave
    <3>2. QED
      BY <3>1, NoSaveType
  <2>2. /\ category' \in 1..options.listed /\ pc' \in Locations
        /\ after \in CursorsOf(category') \/ pc' = "enter"
    BY <1>14, <1>t, <1>c, SizeAssumption DEF LeaveCategory, GoTo, Locations, Category
  <2>3. QED
    BY <1>2, <1>14, <1>t, <2>1, <2>2, NoLegacyFits DEF LeaveCategory
<1>15. ASSUME EndRun PROVE TypeOK' /\ MemoryFits'
  BY <1>1, <1>15, <1>t, NoLegacyFits DEF EndRun, WriteStateFile
<1>16. ASSUME run = "working", NEW stage \in Stages, SaveStep(stage),
              pendingSave.stage # "none",
              UNCHANGED <<run, options, loopVars, limitedRuns>>,
              faults' \in 0..MaxFaults, handled' \in SUBSET Page,
              legacyState' \in LegacyState, Fits(legacyState')
       PROVE  TypeOK' /\ MemoryFits'
  <2>1. /\ pendingSave' \in SaveType /\ pendingSave'.state = pendingSave.state
        /\ pendingSave'.category = pendingSave.category
        /\ pendingSave'.cursor = pendingSave.cursor
    BY <1>16, <1>t DEF SaveStep, SaveType
  <2>2. QED
    BY <1>16, <1>t, <1>p, <2>1 DEF loopVars, MemoryFits
<1>17. ASSUME run = "working", SavePage PROVE TypeOK' /\ MemoryFits'
  <2>1. handled' \in SUBSET Page
    <3>1. <<pendingSave.category, pendingSave.cursor>> \in Page
      BY <1>17 DEF SavePage, MemoryFits
    <3>2. QED
      BY <1>17, <1>t, <3>1 DEF SavePage
  <2>2. QED
    BY <1>16, <1>17, <1>t, <2>1 DEF SavePage, Stages
<1>18. ASSUME run = "working", SaveRaises PROVE TypeOK' /\ MemoryFits'
  BY <1>16, <1>18, <1>f, <1>t DEF SaveRaises, Stages, diskVars
<1>19. ASSUME run = "working", SaveState PROVE TypeOK' /\ MemoryFits'
  <2>1. legacyState' \in LegacyState /\ Fits(legacyState')
    <3>1. pendingSave.state \in LegacyState
      BY <1>t DEF SaveType
    <3>2. legacyState' = legacyState \/ legacyState' = pendingSave.state
      BY <1>19 DEF SaveState, WriteStateFile
    <3>3. QED
      BY <1>t, <3>1, <3>2
  <2>2. QED
    BY <1>16, <1>19, <1>t, <2>1 DEF SaveState, Stages
<1>20. QED
  BY <1>3, <1>5, <1>6, <1>7, <1>8, <1>9, <1>10, <1>11, <1>12, <1>13, <1>14, <1>15,
     <1>17, <1>18, <1>19 DEF Next, LoopStep, SaverStep

\* The variables keep their types; the states on disk, remembered and on their
\* way name a cursor of their own category.
THEOREM TypeCorrect == Spec => []TypeOK
<1>1. Spec => [](TypeOK /\ MemoryFits)
  BY TypeInit, TypeNext, PTL DEF Spec
<1>2. QED
  BY <1>1, PTL

LEMMA MemoryFitsHolds == Spec => []MemoryFits
<1>1. Spec => [](TypeOK /\ MemoryFits)
  BY TypeInit, TypeNext, PTL DEF Spec
<1>2. QED
  BY <1>1, PTL

-----------------------------------------------------------------------------
(* No page is skipped.  Everything before the position of the loop, and      *)
(* before any state that is or will be written, has been saved, the page     *)
(* that is on its way to the store excepted until it is there.               *)

\* The pages before a state: those a run that started from it would skip.
Before(state) ==
    {p \in Page : \/ p[1] < state.category
                  \/ p[1] = state.category /\ p[2] < state.after}

PagesOf(c) == {p \in Page : p[1] = c}

\* The page the saver has and has not saved; a page that is cut never counts.
OnItsWay ==
    IF pendingSave.stage \in {"saving", "failed"} /\ ~pendingSave.cut
      THEN {<<pendingSave.category, pendingSave.cursor>>} ELSE {}

Submitted == handled \cup OnItsWay

StatesBehind ==
    /\ Before(legacyState) \subseteq handled
    /\ Before(resume) \subseteq handled
    /\ pendingSave.stage # "none" => Before(pendingSave.state) \subseteq Submitted

\* A loop that goes back to an earlier cursor has met the whole category.
LoopBehind ==
    /\ Before([category |-> category, after |-> None]) \subseteq handled
    /\ pc # "enter" =>
        /\ Before([category |-> category, after |-> after]) \subseteq Submitted
        /\ \/ PagesOf(category) \subseteq Submitted
           \/ \A k \in seenCursors : k <= after
    /\ pc = "awaitLast" /\ ~limitReached => PagesOf(category) \subseteq Submitted

\* A loop that is left without a limit has gone through the list it sees.
LeftBehind ==
    /\ pc = "enter" => pendingSave.stage = "none"
    /\ limitReached => ~KeepsNothing
    /\ pc = "leave" /\ ~limitReached =>
        Before([category |-> options.listed + 1, after |-> None]) \subseteq handled

SavedInv == StatesBehind /\ LoopBehind /\ LeftBehind

-----------------------------------------------------------------------------
(* The state only advances in runs of the whole list without a page limit.   *)

WholeRun == run = "working" /\ options.listed = NumCategories /\ ~options.pages

\* Whatever is before one state is before the other, but for pages of
\* categories in which the server goes round in a circle.
NotBehind(state, other) ==
    \A p \in Before(state) : p \in Before(other) \/ Repeats(p[1])

\* Where the loop is: it will fetch, or has fetched, the page there.
Position ==
    IF pc # "enter" THEN [category |-> category, after |-> after]
    ELSE IF resume.category = category THEN resume
    ELSE [category |-> category, after |-> None]

CategoryDone == [category |-> category + 1, after |-> None]

AdvanceInv ==
    WholeRun =>
        /\ pc \in {"enter", "request", "failing", "await"} => NotBehind(legacyState, Position)
        /\ NotBehind(legacyState, CategoryDone)
        /\ pendingSave.stage # "none" /\ pendingSave.state # NoLegacy =>
            /\ NotBehind(legacyState, pendingSave.state)
            /\ pc \in {"request", "failing", "await"} => NotBehind(pendingSave.state, Position)
            /\ NotBehind(pendingSave.state, CategoryDone)

-----------------------------------------------------------------------------
(* What is before what. *)

LEMMA PageNumbers ==
  ASSUME NEW p \in Page
  PROVE  /\ p = <<p[1], p[2]>> /\ p[1] \in Category /\ p[2] \in CursorsOf(p[1])
         /\ p[1] \in Nat /\ p[2] \in Nat /\ p[1] >= 1
<1>1. p = <<p[1], p[2]>> /\ p[1] \in Category /\ p[2] \in CursorsOf(p[1])
  BY DEF Page
<1>2. QED
  BY <1>1, CursorsAreNumbers

LEMMA NothingBefore ==
  Before(NoLegacy) = {} /\ Before([category |-> 1, after |-> None]) = {}
<1>1. \A p \in Page : p[1] \in Nat /\ p[2] \in Nat /\ p[1] >= 1
  BY PageNumbers
<1>2. QED
  BY <1>1 DEF Before, NoLegacy, None

\* The pages of a category are those between its beginning and its end.
LEMMA CategoryBefore ==
  ASSUME NEW c \in Nat
  PROVE  /\ Before([category |-> c + 1, after |-> None]) =
              Before([category |-> c, after |-> None]) \cup PagesOf(c)
         /\ \A k : Before([category |-> c, after |-> k]) \subseteq
              Before([category |-> c, after |-> None]) \cup PagesOf(c)
         /\ \A k \in Nat : Before([category |-> c, after |-> None]) \subseteq
              Before([category |-> c, after |-> k])
<1>1. \A p \in Page : p[1] \in Nat /\ p[2] \in Nat
  BY PageNumbers
<1>2. QED
  BY <1>1 DEF Before, PagesOf, None

\* A cursor that is no further than the next one adds at most the page at hand.
LEMMA NextBefore ==
  ASSUME NEW c \in Category, NEW k \in CursorsOf(c), NEW l \in Nat, l <= k + 1
  PROVE  Before([category |-> c, after |-> l]) \subseteq
           Before([category |-> c, after |-> k]) \cup {<<c, k>>}
<1>1. \A p \in Page : p = <<p[1], p[2]>> /\ p[1] \in Nat /\ p[2] \in Nat
  BY PageNumbers
<1>2. c \in Nat /\ k \in Nat
  BY CursorsAreNumbers
<1>3. QED
  BY <1>1, <1>2 DEF Before

\* From a cursor from which the server does not go on, the page at hand is the
\* last one.
LEMMA LastBefore ==
  ASSUME NEW c \in Category, NEW k \in CursorsOf(c), Follow[c][k] # k + 1
  PROVE  PagesOf(c) \subseteq Before([category |-> c, after |-> k]) \cup {<<c, k>>}
<1>1. \A p \in PagesOf(c) : p = <<c, p[2]>> /\ p[2] \in CursorsOf(c) /\ p[2] \in Nat
  BY PageNumbers DEF PagesOf
<1>2. \A p \in PagesOf(c) : p[2] <= k
  BY <1>1, LastCursor
<1>3. k \in Nat
  BY CursorsAreNumbers
<1>4. QED
  BY <1>1, <1>2, <1>3 DEF Before, PagesOf

\* What the next full run would skip is what is before the state on disk.
LEMMA CoveredIsBefore ==
  ASSUME TypeOK
  PROVE  Covered = Before(legacyState)
<1>1. \A p \in Page : p[1] \in Nat /\ p[2] \in Nat /\ p[1] >= 1
  BY PageNumbers
<1>2. CASE legacyState.category = 0
  <2>1. legacyState = NoLegacy
    BY <1>2 DEF TypeOK
  <2>2. StartAt(legacyState) = 1
    BY <1>2 DEF StartAt, Category
  <2>3. QED
    BY <1>1, <2>1, <2>2 DEF Covered, Skips, Before, NoLegacy
<1>3. CASE legacyState.category # 0
  <2>1. legacyState.category \in Category
    BY <1>3 DEF TypeOK, LegacyState
  <2>2. QED
    BY <2>1 DEF Covered, Skips, Before, StartAt
<1>4. QED
  BY <1>2, <1>3

-----------------------------------------------------------------------------
(* SavedInv is kept. *)

LEMMA SavedFresh ==
  ASSUME LoseMemory, Before(legacyState') \subseteq handled'
  PROVE  SavedInv'
<1>1. /\ Before(resume') = {} /\ Before([category |-> category', after |-> None]) = {}
      /\ pc' = "enter" /\ limitReached' = FALSE /\ pendingSave'.stage = "none"
  BY NothingBefore DEF LoseMemory, NoSave
<1>2. StatesBehind'
  BY <1>1 DEF StatesBehind, Before
<1>3. LoopBehind'
  BY <1>1 DEF LoopBehind, Before
<1>4. LeftBehind'
  BY <1>1 DEF LeftBehind
<1>5. QED
  BY <1>2, <1>3, <1>4 DEF SavedInv

LEMMA SavedInit == Init => SavedInv
<1> SUFFICES ASSUME Init PROVE SavedInv
  OBVIOUS
<1>1. /\ legacyState = NoLegacy /\ resume = NoLegacy /\ category = 1
      /\ pc = "enter" /\ limitReached = FALSE /\ pendingSave.stage = "none"
  BY DEF Init, MemoryIsFresh, NoSave
<1>2. QED
  BY <1>1, NothingBefore DEF SavedInv, StatesBehind, LoopBehind, LeftBehind

\* When a save has settled, everything submitted is saved.
LEMMA SettledIsSaved == SaveSettled => Submitted = handled
  BY DEF SaveSettled, Submitted, OnItsWay

\* The page in hand is submitted with the state that is to be written after it.
LEMMA SavedSubmit ==
  ASSUME TypeOK, SavedInv, SubmitPage
  PROVE  SavedInv'
<1> DEFINE next == Follow[category][after]
           here == [category |-> category, after |-> after]
           page == <<category, after>>
<1>1. /\ pc = "await" /\ SaveSettled /\ handled' = handled /\ Submitted = handled
      /\ UNCHANGED <<legacyState, run, options, category, resume>>
  BY SettledIsSaved DEF SubmitPage, diskVars
<1>2. PICK cut \in BOOLEAN, met \in BOOLEAN :
        /\ cut => options.items
        /\ met => options.pages
        /\ pendingSave' = [stage |-> "saving", category |-> category,
                           cursor |-> after, cut |-> cut,
                           state |-> StateAfterSave(next, cut, met)]
        /\ limitReached' = (cut \/ met)
        /\ IF cut \/ met \/ next = None \/ Repeated(next)
             THEN /\ GoTo("awaitLast")
                  /\ UNCHANGED <<after, seenCursors>>
             ELSE /\ GoTo("request")
                  /\ after' = next
                  /\ seenCursors' = seenCursors \cup {next}
  BY DEF SubmitPage
<1>3. /\ category \in Category /\ category \in Nat /\ after \in CursorsOf(category)
      /\ after \in Nat /\ seenCursors \subseteq Nat
      /\ next \in Nat /\ next <= after + 1
  <2>1. category \in Category /\ after \in CursorsOf(category) /\ seenCursors \subseteq Cursor
    BY <1>1, CategoryType DEF TypeOK
  <2>2. next \in Cursor /\ next <= after + 1
    BY <2>1, FollowAssumption DEF CursorsOf
  <2>3. QED
    BY <2>1, <2>2, CursorsAreNumbers
<1>4. /\ Before(here) \subseteq handled
      /\ Before([category |-> category, after |-> None]) \subseteq handled
      /\ PagesOf(category) \subseteq handled \/ \A k \in seenCursors : k <= after
  BY <1>1 DEF SavedInv, LoopBehind
<1>5. Submitted' = IF cut THEN handled ELSE handled \cup {page}
  BY <1>1, <1>2 DEF Submitted, OnItsWay
<1>6. ~cut => Before([category |-> category, after |-> next]) \subseteq Submitted'
  BY <1>3, <1>4, <1>5, NextBefore
<1>7. ASSUME ~cut, next # after + 1
      PROVE  PagesOf(category) \subseteq Submitted'
  BY <1>3, <1>4, <1>5, <1>7, LastBefore
<1>8. ASSUME ~cut, next = None \/ Repeated(next)
      PROVE  PagesOf(category) \subseteq Submitted'
  <2>1. CASE next # after + 1
    BY <1>7, <1>8, <2>1
  <2>2. CASE next = after + 1
    <3>1. next \in seenCursors /\ ~(next <= after)
      BY <1>3, <1>8, <2>2 DEF Repeated, None
    <3>2. PagesOf(category) \subseteq handled
      BY <1>4, <3>1
    <3>3. QED
      BY <1>5, <3>2
  <2>3. QED
    BY <2>1, <2>2
<1>9. Before(pendingSave'.state) \subseteq Submitted'
  <2>1. pendingSave'.state = StateAfterSave(next, cut, met)
    BY <1>2
  <2>2. CASE cut
    BY <1>4, <1>5, <2>1, <2>2 DEF StateAfterSave
  <2>3. CASE ~cut /\ next = None
    <3>1. \/ pendingSave'.state = [category |-> category + 1, after |-> None]
          \/ pendingSave'.state = NoLegacy
      BY <2>1, <2>3 DEF StateAfterSave, NextCategory
    <3>2. Before([category |-> category + 1, after |-> None]) \subseteq Submitted'
      BY <1>3, <1>4, <1>5, <1>8, <2>3, CategoryBefore
    <3>3. QED
      BY <3>1, <3>2, NothingBefore
  <2>4. CASE ~cut /\ next # None
    <3>1. \/ pendingSave'.state = here
          \/ pendingSave'.state = [category |-> category, after |-> next]
      BY <2>1, <2>4 DEF StateAfterSave
    <3>2. QED
      BY <1>4, <1>5, <1>6, <2>4, <3>1
  <2>5. QED
    BY <2>2, <2>3, <2>4
<1> HIDE DEF next, page
<1>10. StatesBehind'
  BY <1>1, <1>9 DEF SavedInv, StatesBehind, Before
<1>11. LeftBehind'
  <2>1. pendingSave'.stage # "none" /\ pc' \in {"awaitLast", "request"}
    BY <1>2 DEF GoTo
  <2>2. limitReached' => ~KeepsNothing'
    BY <1>1, <1>2 DEF KeepsNothing
  <2>3. QED
    BY <2>1, <2>2 DEF LeftBehind
<1>12. LoopBehind'
  <2>1. CASE cut \/ met \/ next = None \/ Repeated(next)
    <3>1. after' = after /\ seenCursors' = seenCursors /\ pc' = "awaitLast"
      BY <1>2, <2>1 DEF GoTo
    <3>2. handled \subseteq Submitted'
      BY <1>5
    <3>3. ~limitReached' => PagesOf(category) \subseteq Submitted'
      BY <1>2, <1>8, <2>1
    <3>4. QED
      BY <1>1, <1>4, <3>1, <3>2, <3>3 DEF LoopBehind, PagesOf, Before
  <2>2. CASE ~(cut \/ met \/ next = None \/ Repeated(next))
    <3>1. /\ after' = next /\ seenCursors' = seenCursors \cup {next} /\ pc' = "request"
      BY <1>2, <2>2 DEF GoTo
    <3>2. handled \subseteq Submitted'
      BY <1>5
    <3>3. \/ PagesOf(category) \subseteq Submitted'
          \/ \A k \in seenCursors' : k <= after'
      BY <1>3, <1>4, <1>7, <2>2, <3>1, <3>2
    <3>4. QED
      BY <1>1, <1>4, <1>6, <2>2, <3>1, <3>2, <3>3 DEF LoopBehind, PagesOf, Before
  <2>3. QED
    BY <2>1, <2>2
<1>13. QED
  BY <1>10, <1>11, <1>12 DEF SavedInv

LEMMA SavedNext ==
  TypeOK /\ MemoryFits /\ SavedInv /\ [Next]_vars => SavedInv'
<1> SUFFICES ASSUME TypeOK, MemoryFits, SavedInv, [Next]_vars PROVE SavedInv'
  OBVIOUS
<1>1. CASE UNCHANGED vars
  BY <1>1 DEF vars, diskVars, loopVars, SavedInv, StatesBehind, LoopBehind, LeftBehind,
              Submitted, OnItsWay, Before, PagesOf, KeepsNothing
\* The loop goes on, with the same page in hand or the next category's.
<1>2. ASSUME NEW asked, StartRun(asked) PROVE SavedInv'
  <2>1. /\ pc' = "enter" /\ pendingSave' = NoSave /\ limitReached' = FALSE
        /\ UNCHANGED <<legacyState, handled>> /\ resume' = legacyState
    BY <1>2 DEF StartRun, MemoryFits, MemoryIsFresh, diskVars
  <2>2. Before(legacyState) \subseteq handled
    BY DEF SavedInv, StatesBehind
  <2>3. Before([category |-> category', after |-> None]) \subseteq handled
    <3>1. CASE category' = 1
      BY <3>1, NothingBefore
    <3>2. CASE category' = legacyState.category /\ legacyState.category # 0
      <4>1. legacyState.category \in Category /\ legacyState.after \in CursorsOf(legacyState.category)
        BY <3>2 DEF TypeOK, LegacyState
      <4>2. legacyState.category \in Nat /\ legacyState.after \in Nat
        BY <4>1, CursorsAreNumbers
      <4>3. legacyState = [category |-> legacyState.category, after |-> legacyState.after]
        BY DEF TypeOK, LegacyState
      <4>4. QED
        BY <2>2, <3>2, <4>2, <4>3, CategoryBefore
    <3>3. QED
      BY <1>2, <3>1, <3>2 DEF StartRun
  <2>4. pendingSave'.stage = "none"
    BY <2>1 DEF NoSave
  <2>5. QED
    BY <2>1, <2>2, <2>3, <2>4
    DEF SavedInv, StatesBehind, LoopBehind, LeftBehind, Before
<1>3. CASE EnterCategory
  <2>1. /\ pc' = "request" /\ seenCursors' = {}
        /\ UNCHANGED <<legacyState, handled, options, category, resume, limitReached,
                       pendingSave>>
        /\ after' = IF resume.category = category THEN resume.after ELSE None
    BY <1>3 DEF EnterCategory, GoTo, diskVars
  <2>2. Before([category |-> category, after |-> after']) \subseteq handled
    <3>1. CASE resume.category = category
      <4>1. resume = [category |-> category, after |-> after']
        BY <2>1, <3>1 DEF TypeOK, LegacyState
      <4>2. QED
        BY <4>1 DEF SavedInv, StatesBehind
    <3>2. CASE resume.category # category
      BY <2>1, <3>2 DEF SavedInv, LoopBehind
    <3>3. QED
      BY <3>1, <3>2
  <2>3. Submitted' = Submitted /\ handled \subseteq Submitted
    BY <2>1 DEF Submitted, OnItsWay
  <2>4. StatesBehind' /\ LeftBehind'
    BY <2>1, <2>3 DEF SavedInv, StatesBehind, LeftBehind, Before, KeepsNothing
  <2>5. LoopBehind'
    BY <2>1, <2>2, <2>3 DEF SavedInv, LoopBehind, Before
  <2>6. QED
    BY <2>4, <2>5 DEF SavedInv
<1>4. CASE ReceivePage \/ RequestFails
  <2>1. /\ pc = "request" /\ pc' \in {"await", "failing"}
        /\ UNCHANGED <<legacyState, handled, options, category, after, seenCursors,
                       resume, limitReached, pendingSave>>
    BY <1>4 DEF ReceivePage, RequestFails, GoTo, diskVars
  <2>2. Submitted' = Submitted
    BY <2>1 DEF Submitted, OnItsWay
  <2>3. StatesBehind' /\ LeftBehind'
    BY <2>1, <2>2 DEF SavedInv, StatesBehind, LeftBehind, Before, KeepsNothing
  <2>4. LoopBehind'
    BY <2>1, <2>2 DEF SavedInv, LoopBehind, Before, PagesOf
  <2>5. QED
    BY <2>3, <2>4 DEF SavedInv
<1>5. CASE ReturnFailure
  <2>1. Before([category |-> category, after |-> after]) \subseteq handled
    BY <1>5, SettledIsSaved DEF ReturnFailure, SavedInv, LoopBehind
  <2>2. QED
    BY <1>5, <2>1, SavedFresh DEF ReturnFailure, WriteStateFile
<1>6. CASE Crash \/ ErrorEscapes
  BY <1>6, SavedFresh DEF Crash, ErrorEscapes, diskVars, SavedInv, StatesBehind, Before
<1>7. CASE EndRun
  <2>1. Before(legacyState') \subseteq handled
    BY <1>7, NothingBefore DEF EndRun, WriteStateFile, SavedInv, StatesBehind
  <2>2. QED
    BY <1>7, <2>1, SavedFresh DEF EndRun
<1>8. CASE SubmitPage
  BY <1>8, SavedSubmit
<1>9. CASE LeaveCategory
  <2>1. /\ pc = "awaitLast" /\ SaveSettled /\ Submitted = handled
        /\ pendingSave'.stage = "none" /\ resume' = NoLegacy
        /\ UNCHANGED <<legacyState, handled, options, after, seenCursors, limitReached>>
    BY <1>9, SettledIsSaved DEF LeaveCategory, NoSave, diskVars
  <2>2. Submitted' = handled
    BY <2>1 DEF Submitted, OnItsWay
  <2>3. category \in Nat
    BY CategoryType, CursorsAreNumbers
  <2>4. ~limitReached =>
          Before([category |-> category + 1, after |-> None]) \subseteq handled
    BY <2>1, <2>3, CategoryBefore DEF SavedInv, LoopBehind
  <2>5. StatesBehind'
    BY <2>1, NothingBefore DEF SavedInv, StatesBehind, Before
  <2>6. CASE limitReached \/ category = options.listed
    <3>1. pc' = "leave" /\ category' = category
      BY <1>9, <2>6 DEF LeaveCategory, GoTo
    <3>2. LoopBehind'
      BY <2>1, <2>2, <3>1 DEF SavedInv, LoopBehind, Before, PagesOf
    <3>3. LeftBehind'
      BY <2>1, <2>4, <2>6, <3>1 DEF SavedInv, LeftBehind, KeepsNothing, Before
    <3>4. QED
      BY <2>5, <3>2, <3>3 DEF SavedInv
  <2>7. CASE ~(limitReached \/ category = options.listed)
    <3>1. pc' = "enter" /\ category' = category + 1
      BY <1>9, <2>7 DEF LeaveCategory, GoTo
    <3>2. LoopBehind'
      BY <2>1, <2>4, <2>7, <3>1 DEF LoopBehind, Before
    <3>3. LeftBehind'
      BY <2>1, <2>7, <3>1 DEF LeftBehind
    <3>4. QED
      BY <2>5, <3>2, <3>3 DEF SavedInv
  <2>8. QED
    BY <2>6, <2>7
\* The saver thread: what was submitted stays submitted.
<1>10. ASSUME UNCHANGED <<options, loopVars>>, handled \subseteq handled',
              Submitted \subseteq Submitted',
              pendingSave.stage # "none", pendingSave'.stage # "none",
              pendingSave'.state = pendingSave.state,
              Before(legacyState') \subseteq handled'
       PROVE  SavedInv'
  <2>1. StatesBehind'
    BY <1>10 DEF SavedInv, StatesBehind, loopVars, Before
  <2>2. LoopBehind'
    BY <1>10 DEF SavedInv, LoopBehind, loopVars, Before, PagesOf
  <2>3. LeftBehind'
    BY <1>10 DEF SavedInv, LeftBehind, loopVars, Before, KeepsNothing
  <2>4. QED
    BY <2>1, <2>2, <2>3 DEF SavedInv
<1>11. ASSUME NEW stage, SaveStep(stage)
       PROVE  /\ pendingSave'.stage = stage /\ pendingSave'.state = pendingSave.state
              /\ pendingSave'.cut = pendingSave.cut
              /\ pendingSave'.category = pendingSave.category
              /\ pendingSave'.cursor = pendingSave.cursor
  BY <1>11 DEF SaveStep, TypeOK
<1>12. Before(legacyState) \subseteq handled
  BY DEF SavedInv, StatesBehind
<1>13. CASE SavePage
  <2>1. handled \subseteq handled' /\ Submitted \subseteq Submitted'
    BY <1>11, <1>13 DEF SavePage, Submitted, OnItsWay
  <2>2. QED
    BY <1>10, <1>11, <1>12, <1>13, <2>1 DEF SavePage, Before
<1>14. CASE SaveRaises
  <2>1. handled \subseteq handled' /\ Submitted \subseteq Submitted'
    BY <1>11, <1>14 DEF SaveRaises, Submitted, OnItsWay, diskVars
  <2>2. QED
    BY <1>10, <1>11, <1>12, <1>14, <2>1 DEF SaveRaises, Before, diskVars
<1>15. CASE SaveState
  <2>1. handled' = handled /\ Submitted = handled /\ Submitted' = handled
    BY <1>11, <1>15 DEF SaveState, Submitted, OnItsWay
  <2>2. Before(pendingSave.state) \subseteq handled
    BY <1>15, <2>1 DEF SaveState, SavedInv, StatesBehind
  <2>3. Before(legacyState') \subseteq handled'
    BY <1>12, <1>15, <2>1, <2>2 DEF SaveState, WriteStateFile
  <2>4. QED
    BY <1>10, <1>11, <1>15, <2>1, <2>3 DEF SaveState
<1>16. QED
  BY <1>1, <1>2, <1>3, <1>4, <1>5, <1>6, <1>7, <1>8, <1>9, <1>13, <1>14, <1>15
  DEF Next, LoopStep, SaverStep, StartFullRun, StartLimitedRun, Rest

LEMMA SavedInvHolds == Spec => []SavedInv
<1>1. TypeOK /\ MemoryFits /\ SavedInv /\ [Next]_vars => SavedInv'
  BY SavedNext
<1>2. QED
  BY <1>1, SavedInit, TypeCorrect, MemoryFitsHolds, PTL DEF Spec

\* Whichever limited runs, errors and crashes a pass is made of, what the state
\* file makes the next full run skip has been saved.
THEOREM ResumeIsSafe == Spec => []ResumePointBehindSaves
<1>1. TypeOK /\ SavedInv => ResumePointBehindSaves
  BY CoveredIsBefore DEF SavedInv, StatesBehind, ResumePointBehindSaves
<1>2. QED
  BY <1>1, TypeCorrect, SavedInvHolds, PTL

-----------------------------------------------------------------------------
(* The collection implements the abstract pass. *)

LEMMA PassInit == Init /\ TypeOK /\ ResumePointBehindSaves => Pass!Init
  BY DEF Init, Pass!Init, TypeOK, ResumePointBehindSaves

LEMMA EverythingIsBeforeTheEnd ==
  Before([category |-> NumCategories + 1, after |-> None]) = Page
<1>1. \A p \in Page : p[1] < NumCategories + 1
  BY PageNumbers, SizeAssumption DEF Category
<1>2. QED
  BY <1>1 DEF Before

\* A pass that is over is whole, and has no state file.
WholeWhenFinished == run = "finished" => Page \subseteq handled /\ legacyState = NoLegacy

LEMMA WholeNext == SavedInv /\ WholeWhenFinished /\ [Next]_vars => WholeWhenFinished'
<1> SUFFICES ASSUME SavedInv, WholeWhenFinished, [Next]_vars, run' = "finished"
             PROVE  Page \subseteq handled' /\ legacyState' = NoLegacy
  BY DEF WholeWhenFinished
<1>1. CASE UNCHANGED vars \/ Rest
  BY <1>1 DEF WholeWhenFinished, Rest, vars, diskVars
<1>2. CASE EndRun
  <2>1. /\ pc = "leave" /\ KeepsNothing /\ options = FullRun
        /\ legacyState' = NoLegacy /\ handled' = handled
    BY <1>2 DEF EndRun, WriteStateFile
  <2>2. QED
    BY <2>1, EverythingIsBeforeTheEnd DEF SavedInv, LeftBehind, FullRun
<1>3. QED
  BY <1>1, <1>2 DEF Next, StartFullRun, StartLimitedRun, StartRun, Crash, LoopStep, SaverStep,
     EnterCategory, ReceivePage, RequestFails, ReturnFailure, ErrorEscapes, SubmitPage,
     LeaveCategory, SavePage, SaveState, SaveRaises

LEMMA PassStep ==
  TypeOK /\ TypeOK' /\ MemoryFits /\ SavedInv /\ ResumePointBehindSaves' /\ [Next]_vars
    => [Pass!Next]_Pass!vars
<1> SUFFICES ASSUME TypeOK, TypeOK', MemoryFits, SavedInv, ResumePointBehindSaves',
                    [Next]_vars
             PROVE  [Pass!Next]_Pass!vars
  OBVIOUS
<1> USE DEF diskVars, loopVars
<1>1. ASSUME run # "finished", run' # "finished", handled' = handled
      PROVE  Pass!Next
  <2>1. Covered' \subseteq handled
    BY <1>1 DEF ResumePointBehindSaves
  <2>2. Pass!WriteResumePoint
    BY <1>1, <2>1 DEF Pass!WriteResumePoint
  <2>3. QED
    BY <2>2 DEF Pass!Next
<1>2. ASSUME run = "working", EndRun, run' = "finished"
      PROVE  Pass!Next
  <2>1. /\ pc = "leave" /\ KeepsNothing /\ options = FullRun
        /\ legacyState' = NoLegacy /\ handled' = handled
    BY <1>2 DEF EndRun, WriteStateFile
  <2>2. Page \subseteq handled
    BY <2>1, EverythingIsBeforeTheEnd DEF SavedInv, LeftBehind, FullRun
  <2>3. Covered' = {}
    <3>1. (TypeOK => Covered = Before(legacyState))'
      BY CoveredIsBefore, PTL
    <3>2. Before(legacyState') = {}
      BY <2>1, NothingBefore
    <3>3. QED
      BY <3>1, <3>2 DEF Before
  <2>4. Pass!Finish
    BY <1>2, <2>1, <2>2, <2>3 DEF Pass!Finish
  <2>5. QED
    BY <2>4 DEF Pass!Next
<1>3. ASSUME run = "working", SavePage
      PROVE  Pass!Next
  <2>1. PICK pages \in SUBSET Page : handled' = handled \cup pages
    <3>1. <<pendingSave.category, pendingSave.cursor>> \in Page
      BY <1>3 DEF SavePage, MemoryFits
    <3>2. CASE pendingSave.cut
      <4>1. handled' = handled \cup {} /\ {} \in SUBSET Page
        BY <1>3, <3>2 DEF SavePage
      <4>2. QED
        BY <4>1, Zenon
    <3>3. CASE ~pendingSave.cut
      BY <1>3, <3>1, <3>3 DEF SavePage
    <3>4. QED
      BY <3>2, <3>3
  <2>2. Covered' = Covered /\ run' = run
    BY <1>3 DEF SavePage, Covered, Skips
  <2>3. Pass!HandlePages(pages)
    BY <1>3, <2>1, <2>2 DEF Pass!HandlePages
  <2>4. QED
    BY <2>3 DEF Pass!Next
<1>4. CASE UNCHANGED vars \/ Rest
  BY <1>4 DEF vars, Rest, Pass!vars, Covered, Skips
<1>5. CASE StartFullRun \/ StartLimitedRun \/ Crash
  BY <1>1, <1>5 DEF StartFullRun, StartLimitedRun, StartRun, Crash
<1>6. ASSUME run = "working", LoopStep \/ RequestFails \/ SaverStep \/ SaveRaises
      PROVE  [Pass!Next]_Pass!vars
  <2>1. CASE EnterCategory \/ ReceivePage \/ RequestFails \/ SubmitPage \/ LeaveCategory
    BY <1>1, <1>6, <2>1 DEF EnterCategory, ReceivePage, RequestFails, SubmitPage, LeaveCategory
  <2>2. CASE ReturnFailure \/ ErrorEscapes
    BY <1>1, <1>6, <2>2 DEF ReturnFailure, ErrorEscapes
  <2>3. CASE EndRun
    <3>1. run' \in {"down", "finished"} /\ handled' = handled
      BY <2>3 DEF EndRun
    <3>2. QED
      BY <1>1, <1>2, <1>6, <2>3, <3>1
  <2>4. CASE SavePage
    BY <1>3, <1>6, <2>4
  <2>5. CASE SaveState \/ SaveRaises
    BY <1>1, <1>6, <2>5 DEF SaveState, SaveRaises
  <2>6. QED
    BY <1>6, <2>1, <2>2, <2>3, <2>4, <2>5 DEF LoopStep, SaverStep
<1>7. QED
  BY <1>4, <1>5, <1>6 DEF Next

\* The sequential collection, limited runs included, implements the abstract
\* collection pass: it only finishes a pass whose pages are all saved.
THEOREM ImplementsPass == Spec => PassSpec
  BY TypeCorrect, MemoryFitsHolds, SavedInvHolds, ResumeIsSafe, PassInit, PassStep, PTL
  DEF Spec, PassSpec, Pass!Spec

-----------------------------------------------------------------------------
(* AdvanceInv is kept. *)

LEMMA NotBehindItself == \A state : NotBehind(state, state)
  BY DEF NotBehind

LEMMA NotBehindAll ==
  ASSUME NEW a, NEW b, NEW c, NotBehind(a, b), NotBehind(b, c)
  PROVE  NotBehind(a, c)
  BY DEF NotBehind

LEMMA NoStateIsBehind ==
  ASSUME NEW state
  PROVE  /\ NotBehind(NoLegacy, state)
         /\ NotBehind([category |-> 1, after |-> None], state)
  BY NothingBefore DEF NotBehind

\* Going on in a category, to its end, or to an earlier cursor.
LEMMA GoesOn ==
  ASSUME NEW c \in Category, NEW k \in CursorsOf(c)
  PROVE  /\ NotBehind([category |-> c, after |-> k],
                      [category |-> c + 1, after |-> None])
         /\ Follow[c][k] # None =>
              NotBehind([category |-> c, after |-> k],
                        [category |-> c, after |-> Follow[c][k]])
<1>1. \A p \in Page : p[1] \in Nat /\ p[2] \in Nat
  BY PageNumbers
<1>2. c \in Nat /\ k \in Nat /\ Follow[c][k] \in Nat
  BY FollowFits, CursorsAreNumbers
<1>3. NotBehind([category |-> c, after |-> k], [category |-> c + 1, after |-> None])
  BY <1>1, <1>2 DEF NotBehind, Before
<1>4. ASSUME Follow[c][k] # None
      PROVE  NotBehind([category |-> c, after |-> k],
                       [category |-> c, after |-> Follow[c][k]])
  <2>1. CASE Follow[c][k] \in 1..k
    <3>1. Repeats(c)
      BY <2>1 DEF Repeats
    <3>2. QED
      BY <1>1, <1>2, <3>1 DEF NotBehind, Before
  <2>2. CASE Follow[c][k] \notin 1..k
    <3>1. k < Follow[c][k]
      BY <1>2, <1>4, <2>2 DEF None
    <3>2. QED
      BY <1>1, <1>2, <3>1 DEF NotBehind, Before
  <2>3. QED
    BY <2>1, <2>2
<1>5. QED
  BY <1>3, <1>4

LEMMA AdvanceStart ==
  ASSUME TypeOK, MemoryFits, NEW asked \in Options, StartRun(asked)
  PROVE  AdvanceInv'
<1>1. SUFFICES ASSUME asked.listed = NumCategories PROVE AdvanceInv'
  BY DEF StartRun, AdvanceInv, WholeRun
<1>2. /\ pc' = "enter" /\ pendingSave'.stage = "none" /\ resume' = legacyState
      /\ legacyState' = legacyState
  BY DEF StartRun, MemoryFits, MemoryIsFresh, NoSave, diskVars
<1>3. CASE legacyState = NoLegacy
  BY <1>2, <1>3, NoStateIsBehind DEF AdvanceInv
<1>4. CASE legacyState # NoLegacy
  <2>1. /\ legacyState.category \in Category
        /\ legacyState.after \in CursorsOf(legacyState.category)
        /\ legacyState = [category |-> legacyState.category, after |-> legacyState.after]
    BY <1>4 DEF TypeOK, LegacyState
  <2>2. category' = legacyState.category
    BY <1>1, <2>1 DEF StartRun, Category
  <2>3. Position' = legacyState
    BY <1>2, <2>2 DEF Position
  <2>4. NotBehind(legacyState, CategoryDone')
    BY <2>1, <2>2, GoesOn DEF CategoryDone
  <2>5. QED
    BY <1>2, <2>3, <2>4, NotBehindItself DEF AdvanceInv
<1>5. QED
  BY <1>3, <1>4

LEMMA AdvanceSubmit ==
  ASSUME TypeOK, AdvanceInv, WholeRun, SubmitPage
  PROVE  AdvanceInv'
<1> DEFINE next == Follow[category][after]
           here == [category |-> category, after |-> after]
<1>1. /\ pc = "await" /\ UNCHANGED <<legacyState, run, options, category>>
      /\ Position = here
  BY DEF SubmitPage, diskVars, Position
<1>2. PICK cut \in BOOLEAN :
        /\ pendingSave' = [stage |-> "saving", category |-> category,
                           cursor |-> after, cut |-> cut,
                           state |-> StateAfterSave(next, cut, FALSE)]
        /\ IF cut \/ next = None \/ Repeated(next)
             THEN GoTo("awaitLast") /\ UNCHANGED <<after, seenCursors>>
             ELSE GoTo("request") /\ after' = next
  BY DEF SubmitPage, WholeRun
<1>3. category \in Category /\ after \in CursorsOf(category)
  BY <1>1, CategoryType DEF TypeOK
<1>4. /\ NotBehind(legacyState, here)
      /\ NotBehind(here, CategoryDone)
      /\ next # None => NotBehind(here, [category |-> category, after |-> next])
  BY <1>1, <1>3, GoesOn DEF AdvanceInv, CategoryDone
<1>5. next \in CursorsOf(category)
  BY <1>3, FollowFits
<1>6. NotBehind([category |-> category, after |-> next], CategoryDone)
  BY <1>3, <1>5, GoesOn DEF CategoryDone
<1>7. pendingSave'.state = StateAfterSave(next, cut, FALSE) /\ CategoryDone' = CategoryDone
  BY <1>1, <1>2 DEF CategoryDone
<1> DEFINE state == pendingSave'.state
<1>8. CASE cut \/ next = None \/ Repeated(next)
  <2>1. pc' = "awaitLast"
    BY <1>2, <1>8 DEF GoTo
  <2>2. state \in {here, CategoryDone, NoLegacy}
    BY <1>7, <1>8 DEF StateAfterSave, NextCategory, CategoryDone
  <2>3. /\ NotBehind(legacyState, CategoryDone)
        /\ state # NoLegacy =>
             NotBehind(legacyState, state) /\ NotBehind(state, CategoryDone)
    BY <1>4, <2>2, NotBehindItself, NotBehindAll
  <2>4. QED
    BY <1>1, <1>7, <2>1, <2>3 DEF AdvanceInv
<1>9. CASE ~(cut \/ next = None \/ Repeated(next))
  <2>1. pc' = "request" /\ after' = next
    BY <1>2, <1>9 DEF GoTo
  <2>2. state = [category |-> category, after |-> next] /\ Position' = state
    BY <1>1, <1>7, <1>9, <2>1 DEF StateAfterSave, Position
  <2>3. /\ NotBehind(legacyState, state) /\ NotBehind(state, CategoryDone)
        /\ NotBehind(legacyState, CategoryDone)
    BY <1>4, <1>6, <1>9, <2>2, NotBehindAll
  <2>4. QED
    BY <1>1, <1>7, <2>1, <2>2, <2>3, NotBehindItself DEF AdvanceInv
<1>10. QED
  BY <1>8, <1>9

LEMMA AdvanceNext ==
  TypeOK /\ MemoryFits /\ SavedInv /\ AdvanceInv /\ [Next]_vars => AdvanceInv'
<1> SUFFICES ASSUME TypeOK, MemoryFits, SavedInv, AdvanceInv, [Next]_vars
             PROVE  AdvanceInv'
  OBVIOUS
<1>1. CASE UNCHANGED vars
  BY <1>1 DEF vars, diskVars, loopVars, AdvanceInv, WholeRun, Position, CategoryDone
<1>2. ASSUME run' # "working" PROVE AdvanceInv'
  BY <1>2 DEF AdvanceInv, WholeRun
<1>3. CASE StartFullRun \/ StartLimitedRun
  <2>1. FullRun \in Options
    BY CursorsAreNumbers DEF FullRun, Options
  <2>2. QED
    BY <1>3, <2>1, AdvanceStart DEF StartFullRun, StartLimitedRun
<1>4. CASE Crash \/ Rest
  BY <1>1, <1>2, <1>4 DEF Crash, Rest
<1>5. ASSUME run = "working", ~WholeRun, UNCHANGED <<run, options>> PROVE AdvanceInv'
  BY <1>5 DEF AdvanceInv, WholeRun
<1>6. ASSUME run = "working", ReturnFailure \/ ErrorEscapes \/ EndRun PROVE AdvanceInv'
  BY <1>2, <1>6 DEF ReturnFailure, ErrorEscapes, EndRun
<1>7. ASSUME WholeRun, EnterCategory PROVE AdvanceInv'
  <2>1. /\ pc = "enter" /\ pc' = "request" /\ pendingSave.stage = "none"
        /\ UNCHANGED <<legacyState, category, pendingSave>>
        /\ after' = IF resume.category = category THEN resume.after ELSE None
    BY <1>7 DEF EnterCategory, GoTo, diskVars, SavedInv, LeftBehind
  <2>2. Position' = Position
    BY <2>1 DEF Position, TypeOK, LegacyState
  <2>3. CategoryDone' = CategoryDone
    BY <2>1 DEF CategoryDone
  <2>4. QED
    BY <1>7, <2>1, <2>2, <2>3 DEF AdvanceInv
<1>8. ASSUME WholeRun, ReceivePage \/ RequestFails PROVE AdvanceInv'
  <2>1. /\ pc = "request" /\ pc' \in {"await", "failing"}
        /\ UNCHANGED <<legacyState, category, after, pendingSave>>
    BY <1>8 DEF ReceivePage, RequestFails, GoTo, diskVars
  <2>2. Position' = Position /\ CategoryDone' = CategoryDone
    BY <2>1 DEF Position, CategoryDone
  <2>3. QED
    BY <1>8, <2>1, <2>2 DEF AdvanceInv
<1>9. ASSUME WholeRun, SubmitPage PROVE AdvanceInv'
  BY <1>9, AdvanceSubmit
<1>10. ASSUME WholeRun, LeaveCategory PROVE AdvanceInv'
  <2>1. /\ legacyState' = legacyState /\ pendingSave'.stage = "none"
        /\ resume' = NoLegacy /\ NotBehind(legacyState, CategoryDone)
    BY <1>10 DEF LeaveCategory, NoSave, diskVars, AdvanceInv
  <2>2. CASE limitReached \/ category = options.listed
    <3>1. pc' = "leave" /\ CategoryDone' = CategoryDone
      BY <1>10, <2>2 DEF LeaveCategory, GoTo, CategoryDone
    <3>2. QED
      BY <2>1, <3>1 DEF AdvanceInv
  <2>3. CASE ~(limitReached \/ category = options.listed)
    <3>1. pc' = "enter" /\ category' = category + 1 /\ category + 1 \in Category
      <4>1. category < options.listed
        BY <2>3, SizeAssumption DEF TypeOK, Options, Category
      <4>2. category + 1 \in Category
        BY <4>1, CategoryType
      <4>3. QED
        BY <1>10, <2>3, <4>2 DEF LeaveCategory, GoTo
    <3>2. Position' = CategoryDone
      BY <2>1, <3>1 DEF Position, CategoryDone, NoLegacy, Category
    <3>3. NotBehind(CategoryDone, CategoryDone')
      BY <3>1, GoesOn, NoneIsCursor DEF CategoryDone
    <3>4. NotBehind(legacyState, CategoryDone')
      BY <2>1, <3>3, NotBehindAll
    <3>5. QED
      BY <2>1, <3>2, <3>4 DEF AdvanceInv
  <2>4. QED
    BY <2>2, <2>3
<1>11. ASSUME NEW stage, SaveStep(stage) PROVE pendingSave'.state = pendingSave.state
  BY <1>11 DEF SaveStep, TypeOK
<1>12. ASSUME WholeRun, SavePage \/ SaveRaises PROVE AdvanceInv'
  <2>1. /\ UNCHANGED <<legacyState, loopVars>> /\ pendingSave'.state = pendingSave.state
        /\ pendingSave.stage # "none"
    BY <1>11, <1>12 DEF SavePage, SaveRaises, diskVars
  <2>2. Position' = Position /\ CategoryDone' = CategoryDone /\ pc' = pc
    BY <2>1 DEF Position, CategoryDone, loopVars
  <2>3. QED
    BY <1>12, <2>1, <2>2 DEF AdvanceInv
<1>13. ASSUME WholeRun, SaveState PROVE AdvanceInv'
  <2>1. /\ UNCHANGED loopVars /\ pendingSave'.state = pendingSave.state
        /\ pendingSave.stage # "none"
        /\ legacyState' = IF pendingSave.state = NoLegacy THEN legacyState
                          ELSE pendingSave.state
    BY <1>11, <1>13 DEF SaveState, WriteStateFile
  <2>2. Position' = Position /\ CategoryDone' = CategoryDone /\ pc' = pc
    BY <2>1 DEF Position, CategoryDone, loopVars
  <2>3. pc # "enter"
    BY <2>1 DEF SavedInv, LeftBehind
  <2>4. QED
    BY <1>13, <2>1, <2>2, <2>3, NotBehindItself DEF AdvanceInv
<1>14. ASSUME run = "working", LoopStep \/ RequestFails \/ SaverStep \/ SaveRaises
       PROVE  AdvanceInv'
  <2>1. CASE ReturnFailure \/ ErrorEscapes \/ EndRun
    BY <1>6, <1>14, <2>1
  <2>2. CASE WholeRun
    BY <1>7, <1>8, <1>9, <1>10, <1>12, <1>13, <1>14, <2>1, <2>2 DEF LoopStep, SaverStep
  <2>3. CASE ~WholeRun /\ ~(ReturnFailure \/ ErrorEscapes \/ EndRun)
    <3>1. UNCHANGED <<run, options>>
      BY <1>14, <2>3
      DEF LoopStep, SaverStep, EnterCategory, ReceivePage, RequestFails, SubmitPage,
          LeaveCategory, SavePage, SaveRaises, SaveState
    <3>2. QED
      BY <1>5, <1>14, <2>3, <3>1
  <2>4. QED
    BY <2>1, <2>2, <2>3
<1>15. QED
  BY <1>1, <1>3, <1>4, <1>14 DEF Next

LEMMA AdvanceInvHolds == Spec => []AdvanceInv
<1>1. Init => AdvanceInv
  BY DEF Init, AdvanceInv, WholeRun
<1>2. TypeOK /\ MemoryFits /\ SavedInv /\ AdvanceInv /\ [Next]_vars => AdvanceInv'
  BY AdvanceNext
<1>3. QED
  BY <1>1, <1>2, TypeCorrect, MemoryFitsHolds, SavedInvHolds, PTL DEF Spec

LEMMA AdvanceStep ==
  TypeOK /\ TypeOK' /\ MemoryFits /\ AdvanceInv /\ [Next]_vars =>
    (options.listed = NumCategories /\ ~options.pages /\ run' # "finished"
       => \A p \in Covered : p \in Covered' \/ Repeats(p[1]))
<1> SUFFICES ASSUME TypeOK, TypeOK', MemoryFits, AdvanceInv, [Next]_vars,
                    options.listed = NumCategories, ~options.pages, run' # "finished"
             PROVE  \A p \in Covered : p \in Covered' \/ Repeats(p[1])
  OBVIOUS
<1>1. Covered = Before(legacyState)
  BY CoveredIsBefore
<1>2. Covered' = Before(legacyState')
  <2>1. (TypeOK => Covered = Before(legacyState))'
    BY CoveredIsBefore, PTL
  <2>2. QED
    BY <2>1 DEF Before
<1>3. SUFFICES NotBehind(legacyState, legacyState')
  BY <1>1, <1>2 DEF NotBehind
<1>4. CASE legacyState' = legacyState
  BY <1>4, NotBehindItself
<1>5. ASSUME run = "working", ReturnFailure PROVE NotBehind(legacyState, legacyState')
  BY <1>5 DEF ReturnFailure, WriteStateFile, AdvanceInv, WholeRun, Position
<1>6. ASSUME run = "working", EndRun PROVE legacyState' = legacyState
  <2>1. CASE KeepsNothing
    <3>1. options = FullRun
      BY <2>1 DEF KeepsNothing, TypeOK, Options, FullRun
    <3>2. QED
      BY <1>6, <2>1, <3>1 DEF EndRun
  <2>2. CASE ~KeepsNothing
    BY <1>6, <2>2 DEF EndRun
  <2>3. QED
    BY <2>1, <2>2
<1>7. ASSUME run = "working", SaveState PROVE NotBehind(legacyState, legacyState')
  BY <1>7, NotBehindItself DEF SaveState, WriteStateFile, AdvanceInv, WholeRun
<1>8. CASE UNCHANGED vars \/ Rest \/ StartFullRun \/ StartLimitedRun \/ Crash
  BY <1>4, <1>8 DEF vars, Rest, StartFullRun, StartLimitedRun, StartRun, Crash, diskVars
<1>9. CASE \/ EnterCategory \/ ReceivePage \/ RequestFails \/ ErrorEscapes \/ SubmitPage
           \/ LeaveCategory \/ SavePage \/ SaveRaises
  BY <1>4, <1>9 DEF EnterCategory, ReceivePage, RequestFails, ErrorEscapes, SubmitPage,
                    LeaveCategory, SavePage, SaveRaises, diskVars
<1>10. QED
  BY <1>4, <1>5, <1>6, <1>7, <1>8, <1>9 DEF Next, LoopStep, SaverStep

\* A run of the whole list without a page limit never sets the state back,
\* except where the server goes round in a circle.
THEOREM OnlyAdvances == Spec => StateOnlyAdvances
  BY AdvanceStep, TypeCorrect, MemoryFitsHolds, AdvanceInvHolds, PTL
  DEF Spec, StateOnlyAdvances
=============================================================================
