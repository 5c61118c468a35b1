------------------------- MODULE DomeggookDiscoverProofs -------------------------
(* Proofs about DomeggookDiscover, for every number of positions, pages,     *)
(* limits and faults.                                                        *)
EXTENDS DomeggookDiscover, FiniteSetTheorems, WellFoundedInduction, TLAPS

-----------------------------------------------------------------------------
(* Positions. *)

\* A set of numbers has a least one.
LEMMA NatMinimum ==
  ASSUME NEW S \in SUBSET Nat, S # {}
  PROVE  Min(S) \in S /\ \A y \in S : Min(S) <= y
<1> DEFINE R == {ss \in Nat \X Nat : ss[1] < ss[2]}
<1>1. IsWellFoundedOn(R, Nat)
  BY NatLessThanWellFounded DEF OpToRel
<1> HIDE DEF R
<1>2. PICK x \in S : \A y \in S : ~(<<y, x>> \in R)
  BY <1>1, WFMin
<1>3. ASSUME NEW y \in S PROVE x <= y
  <2>1. ~(<<y, x>> \in R) /\ x \in Nat /\ y \in Nat
    BY <1>2
  <2>2. ~(y < x)
    BY <2>1 DEF R
  <2>3. QED
    BY <2>1, <2>2
<1>4. QED
  BY <1>3 DEF Min

LEMMA PositionsAreNumbers ==
  /\ NumPositions \in Nat /\ NumPositions > 0
  /\ Position \subseteq Nat \ {0}
  /\ 1 \in Position /\ NumPositions \in Position
  /\ \A pos \in Position : pos <= NumPositions
  /\ FlushPages \in Nat /\ FlushPages > 0 /\ MaxPages \in Nat /\ MaxPages > 0
  BY DiscoverAssumption DEF Position

\* The positions of a list from one on, without those that are gone.
LEMMA FromPosition ==
  ASSUME NEW pos \in Nat \ {0}
  PROVE  /\ PositionsFrom(pos) \subseteq Position
         /\ \A other \in Position : other >= pos /\ other \notin gone
                <=> other \in PositionsFrom(pos)
  BY PositionsAreNumbers DEF PositionsFrom, Position

LEMMA LastPageType == \A pos \in Position : LastPage(pos) \in Nat
  BY DiscoverAssumption DEF LastPage

LEMMA ListPages ==
  \A p : p \in ListPage <=> p \in ResumePoint /\ p.page >= 1 /\ p.page <= LastPage(p.pos)
<1>1. ASSUME NEW p \in ListPage
      PROVE  p \in ResumePoint /\ p.page >= 1 /\ p.page <= LastPage(p.pos)
  <2>1. PICK pos \in Position : p \in {[pos |-> pos, page |-> n] : n \in 1..LastPage(pos)}
    BY DEF ListPage
  <2>2. PICK n \in 1..LastPage(pos) : p = [pos |-> pos, page |-> n]
    BY <2>1
  <2>3. QED
    BY <2>2, LastPageType DEF ResumePoint
<1>2. ASSUME NEW p \in ResumePoint, p.page >= 1, p.page <= LastPage(p.pos)
      PROVE  p \in ListPage
  <2>1. /\ p.pos \in Position /\ p.page \in 1..LastPage(p.pos)
        /\ p = [pos |-> p.pos, page |-> p.page]
    BY <1>2, LastPageType DEF ResumePoint
  <2>2. QED
    BY <2>1 DEF ListPage
<1>3. QED
  BY <1>1, <1>2

LEMMA PlaceFields ==
  /\ \A p \in ResumePoint : p.pos \in Position /\ p.pos \in Nat /\ p.page \in Nat
  /\ \A p, q \in ResumePoint : p.pos = q.pos /\ p.page = q.page => p = q
  /\ \A pos \in Position, n \in Nat :
        /\ [pos |-> pos, page |-> n] \in ResumePoint
        /\ [pos |-> pos, page |-> n].pos = pos /\ [pos |-> pos, page |-> n].page = n
<1>1. \A p \in ResumePoint : /\ p.pos \in Position /\ p.page \in Nat
                             /\ p = [pos |-> p.pos, page |-> p.page]
  BY DEF ResumePoint
<1>2. \A pos \in Position, n \in Nat :
        /\ [pos |-> pos, page |-> n] \in ResumePoint
        /\ [pos |-> pos, page |-> n].pos = pos /\ [pos |-> pos, page |-> n].page = n
  BY DEF ResumePoint
<1>3. QED
  BY <1>1, <1>2, PositionsAreNumbers

LEMMA NoStateIsPlace == NoState \in ResumePoint /\ NoState.pos = 1 /\ NoState.page = 0
  BY PositionsAreNumbers DEF NoState, ResumePoint

\* Nothing is skipped where there is no state.
LEMMA NothingCovered == Covered(NoState) = {}
  BY ListPages, PlaceFields, NoStateIsPlace, PositionsAreNumbers DEF Covered, Before

\* Discovery begins with the first position there is: one always is.
LEMMA FirstPlaceFits ==
  ASSUME gone \subseteq Vanishing
  PROVE  /\ FirstPlace \in ResumePoint /\ FirstPlace.page = 1
         /\ FirstPlace.pos \notin gone
         /\ \A pos \in Position : pos < FirstPlace.pos => pos \in gone
<1>1. /\ PositionsFrom(1) \subseteq Position
      /\ \A pos \in Position : pos \in PositionsFrom(1) <=> pos \notin gone
  BY FromPosition, PositionsAreNumbers
<1>2. PositionsFrom(1) # {}
  BY <1>1, DiscoverAssumption
<1>3. /\ Min(PositionsFrom(1)) \in PositionsFrom(1)
      /\ \A y \in PositionsFrom(1) : Min(PositionsFrom(1)) <= y
  BY <1>1, <1>2, NatMinimum, PositionsAreNumbers
<1>4. Min(PositionsFrom(1)) \in Position
  BY <1>1, <1>3
<1>5. /\ FirstPlace \in ResumePoint /\ FirstPlace.page = 1
      /\ FirstPlace.pos = Min(PositionsFrom(1))
  BY <1>4, PlaceFields DEF FirstPlace
<1>6. ASSUME NEW pos \in Position, pos < FirstPlace.pos
      PROVE  pos \in gone
  <2>1. pos \in Nat /\ FirstPlace.pos \in Nat
    BY <1>4, <1>5, PositionsAreNumbers
  <2>2. QED
    BY <1>1, <1>3, <1>5, <1>6, <2>1
<1>7. QED
  BY <1>1, <1>3, <1>5, <1>6

\* The next position is behind the one the run is at, and what lies between
\* them is gone.
LEMMA NextPositionFits ==
  ASSUME here \in ResumePoint
  PROVE  \/ /\ NextPosition # NoState
            /\ NextPosition \in ResumePoint /\ NextPosition.page = 1
            /\ NextPosition.pos > here.pos /\ NextPosition.pos \notin gone
            /\ \A pos \in Position :
                 here.pos < pos /\ pos < NextPosition.pos => pos \in gone
         \/ /\ NextPosition = NoState
            /\ \A pos \in Position : here.pos < pos => pos \in gone
<1> DEFINE S == PositionsFrom(here.pos + 1)
<1>1. here.pos \in Position /\ here.pos \in Nat
  BY PlaceFields
<1>2. /\ S \subseteq Position
      /\ \A pos \in Position : pos >= here.pos + 1 /\ pos \notin gone <=> pos \in S
  BY <1>1, FromPosition
<1>3. CASE S = {}
  BY <1>1, <1>2, <1>3, PositionsAreNumbers DEF NextPosition
<1>4. CASE S # {}
  <2>1. Min(S) \in S /\ \A y \in S : Min(S) <= y
    BY <1>2, <1>4, NatMinimum, PositionsAreNumbers
  <2>2. Min(S) \in Position /\ Min(S) \in Nat
    BY <1>2, <2>1, PositionsAreNumbers
  <2>3. /\ NextPosition \in ResumePoint /\ NextPosition.page = 1
        /\ NextPosition.pos = Min(S)
    BY <1>4, <2>2, PlaceFields DEF NextPosition
  <2>4. NextPosition # NoState
    BY <2>3, NoStateIsPlace
  <2>5. Min(S) > here.pos /\ Min(S) \notin gone
    BY <1>1, <1>2, <2>1, <2>2
  <2>6. ASSUME NEW pos \in Position, here.pos < pos, pos < Min(S)
        PROVE  pos \in gone
    <3>1. pos \in Nat /\ pos >= here.pos + 1 /\ ~(Min(S) <= pos)
      BY <1>1, <2>2, <2>6, PositionsAreNumbers
    <3>2. QED
      BY <1>2, <2>1, <3>1
  <2>7. QED
    BY <2>3, <2>4, <2>5, <2>6
<1>5. QED
  BY <1>3, <1>4

-----------------------------------------------------------------------------
(* Type correctness. *)

\* A resume point that is written names a page.
RealPlace(state) == state # NoState => state.page >= 1

FileType ==
    /\ stateFile \in ResumePoint /\ RealPlace(stateFile)
    /\ handled \in SUBSET ListPage /\ ranks \in SUBSET ListPage
    /\ received \in SUBSET ListPage /\ cleared \in BOOLEAN
    /\ gone \subseteq Vanishing /\ passOver \in BOOLEAN

Runs == {"down", "loop", "flush", "write", "lastFlush", "clear"}

RunType ==
    /\ run \in Runs
    /\ here \in ResumePoint /\ here.page >= 1
    /\ buffer \in SUBSET ListPage
    /\ resume \in ResumePoint /\ RealPlace(resume)
    /\ leave \in {"page", "position", "run"}
    /\ attempt \in 0..MaxRetries
    /\ pageCount \in Nat /\ pagesHere \in Nat

FaultType ==
    /\ faults \in [Faults -> Nat]
    /\ \A kind \in Faults : faults[kind] <= Limit[kind]

\* What is not running holds nothing; what runs is at a position there is, and
\* leaves for the place its reason to leave implies.
PlaceInv ==
    /\ passOver => run = "down"
    /\ run = "down" => buffer = {} /\ pagesHere = 0
    /\ run # "down" => here.pos \notin gone
    /\ run \in {"flush", "write"} =>
        /\ leave = "page" => resume = here
        /\ leave = "position" => resume = NextPosition
        /\ leave = "run" => resume # NoState
        /\ resume # NoState => resume.pos \notin gone

TypeInv == FileType /\ RunType /\ FaultType /\ PlaceInv

LEMMA TypeInvImplies == TypeInv => TypeOK
  BY DEF TypeInv, FileType, RunType, FaultType, Runs, TypeOK

LEMMA KeptTypes ==
  /\ FileType /\ UNCHANGED <<stateFile, storeVars, historyVars, gone, passOver>> => FileType'
  /\ RunType /\ UNCHANGED <<run, memoryVars>> => RunType'
  /\ FaultType /\ UNCHANGED faults => FaultType'
  BY DEF FileType, RunType, FaultType, RealPlace, storeVars, historyVars, memoryVars

LEMMA FaultKept ==
  ASSUME FaultType, NEW kind \in Faults, Fault(kind)
  PROVE  FaultType'
<1>1. \A other \in Faults : Limit[other] \in Nat
  BY DiscoverAssumption DEF Limit, Faults
<1>2. faults \in [Faults -> Nat] /\ \A other \in Faults : faults[other] <= Limit[other]
  BY DEF FaultType
<1>3. /\ faults[kind] < Limit[kind]
      /\ faults' = [faults EXCEPT ![kind] = faults[kind] + 1]
  BY DEF Fault
<1>4. faults' \in [Faults -> Nat]
  BY <1>2, <1>3
<1>5. \A other \in Faults : faults'[other] =
        IF other = kind THEN faults[other] + 1 ELSE faults[other]
  BY <1>2, <1>3
<1>6. \A other \in Faults : faults'[other] <= Limit[other]
  BY <1>1, <1>2, <1>3, <1>5
<1>7. QED
  BY <1>4, <1>6 DEF FaultType

LEMMA FaultKinds == {"stop", "save", "crash", "list"} = Faults
  BY DEF Faults

LEMMA LimitTypes ==
  /\ 0 \in 0..MaxRetries /\ MaxRetries \in Nat
  /\ \A kind \in Faults : Limit[kind] \in Nat
  BY DiscoverAssumption DEF Limit, Faults

LEMMA FirstPage == [pos |-> 1, page |-> 1] \in ResumePoint
  BY PositionsAreNumbers DEF ResumePoint

\* A run that ends leaves nothing in memory.
LEMMA MemoryLost == LoseMemory => RunType' /\ (run = "down" /\ buffer = {} /\ pagesHere = 0)'
<1> SUFFICES ASSUME LoseMemory
             PROVE  RunType' /\ (run = "down" /\ buffer = {} /\ pagesHere = 0)'
  OBVIOUS
<1>1. here' \in ResumePoint /\ here'.page >= 1
  BY FirstPage DEF LoseMemory
<1>2. resume' \in ResumePoint /\ RealPlace(resume')
  BY NoStateIsPlace DEF LoseMemory, RealPlace
<1>3. QED
  BY <1>1, <1>2, LimitTypes DEF LoseMemory, RunType, Runs, RealPlace

LEMMA TypeInit == Init => TypeInv
<1> SUFFICES ASSUME Init PROVE TypeInv
  OBVIOUS
<1>1. FileType
  BY NoStateIsPlace DEF Init, FileType, RealPlace
<1>2. RunType
  BY FirstPage, NoStateIsPlace, LimitTypes DEF Init, RunType, Runs, RealPlace
<1>3. FaultType
  BY LimitTypes DEF Init, FaultType
<1>4. PlaceInv
  BY DEF Init, PlaceInv
<1>5. QED
  BY <1>1, <1>2, <1>3, <1>4 DEF TypeInv

\* A run goes on where the one before left off, or at a first position.
LEMMA StartPlaceFits ==
  ASSUME FileType
  PROVE  /\ StartPlace \in ResumePoint /\ StartPlace.page >= 1
         /\ StartPlace.pos \notin gone
         /\ stateFile = NoState => StartPlace = FirstPlace
         /\ stateFile # NoState /\ stateFile.pos \notin gone => StartPlace = stateFile
         /\ stateFile # NoState /\ stateFile.pos \in gone =>
              StartPlace.pos = FirstPlace.pos /\ StartPlace.page = stateFile.page
<1>1. /\ FirstPlace \in ResumePoint /\ FirstPlace.page = 1
      /\ FirstPlace.pos \notin gone
  BY FirstPlaceFits DEF FileType
<1>2. stateFile \in ResumePoint /\ (stateFile # NoState => stateFile.page >= 1)
  BY DEF FileType, RealPlace
<1>3. CASE stateFile = NoState
  BY <1>1, <1>3 DEF StartPlace
<1>4. CASE stateFile # NoState /\ stateFile.pos \notin gone
  BY <1>2, <1>4 DEF StartPlace
<1>5. CASE stateFile # NoState /\ stateFile.pos \in gone
  <2>1. StartPlace = [stateFile EXCEPT !.pos = FirstPlace.pos]
    BY <1>5 DEF StartPlace
  <2>2. FirstPlace.pos \in Position
    BY <1>1, PlaceFields
  <2>3. /\ StartPlace \in ResumePoint /\ StartPlace.pos = FirstPlace.pos
        /\ StartPlace.page = stateFile.page
    BY <1>2, <2>1, <2>2 DEF ResumePoint
  <2>4. QED
    BY <1>1, <1>2, <1>5, <2>3
<1>6. QED
  BY <1>3, <1>4, <1>5

LEMMA PageAfterFits ==
  ASSUME NEW p \in ResumePoint
  PROVE  /\ PageAfter(p) \in ResumePoint /\ PageAfter(p).pos = p.pos
         /\ PageAfter(p).page = p.page + 1 /\ PageAfter(p) # NoState
<1>1. PageAfter(p) \in ResumePoint /\ PageAfter(p).pos = p.pos /\ PageAfter(p).page = p.page + 1
  BY DEF PageAfter, ResumePoint
<1>2. QED
  BY <1>1, PlaceFields, NoStateIsPlace

LEMMA PlaceIsNoState ==
  ASSUME NEW p \in ResumePoint, p.page >= 1
  PROVE  p # NoState /\ RealPlace(p)
  BY NoStateIsPlace DEF RealPlace

\* NextPosition looks at the place of the run and at what is gone.
LEMMA SameNext == here' = here /\ gone' = gone => NextPosition' = NextPosition
  BY DEF NextPosition, PositionsFrom

LEMMA TypeStart == TypeInv /\ StartRun => TypeInv'
<1> SUFFICES ASSUME TypeInv, StartRun PROVE TypeInv'
  OBVIOUS
<1>1. /\ FileType /\ RunType /\ FaultType /\ PlaceInv
      /\ run' = "loop" /\ ~passOver /\ here' = StartPlace
      /\ UNCHANGED <<stateFile, storeVars, gone, attempt, buffer, resume, leave,
                     pageCount, pagesHere, passOver, faults>>
      /\ received' \in {received, {}} /\ cleared' = FALSE
  BY DEF TypeInv, StartRun, BeginAt
<1>2. /\ StartPlace \in ResumePoint /\ StartPlace.page >= 1
      /\ StartPlace.pos \notin gone
  BY <1>1, StartPlaceFits
<1>3. FileType'
  BY <1>1 DEF FileType, RealPlace, storeVars
<1>4. RunType'
  BY <1>1, <1>2 DEF RunType, Runs, RealPlace
<1>5. FaultType' /\ PlaceInv'
  BY <1>1, <1>2 DEF FaultType, PlaceInv
<1>6. QED
  BY <1>3, <1>4, <1>5 DEF TypeInv

LEMMA TypeDown ==
  TypeInv /\ (DropCategory \/ CategoriesFail \/ Crash \/ FlushRaises) => TypeInv'
<1> SUFFICES ASSUME TypeInv, DropCategory \/ CategoriesFail \/ Crash \/ FlushRaises
             PROVE  TypeInv'
  OBVIOUS
<1>1. FileType /\ RunType /\ FaultType /\ PlaceInv
  BY DEF TypeInv
<1>2. FaultType'
  BY <1>1, FaultKept, FaultKinds DEF DropCategory, CategoriesFail, Crash, FlushRaises
<1>3. CASE DropCategory
  <2>1. /\ gone' \subseteq Vanishing /\ run = "down"
        /\ UNCHANGED <<stateFile, storeVars, historyVars, run, memoryVars, passOver>>
    BY <1>1, <1>3 DEF DropCategory, FileType
  <2>2. FileType' /\ RunType'
    BY <1>1, <2>1, KeptTypes DEF FileType, RealPlace, storeVars, historyVars
  <2>3. PlaceInv'
    BY <1>1, <2>1 DEF PlaceInv, memoryVars
  <2>4. QED
    BY <1>2, <2>2, <2>3 DEF TypeInv
<1>4. CASE CategoriesFail
  <2>1. /\ UNCHANGED <<stateFile, storeVars, historyVars, gone, run, memoryVars, passOver>>
        /\ run = "down"
    BY <1>4 DEF CategoriesFail
  <2>2. FileType' /\ RunType'
    BY <1>1, <2>1, KeptTypes
  <2>3. PlaceInv'
    BY <1>1, <2>1 DEF PlaceInv, memoryVars
  <2>4. QED
    BY <1>2, <2>2, <2>3 DEF TypeInv
<1>5. CASE Crash \/ FlushRaises
  <2>1. /\ UNCHANGED <<stateFile, storeVars, gone, historyVars, passOver>>
        /\ LoseMemory
    BY <1>5 DEF Crash, FlushRaises
  <2>2. FileType' /\ RunType'
    BY <1>1, <2>1, KeptTypes, MemoryLost
  <2>3. PlaceInv'
    BY <1>1, <2>1, MemoryLost DEF PlaceInv
  <2>4. QED
    BY <1>2, <2>2, <2>3 DEF TypeInv
<1>6. QED
  BY <1>3, <1>4, <1>5

LEMMA TypeStops == TypeInv /\ (StopEarly \/ RetryList \/ ListFails) => TypeInv'
<1> SUFFICES ASSUME TypeInv, StopEarly \/ RetryList \/ ListFails PROVE TypeInv'
  OBVIOUS
<1>1. FileType /\ RunType /\ FaultType /\ PlaceInv
  BY DEF TypeInv
<1>2. /\ UNCHANGED <<stateFile, storeVars, gone, historyVars, here, buffer, pageCount,
                     pagesHere, passOver>>
      /\ run = "loop"
  BY DEF StopEarly, RetryList, ListFails
<1>3. FileType'
  BY <1>1, <1>2, KeptTypes
<1>4. CASE RetryList
  <2>1. attempt' \in 0..MaxRetries
    BY <1>1, <1>4, LimitTypes DEF RetryList, RunType
  <2>2. RunType' /\ FaultType' /\ PlaceInv'
    BY <1>1, <1>2, <1>4, <2>1 DEF RetryList, RunType, RealPlace, FaultType, PlaceInv
  <2>3. QED
    BY <1>3, <2>2 DEF TypeInv
<1>5. CASE StopEarly \/ ListFails
  <2>1. /\ run' = "flush" /\ resume' = here /\ leave' = "run"
        /\ attempt' \in {attempt, 0}
    BY <1>5 DEF StopEarly, ListFails, FlushAndWrite
  <2>2. here # NoState /\ RealPlace(here)
    BY <1>1, PlaceIsNoState DEF RunType
  <2>3. RunType' /\ PlaceInv'
    BY <1>1, <1>2, <2>1, <2>2, LimitTypes DEF RunType, Runs, RealPlace, PlaceInv
  <2>4. FaultType'
    BY <1>1, <1>5, FaultKept, FaultKinds DEF StopEarly, ListFails
  <2>5. QED
    BY <1>3, <2>3, <2>4 DEF TypeInv
<1>6. QED
  BY <1>4, <1>5

LEMMA NextPositionType ==
  ASSUME here \in ResumePoint
  PROVE  /\ NextPosition \in ResumePoint /\ RealPlace(NextPosition)
         /\ NextPosition # NoState => NextPosition.pos \notin gone
  BY NextPositionFits, NoStateIsPlace DEF RealPlace

LEMMA TypeEmptyPage == TypeInv /\ ReceiveEmptyPage => TypeInv'
<1> SUFFICES ASSUME TypeInv, ReceiveEmptyPage PROVE TypeInv'
  OBVIOUS
<1>1. /\ FileType /\ RunType /\ FaultType /\ PlaceInv
      /\ UNCHANGED <<stateFile, storeVars, gone, historyVars, here, buffer, passOver, faults>>
      /\ run = "loop" /\ run' = "write" /\ resume' = NextPosition /\ leave' = "position"
      /\ attempt' = 0 /\ pageCount' = pageCount + 1 /\ pagesHere' = pagesHere + 1
  BY DEF TypeInv, ReceiveEmptyPage
<1>2. FileType' /\ FaultType'
  BY <1>1, KeptTypes
<1>3. RunType'
  BY <1>1, NextPositionType, LimitTypes DEF RunType, Runs, RealPlace
<1>4. PlaceInv'
  BY <1>1, NextPositionType, SameNext DEF PlaceInv, RunType
<1>5. QED
  BY <1>2, <1>3, <1>4 DEF TypeInv

\* A page with items: the position ends, the run ends, or the next page follows.
LEMMA AfterPage ==
  ASSUME RunType, ReceivePage
  PROVE  /\ here \in ListPage /\ run = "loop"
         /\ received' = received \cup {here} /\ buffer' = buffer \cup {here}
         /\ attempt' = 0 /\ pageCount' = pageCount + 1 /\ pagesHere' = pagesHere + 1
         /\ UNCHANGED <<stateFile, storeVars, cleared, gone, passOver, faults>>
         /\ \/ /\ IsShort(here) \/ pagesHere' >= MaxPages
               /\ run' = "flush" /\ leave' = "position" /\ resume' = NextPosition
               /\ here' = here
            \/ /\ ~IsShort(here)
               /\ run' = "flush" /\ leave' = "run" /\ resume' = PageAfter(here)
               /\ here' = here
            \/ /\ ~IsShort(here) /\ ~(pagesHere' >= MaxPages)
               /\ here' = PageAfter(here)
               /\ \/ run' = "flush" /\ leave' = "page" /\ resume' = here'
                  \/ /\ ~ReadyToFlush(buffer')
                     /\ UNCHANGED <<run, resume, leave>>
<1>1. here \in ListPage /\ run = "loop"
  BY DEF ReceivePage
<1>2. /\ received' = received \cup {here} /\ buffer' = buffer \cup {here}
      /\ attempt' = 0 /\ pageCount' = pageCount + 1 /\ pagesHere' = pagesHere + 1
      /\ UNCHANGED <<stateFile, storeVars, cleared, gone, passOver, faults>>
  BY DEF ReceivePage, Add
<1>3. CASE IsShort(here) \/ pagesHere' >= MaxPages
  BY <1>1, <1>2, <1>3 DEF ReceivePage, FlushAndWrite
<1>4. CASE ~(IsShort(here) \/ pagesHere' >= MaxPages) /\ pageCount' >= PageLimit
  BY <1>1, <1>2, <1>4 DEF ReceivePage, FlushAndWrite
<1>5. CASE ~(IsShort(here) \/ pagesHere' >= MaxPages) /\ ~(pageCount' >= PageLimit)
  <2>1. /\ here' = PageAfter(here)
        /\ IF ReadyToFlush(buffer') THEN FlushAndWrite(here', "page")
                                    ELSE UNCHANGED <<run, resume, leave>>
    BY <1>5 DEF ReceivePage
  <2>2. QED
    BY <1>1, <1>2, <1>5, <2>1 DEF FlushAndWrite
<1>6. QED
  BY <1>3, <1>4, <1>5

LEMMA TypePage == TypeInv /\ ReceivePage => TypeInv'
<1> SUFFICES ASSUME TypeInv, ReceivePage PROVE TypeInv'
  OBVIOUS
<1>1. FileType /\ RunType /\ FaultType /\ PlaceInv
  BY DEF TypeInv
<1>2. /\ here \in ListPage /\ run = "loop"
      /\ received' = received \cup {here} /\ buffer' = buffer \cup {here}
      /\ attempt' = 0 /\ pageCount' = pageCount + 1 /\ pagesHere' = pagesHere + 1
      /\ UNCHANGED <<stateFile, storeVars, cleared, gone, passOver, faults>>
  BY <1>1, AfterPage
<1>3. FileType' /\ FaultType'
  BY <1>1, <1>2, KeptTypes DEF FileType, RealPlace, storeVars
<1>4. /\ PageAfter(here) \in ResumePoint /\ PageAfter(here).pos = here.pos
      /\ PageAfter(here).page >= 1 /\ PageAfter(here) # NoState
      /\ RealPlace(PageAfter(here))
  BY <1>1, PageAfterFits, PlaceFields DEF RunType, RealPlace
<1>5. /\ NextPosition \in ResumePoint /\ RealPlace(NextPosition)
      /\ NextPosition # NoState => NextPosition.pos \notin gone
  BY <1>1, NextPositionType DEF RunType
<1>6. /\ here' \in {here, PageAfter(here)} /\ run' \in {"flush", run}
      /\ resume' \in {resume, NextPosition, PageAfter(here)}
      /\ leave' \in {leave, "page", "position", "run"}
  BY <1>1, AfterPage
<1>7. RunType'
  <2>1. here' \in ResumePoint /\ here'.page >= 1
    BY <1>1, <1>4, <1>6 DEF RunType
  <2>2. resume' \in ResumePoint /\ RealPlace(resume)'
    BY <1>1, <1>4, <1>5, <1>6 DEF RunType, RealPlace
  <2>3. pageCount' \in Nat /\ pagesHere' \in Nat /\ attempt' \in 0..MaxRetries
    BY <1>1, <1>2, LimitTypes DEF RunType
  <2>4. QED
    BY <1>1, <1>2, <1>6, <2>1, <2>2, <2>3 DEF RunType, Runs
<1>8. PlaceInv'
  <2>1. here'.pos = here.pos /\ run' \in {"flush", "loop"}
    BY <1>2, <1>4, <1>6
  <2>2. run' = "flush" =>
          \/ leave' = "position" /\ resume' = NextPosition /\ here' = here
          \/ leave' = "run" /\ resume' = PageAfter(here)
          \/ leave' = "page" /\ resume' = here' /\ here' = PageAfter(here)
    BY <1>1, <1>2, AfterPage
  <2>3. run' = "flush" =>
          /\ leave' = "page" => resume' = here'
          /\ leave' = "position" => resume' = NextPosition'
          /\ leave' = "run" => resume' # NoState
          /\ resume' # NoState => resume'.pos \notin gone
    BY <1>1, <1>2, <1>4, <1>5, <2>2, SameNext DEF PlaceInv
  <2>4. ~passOver /\ here.pos \notin gone
    BY <1>1, <1>2 DEF PlaceInv
  <2>5. QED
    BY <1>2, <2>1, <2>3, <2>4 DEF PlaceInv
<1>9. QED
  BY <1>3, <1>7, <1>8 DEF TypeInv

LEMMA TypeFlush == TypeInv /\ Flush => TypeInv'
<1> SUFFICES ASSUME TypeInv, Flush PROVE TypeInv'
  OBVIOUS
<1>1. /\ FileType /\ RunType /\ FaultType /\ PlaceInv
      /\ handled' = handled \cup buffer /\ ranks' = ranks \cup RankedPages(buffer)
      /\ buffer' = {}
      /\ UNCHANGED <<stateFile, historyVars, gone, here, attempt, resume, leave, pageCount,
                     pagesHere, passOver, faults>>
      /\ \/ run = "flush" /\ run' = "write"
         \/ run = "lastFlush" /\ run' = "clear"
  BY DEF TypeInv, Flush, Save, UpsertTargets, UpsertRanks, AfterFlush
<1>2. RankedPages(buffer) \subseteq ListPage
  BY <1>1 DEF RankedPages, RunType
<1>3. FileType'
  BY <1>1, <1>2 DEF FileType, RunType, RealPlace, historyVars
<1>4. RunType' /\ FaultType'
  BY <1>1 DEF RunType, Runs, RealPlace, FaultType
<1>5. PlaceInv'
  BY <1>1, SameNext DEF PlaceInv
<1>6. QED
  BY <1>3, <1>4, <1>5 DEF TypeInv

\* The state names the place the run goes on from, or is gone with the run's
\* last position.
LEMMA AfterWrite ==
  ASSUME TypeInv, WriteState
  PROVE  /\ run = "write" /\ stateFile' = resume
         /\ cleared' = (cleared \/ resume = NoState)
         /\ UNCHANGED <<storeVars, received, gone, passOver, faults>>
         /\ \/ run' = "loop" /\ leave = "page" /\ resume = here /\ UNCHANGED memoryVars
            \/ /\ leave = "position" /\ resume = NextPosition /\ NextPosition # NoState
               /\ run' = "loop" /\ here' = resume /\ pagesHere' = 0
               /\ UNCHANGED <<attempt, buffer, resume, leave, pageCount>>
            \/ /\ leave = "position" /\ resume = NextPosition /\ resume = NoState
               /\ run' = "lastFlush" /\ UNCHANGED memoryVars
            \/ leave = "run" /\ resume # NoState /\ LoseMemory
<1>1. /\ run = "write" /\ stateFile' = resume
      /\ cleared' = (cleared \/ resume = NoState)
      /\ UNCHANGED <<storeVars, received, gone, passOver, faults>>
      /\ GoOn
  BY DEF WriteState, SaveState
<1>2. /\ leave = "page" => resume = here
      /\ leave = "position" => resume = NextPosition
      /\ leave = "run" => resume # NoState
      /\ leave \in {"page", "position", "run"}
  BY <1>1 DEF TypeInv, PlaceInv, RunType
<1>3. CASE leave = "page"
  BY <1>1, <1>2, <1>3 DEF GoOn
<1>4. CASE leave = "run"
  BY <1>1, <1>2, <1>4 DEF GoOn
<1>5. CASE leave = "position" /\ NextPosition # NoState
  BY <1>1, <1>2, <1>5 DEF GoOn
<1>6. CASE leave = "position" /\ NextPosition = NoState
  BY <1>1, <1>2, <1>6 DEF GoOn
<1>7. QED
  BY <1>2, <1>3, <1>4, <1>5, <1>6

LEMMA TypeWrite == TypeInv /\ WriteState => TypeInv'
<1> SUFFICES ASSUME TypeInv, WriteState PROVE TypeInv'
  OBVIOUS
<1>1. FileType /\ RunType /\ FaultType /\ PlaceInv
  BY DEF TypeInv
<1>2. /\ run = "write" /\ stateFile' = resume
      /\ cleared' = (cleared \/ resume = NoState)
      /\ UNCHANGED <<storeVars, received, gone, passOver, faults>>
  BY AfterWrite
<1>3. FileType' /\ FaultType'
  BY <1>1, <1>2 DEF FileType, RunType, RealPlace, FaultType, storeVars
<1>4. ~passOver /\ here.pos \notin gone /\ (resume # NoState => resume.pos \notin gone)
  BY <1>1, <1>2 DEF PlaceInv
<1>5. CASE run' = "loop" /\ leave = "page" /\ UNCHANGED memoryVars
  BY <1>1, <1>2, <1>3, <1>4, <1>5 DEF TypeInv, RunType, Runs, RealPlace, PlaceInv, memoryVars
<1>6. CASE /\ leave = "position" /\ resume = NextPosition /\ NextPosition # NoState
           /\ run' = "loop" /\ here' = resume /\ pagesHere' = 0
           /\ UNCHANGED <<attempt, buffer, resume, leave, pageCount>>
  <2>1. here' \in ResumePoint /\ here'.page >= 1 /\ here'.pos \notin gone
    BY <1>1, <1>4, <1>6 DEF RunType, RealPlace
  <2>2. RunType'
    BY <1>1, <1>6, <2>1 DEF RunType, Runs, RealPlace
  <2>3. PlaceInv'
    BY <1>2, <1>4, <1>6, <2>1 DEF PlaceInv
  <2>4. QED
    BY <1>3, <2>2, <2>3 DEF TypeInv
<1>7. CASE run' = "lastFlush" /\ UNCHANGED memoryVars
  BY <1>1, <1>2, <1>3, <1>4, <1>7 DEF TypeInv, RunType, Runs, RealPlace, PlaceInv, memoryVars
<1>8. CASE LoseMemory
  BY <1>2, <1>3, <1>4, <1>8, MemoryLost DEF TypeInv, PlaceInv
<1>9. QED
  BY <1>5, <1>6, <1>7, <1>8, AfterWrite

LEMMA TypeClear == TypeInv /\ ClearState => TypeInv'
<1> SUFFICES ASSUME TypeInv, ClearState PROVE TypeInv'
  OBVIOUS
<1>1. /\ FileType /\ FaultType
      /\ stateFile' = NoState /\ passOver' = TRUE /\ LoseMemory
      /\ UNCHANGED <<storeVars, historyVars, gone, faults>>
  BY DEF TypeInv, ClearState, SaveState
<1>2. FileType' /\ FaultType'
  BY <1>1, NoStateIsPlace DEF FileType, RealPlace, FaultType, storeVars, historyVars
<1>3. QED
  BY <1>1, <1>2, MemoryLost DEF TypeInv, PlaceInv

LEMMA TypeStill == TypeInv /\ UNCHANGED vars => TypeInv'
<1> SUFFICES ASSUME TypeInv, UNCHANGED vars PROVE TypeInv'
  OBVIOUS
<1>1. /\ UNCHANGED <<stateFile, storeVars, historyVars, gone, passOver>>
      /\ UNCHANGED <<run, memoryVars>> /\ UNCHANGED faults
  BY DEF vars
<1>2. FileType' /\ RunType' /\ FaultType'
  BY <1>1, KeptTypes DEF TypeInv
<1>3. PlaceInv'
  BY <1>1, SameNext DEF TypeInv, PlaceInv, memoryVars
<1>4. QED
  BY <1>2, <1>3 DEF TypeInv

LEMMA TypeNext == TypeInv /\ [Next]_vars => TypeInv'
  BY TypeStart, TypeDown, TypeStops, TypeEmptyPage, TypePage, TypeFlush, TypeWrite,
     TypeClear, TypeStill DEF Next, Step, Rest

LEMMA TypeInvHolds == Spec => []TypeInv
  BY TypeInit, TypeNext, PTL DEF Spec

\* The variables keep their types: a run is always at a page of a position there
\* is, and no fault happens more often than its limit.
THEOREM TypeCorrect == Spec => []TypeOK
  BY TypeInvHolds, TypeInvImplies, PTL

-----------------------------------------------------------------------------
(* What is skipped has been saved. *)

\* An empty page leaves the buffer in memory while the state names the next
\* position: that is harmless where nothing is buffered or no position follows.
EmptyPagesHarmless ==
    \A pos \in Position \ ShortEnds : FullPages[pos] = 0 \/ pos = NumPositions

\* The state of a position that is gone gives its page to the first position:
\* that is harmless where the first position was behind the run already.
FirstPositionStays == 1 \notin Vanishing

\* The pages that a run from the state skips although they can be had.
Due(state) == {p \in Page : Before(p, state) /\ p.pos \notin gone}

Through(pos) == {p \in Page : p.pos <= pos /\ p.pos \notin gone}

Whole == {p \in Page : p.pos \notin gone}

Held == handled \cup buffer

RanksWithTargets == ranks = RankedPages(handled)

StateBehind == Due(stateFile) \subseteq handled

\* What lies behind the page a run is at is saved or in its buffer, and a
\* buffer that is not empty is of a position whose end will flush it.
LoopBehind ==
    run = "loop" =>
        /\ Due(here) \subseteq Held
        /\ pagesHere < here.page
        /\ buffer # {} =>
            /\ LastPage(here.pos) > 0
            /\ here.pos \in ShortEnds => here.page <= LastPage(here.pos)

\* The same for the resume point on its way to the state file, which is written
\* after what lies behind it has been saved.
LeftBehind ==
    /\ run \in {"flush", "write"} =>
        /\ Due(resume) \subseteq Held
        /\ leave = "page" => pagesHere < here.page
        /\ leave = "position" => Through(here.pos) \subseteq Held
    /\ run = "write" =>
        /\ Due(resume) \subseteq handled
        /\ resume # NoState => buffer = {}
    /\ run = "lastFlush" => Whole \subseteq Held
    /\ run = "clear" => Whole \subseteq handled

SavedInv == RanksWithTargets /\ StateBehind /\ LoopBehind /\ LeftBehind

\* The pages behind the place, and those a run from there can buffer.
Window(place) ==
    {p \in ListPage : /\ p.pos = place.pos
                      /\ p.page >= place.page /\ p.page < place.page + FlushPages}

Near(state, place) == received \subseteq Covered(state) \cup Window(place)

\* The state is removed behind the last position, where the run goes on with
\* the last flush.
ClearedLast ==
    /\ cleared => stateFile = NoState /\ run \in {"down", "lastFlush", "clear"}
    /\ run \in {"lastFlush", "clear"} => cleared

\* Until then, what has been received and is not behind the state file is within
\* one window, where the next run begins unless the state's position is gone.
FileNear ==
    ~cleared =>
        /\ \E place \in ResumePoint : Near(stateFile, place)
        /\ run # "down" \/ stateFile.pos \notin gone => Near(stateFile, StartPlace)

\* A buffer is small, and as large as the way from where the run, or its last
\* state, began.
LoopNear ==
    /\ run \in {"loop", "write"} => IsFiniteSet(buffer) /\ Cardinality(buffer) < FlushPages
    /\ run = "loop" =>
        /\ Near(here, here)
        /\ buffer \subseteq Covered(here)
        /\ here.pos = StartPlace.pos
        /\ StartPlace.page <= here.page
        /\ here.page <= StartPlace.page + Cardinality(buffer)

LeftNear ==
    /\ run \in {"flush", "write"} /\ resume # NoState => Near(resume, resume)
    /\ run = "write" /\ resume # NoState => buffer \subseteq Covered(resume)

NearInv == ClearedLast /\ FileNear /\ LoopNear /\ LeftNear

-----------------------------------------------------------------------------
(* SavedInv is kept. *)

LEMMA PageFields ==
  \A p \in Page : /\ p \in ListPage /\ p \in ResumePoint
                  /\ p.pos \in Position /\ p.pos \in Nat
                  /\ p.page \in Nat /\ p.page >= 1 /\ p.page <= LastPage(p.pos)
                  /\ p.page <= MaxPages
  BY ListPages, PlaceFields DEF Page

LEMMA PagesKept ==
  ASSUME gone' = gone
  PROVE  /\ \A state : Due(state)' = Due(state)
         /\ \A pos : Through(pos)' = Through(pos)
         /\ Whole' = Whole
  BY DEF Due, Through, Whole

LEMMA NothingDue == Due(NoState) = {}
  BY PageFields, NoStateIsPlace, PositionsAreNumbers DEF Due, Before

\* Going on page by page adds the page that is left.
LEMMA DueAfterPage ==
  ASSUME NEW p \in ResumePoint
  PROVE  Due(PageAfter(p)) \subseteq Due(p) \cup {p}
<1>1. ASSUME NEW q \in Due(PageAfter(p)), q # p
      PROVE  q \in Due(p)
  <2>1. /\ q \in Page /\ Before(q, PageAfter(p)) /\ q.pos \notin gone
    BY <1>1 DEF Due
  <2>2. /\ q.pos \in Nat /\ q.page \in Nat /\ p.pos \in Nat /\ p.page \in Nat
        /\ q \in ResumePoint
    BY <2>1, PageFields, PlaceFields
  <2>3. q.pos < p.pos \/ (q.pos = p.pos /\ q.page < p.page + 1)
    BY <2>1, PageAfterFits DEF Before
  <2>4. ~(q.pos = p.pos /\ q.page = p.page)
    BY <1>1, <2>2, PlaceFields
  <2>5. Before(q, p)
    BY <2>2, <2>3, <2>4 DEF Before
  <2>6. QED
    BY <2>1, <2>5 DEF Due
<1>2. QED
  BY <1>1

\* Behind the next position lies what lies behind the end of this one.
LEMMA DueAfterPosition ==
  ASSUME here \in ResumePoint
  PROVE  /\ Due(NextPosition) \subseteq Through(here.pos)
         /\ NextPosition = NoState => Whole \subseteq Through(here.pos)
<1>1. here.pos \in Nat
  BY PlaceFields
<1>2. CASE NextPosition = NoState
  <2>1. \A pos \in Position : here.pos < pos => pos \in gone
    BY <1>2, NextPositionFits
  <2>2. Whole \subseteq Through(here.pos)
    BY <1>1, <2>1, PageFields DEF Whole, Through
  <2>3. QED
    BY <1>2, <2>2, NothingDue
<1>3. CASE NextPosition # NoState
  <2>1. /\ NextPosition \in ResumePoint /\ NextPosition.page = 1
        /\ \A pos \in Position :
             here.pos < pos /\ pos < NextPosition.pos => pos \in gone
    BY <1>3, NextPositionFits
  <2>2. ASSUME NEW q \in Due(NextPosition)
        PROVE  q \in Through(here.pos)
    <3>1. q \in Page /\ Before(q, NextPosition) /\ q.pos \notin gone
      BY <2>2 DEF Due
    <3>2. q.pos \in Position /\ q.pos \in Nat /\ q.page \in Nat /\ q.page >= 1
      BY <3>1, PageFields
    <3>3. q.pos < NextPosition.pos
      BY <2>1, <3>1, <3>2 DEF Before
    <3>4. q.pos <= here.pos
      BY <1>1, <2>1, <3>1, <3>2, <3>3
    <3>5. QED
      BY <3>1, <3>4 DEF Through
  <2>3. QED
    BY <1>3, <2>2
<1>4. QED
  BY <1>2, <1>3

\* The end of a position: what lies behind the page a run is at, that page, and
\* no further one that the pass asks for.
LEMMA ThroughPosition ==
  ASSUME here \in ResumePoint, NEW pages,
         \A p \in Page : p.pos = here.pos /\ p.page >= here.page => p \in pages
  PROVE  Through(here.pos) \subseteq Due(here) \cup pages
<1>1. ASSUME NEW p \in Through(here.pos)
      PROVE  p \in Due(here) \cup pages
  <2>1. p \in Page /\ p.pos <= here.pos /\ p.pos \notin gone
    BY <1>1 DEF Through
  <2>2. p.pos \in Nat /\ p.page \in Nat /\ here.pos \in Nat /\ here.page \in Nat
    BY <2>1, PageFields, PlaceFields
  <2>3. CASE p.pos = here.pos /\ p.page >= here.page
    BY <2>1, <2>3
  <2>4. CASE ~(p.pos = here.pos /\ p.page >= here.page)
    <3>1. Before(p, here)
      BY <2>1, <2>2, <2>4 DEF Before
    <3>2. QED
      BY <2>1, <3>1 DEF Due
  <2>5. QED
    BY <2>3, <2>4
<1>2. QED
  BY <1>1

LEMMA SavedInit == Init => SavedInv
<1> SUFFICES ASSUME Init PROVE SavedInv
  OBVIOUS
<1>1. ranks = {} /\ handled = {} /\ stateFile = NoState /\ run = "down"
  BY DEF Init
<1>2. QED
  BY <1>1, NothingDue DEF SavedInv, RanksWithTargets, RankedPages, StateBehind, LoopBehind,
                          LeftBehind

LEMMA SavedStart ==
  ASSUME FirstPositionStays, TypeInv, SavedInv, StartRun
  PROVE  SavedInv'
<1>1. /\ FileType /\ RunType /\ PlaceInv
      /\ run = "down" /\ run' = "loop" /\ here' = StartPlace
      /\ UNCHANGED <<stateFile, handled, ranks, gone, buffer, pagesHere>>
  BY DEF TypeInv, StartRun, BeginAt, storeVars
<1>2. buffer = {} /\ pagesHere = 0
  BY <1>1 DEF PlaceInv
<1>3. StartPlace \in ResumePoint /\ StartPlace.page >= 1
  BY <1>1, StartPlaceFits
<1>4. /\ FirstPlace \in ResumePoint /\ FirstPlace.page = 1
      /\ \A pos \in Position : pos < FirstPlace.pos => pos \in gone
  BY <1>1, FirstPlaceFits DEF FileType
<1>5. Due(StartPlace) \subseteq handled
  <2>1. CASE stateFile = NoState
    <3>1. StartPlace = FirstPlace
      BY <1>1, <2>1, StartPlaceFits
    <3>2. Due(FirstPlace) = {}
      BY <1>4, PageFields, PlaceFields DEF Due, Before
    <3>3. QED
      BY <3>1, <3>2
  <2>2. CASE stateFile # NoState /\ stateFile.pos \notin gone
    BY <1>1, <2>2, StartPlaceFits DEF SavedInv, StateBehind
  <2>3. CASE stateFile # NoState /\ stateFile.pos \in gone
    <3>1. 1 \notin gone /\ 1 \in Position
      BY <1>1, PositionsAreNumbers DEF FileType, FirstPositionStays
    <3>2. FirstPlace.pos \in Position /\ FirstPlace.pos \in Nat /\ ~(1 < FirstPlace.pos)
      BY <1>4, <3>1, PlaceFields
    <3>3. FirstPlace.pos = 1
      BY <3>2, PositionsAreNumbers
    <3>4. StartPlace.pos = 1
      BY <1>1, <2>3, <3>3, StartPlaceFits
    <3>5. stateFile.pos \in Nat /\ stateFile.pos > 1
      BY <1>1, <2>3, <3>1, PlaceFields, PositionsAreNumbers DEF FileType
    <3>6. ASSUME NEW q \in Due(StartPlace)
          PROVE  q \in Due(stateFile)
      <4>1. q \in Page /\ Before(q, StartPlace) /\ q.pos \notin gone
        BY <3>6 DEF Due
      <4>2. q.pos \in Nat /\ q.pos <= 1
        BY <3>4, <4>1, PageFields DEF Before
      <4>3. q.pos < stateFile.pos
        BY <3>5, <4>2
      <4>4. QED
        BY <4>1, <4>3 DEF Due, Before
    <3>7. QED
      BY <3>6 DEF SavedInv, StateBehind
  <2>4. QED
    BY <2>1, <2>2, <2>3
<1>6. LoopBehind'
  <2>1. Due(here)' \subseteq Held'
    BY <1>1, <1>5 DEF Held, Due
  <2>2. pagesHere' < here'.page
    BY <1>1, <1>2, <1>3, PlaceFields
  <2>3. QED
    BY <1>1, <1>2, <2>1, <2>2 DEF LoopBehind
<1>7. RanksWithTargets' /\ StateBehind' /\ LeftBehind'
  BY <1>1 DEF SavedInv, RanksWithTargets, RankedPages, StateBehind, Due, LeftBehind
<1>8. QED
  BY <1>6, <1>7 DEF SavedInv

LEMMA SavedDown ==
  ASSUME TypeInv, SavedInv, DropCategory \/ CategoriesFail \/ Crash \/ FlushRaises
  PROVE  SavedInv'
<1>1. /\ run' = "down" /\ UNCHANGED <<stateFile, handled, ranks>>
      /\ gone \subseteq gone'
  BY DEF DropCategory, CategoriesFail, Crash, FlushRaises, LoseMemory, storeVars
<1>2. Due(stateFile)' \subseteq Due(stateFile)
  BY <1>1 DEF Due
<1>3. QED
  BY <1>1, <1>2 DEF SavedInv, RanksWithTargets, RankedPages, StateBehind, LoopBehind,
                    LeftBehind

LEMMA SavedStops ==
  ASSUME TypeInv, SavedInv, StopEarly \/ RetryList \/ ListFails
  PROVE  SavedInv'
<1>1. /\ UNCHANGED <<stateFile, handled, ranks, gone, here, buffer, pagesHere>>
      /\ run = "loop"
      /\ \/ run' = "loop"
         \/ run' = "flush" /\ resume' = here /\ leave' = "run"
  BY DEF StopEarly, RetryList, ListFails, FlushAndWrite, storeVars
<1>2. RanksWithTargets' /\ StateBehind'
  BY <1>1 DEF SavedInv, RanksWithTargets, RankedPages, StateBehind, Due
<1>3. LoopBehind'
  BY <1>1 DEF SavedInv, LoopBehind, Held, Due
<1>4. LeftBehind'
  BY <1>1 DEF SavedInv, LoopBehind, LeftBehind, Held, Due
<1>5. QED
  BY <1>2, <1>3, <1>4 DEF SavedInv

\* An empty page is the last one of its position; where something is buffered,
\* no position follows.
LEMMA SavedEmptyPage ==
  ASSUME EmptyPagesHarmless, TypeInv, SavedInv, ReceiveEmptyPage
  PROVE  SavedInv'
<1>1. /\ RunType /\ UNCHANGED <<stateFile, handled, ranks, gone, here, buffer>>
      /\ run = "loop" /\ run' = "write" /\ resume' = NextPosition /\ leave' = "position"
      /\ here \notin ListPage
  BY DEF TypeInv, ReceiveEmptyPage, storeVars
<1>2. /\ here \in ResumePoint /\ here.page >= 1 /\ here.pos \in Position
      /\ here.page \in Nat /\ here.pos \in Nat /\ LastPage(here.pos) \in Nat
  BY <1>1, PlaceFields, LastPageType DEF RunType
<1>3. here.page > LastPage(here.pos)
  BY <1>1, <1>2, ListPages
<1>4. Due(here) \subseteq Held /\ pagesHere < here.page
  BY <1>1 DEF SavedInv, LoopBehind
<1>5. Through(here.pos) \subseteq Held
  <2>1. \A p \in Page : p.pos = here.pos /\ p.page >= here.page => p \in {}
    BY <1>2, <1>3, PageFields
  <2>2. Through(here.pos) \subseteq Due(here) \cup {}
    BY <1>2, <2>1, ThroughPosition
  <2>3. QED
    BY <1>4, <2>2
<1>6. Due(NextPosition) \subseteq Held
  BY <1>2, <1>5, DueAfterPosition
<1>7. CASE buffer = {}
  BY <1>1, <1>5, <1>6, <1>7 DEF SavedInv, RanksWithTargets, RankedPages, StateBehind,
     LoopBehind, LeftBehind, Held, Due, Through
<1>8. CASE buffer # {}
  <2>1. here.pos \notin ShortEnds /\ LastPage(here.pos) > 0
    BY <1>1, <1>2, <1>3, <1>8 DEF SavedInv, LoopBehind
  <2>2. FullPages[here.pos] # 0
    BY <1>2, <2>1 DEF LastPage
  <2>3. here.pos = NumPositions
    BY <1>2, <2>1, <2>2 DEF EmptyPagesHarmless
  <2>4. NextPosition = NoState
    <3>1. \A pos \in Position : ~(pos > here.pos)
      BY <2>3, PositionsAreNumbers
    <3>2. NextPosition # NoState =>
            NextPosition \in ResumePoint /\ NextPosition.pos > here.pos
      BY <1>2, NextPositionFits
    <3>3. QED
      BY <3>1, <3>2, PlaceFields
  <2>5. Due(NextPosition) = {}
    BY <2>4, NothingDue
  <2>6. QED
    BY <1>1, <1>5, <2>4, <2>5 DEF SavedInv, RanksWithTargets, RankedPages, StateBehind,
       LoopBehind, LeftBehind, Held, Due, Through
<1>9. QED
  BY <1>7, <1>8

LEMMA SavedPage ==
  ASSUME TypeInv, SavedInv, ReceivePage
  PROVE  SavedInv'
<1>1. RunType
  BY DEF TypeInv
<1>2. /\ here \in ListPage /\ run = "loop" /\ buffer' = buffer \cup {here}
      /\ pagesHere' = pagesHere + 1
      /\ UNCHANGED <<stateFile, handled, ranks, gone>>
  BY <1>1, AfterPage DEF storeVars
<1>3. /\ here \in ResumePoint /\ here.page >= 1 /\ here.pos \in Position
      /\ here.page \in Nat /\ here.pos \in Nat /\ LastPage(here.pos) \in Nat
      /\ here.page <= LastPage(here.pos) /\ pagesHere \in Nat /\ MaxPages \in Nat
  BY <1>1, <1>2, PlaceFields, LastPageType, ListPages, PositionsAreNumbers DEF RunType
<1>4. Due(here) \subseteq Held /\ pagesHere < here.page
  BY <1>2 DEF SavedInv, LoopBehind
<1>5. /\ PageAfter(here) \in ResumePoint /\ PageAfter(here).pos = here.pos
      /\ PageAfter(here).page = here.page + 1
  BY <1>3, PageAfterFits
<1>6. Due(PageAfter(here)) \subseteq handled \cup buffer'
  BY <1>2, <1>3, <1>4, DueAfterPage DEF Held
<1>7. RanksWithTargets' /\ StateBehind'
  BY <1>2 DEF SavedInv, RanksWithTargets, RankedPages, StateBehind, Due
<1>8. CASE /\ IsShort(here) \/ pagesHere' >= MaxPages
           /\ run' = "flush" /\ leave' = "position" /\ resume' = NextPosition
           /\ here' = here
  <2>1. \A p \in Page : p.pos = here.pos /\ p.page >= here.page => p \in {here}
    <3>1. SUFFICES ASSUME NEW p \in Page, p.pos = here.pos, p.page >= here.page
                   PROVE  p.page = here.page
      BY <1>3, PageFields, PlaceFields
    <3>2. /\ p.page \in Nat /\ p.page <= LastPage(here.pos)
          /\ p.page <= MaxPages
      BY <3>1, PageFields
    <3>3. CASE IsShort(here)
      BY <1>3, <3>1, <3>2, <3>3 DEF IsShort
    <3>4. CASE pagesHere' >= MaxPages
      BY <1>2, <1>3, <1>4, <3>1, <3>2, <3>4
    <3>5. QED
      BY <1>8, <3>3, <3>4
  <2>2. Through(here.pos) \subseteq handled \cup buffer'
    <3>1. Through(here.pos) \subseteq Due(here) \cup {here}
      BY <1>3, <2>1, ThroughPosition
    <3>2. QED
      BY <1>2, <1>4, <3>1 DEF Held
  <2>3. Due(NextPosition) \subseteq handled \cup buffer'
    BY <1>3, <2>2, DueAfterPosition
  <2>4. LeftBehind'
    BY <1>2, <1>8, <2>2, <2>3 DEF LeftBehind, Held, Due, Through
  <2>5. QED
    BY <1>7, <1>8, <2>4 DEF SavedInv, LoopBehind
<1>9. CASE run' = "flush" /\ leave' = "run" /\ resume' = PageAfter(here) /\ here' = here
  <2>1. LeftBehind'
    BY <1>2, <1>6, <1>9 DEF LeftBehind, Held, Due
  <2>2. QED
    BY <1>7, <1>9, <2>1 DEF SavedInv, LoopBehind
<1>10. CASE /\ ~IsShort(here) /\ here' = PageAfter(here)
            /\ \/ run' = "flush" /\ leave' = "page" /\ resume' = here'
               \/ UNCHANGED <<run, resume, leave>>
  <2>1. pagesHere' < here'.page
    BY <1>2, <1>3, <1>4, <1>5, <1>10
  <2>2. here'.pos = here.pos /\ LastPage(here.pos) > 0
    BY <1>3, <1>5, <1>10
  <2>3. here.pos \in ShortEnds => here'.page <= LastPage(here.pos)
    BY <1>3, <1>5, <1>10 DEF IsShort
  <2>4. Due(here)' \subseteq Held'
    BY <1>2, <1>6, <1>10 DEF Held, Due
  <2>5. LoopBehind'
    BY <2>1, <2>2, <2>3, <2>4 DEF LoopBehind
  <2>6. LeftBehind'
    BY <1>2, <1>10, <2>1, <2>4 DEF LeftBehind, Due
  <2>7. QED
    BY <1>7, <2>5, <2>6 DEF SavedInv
<1>11. QED
  BY <1>1, <1>8, <1>9, <1>10, AfterPage

\* A flush saves all that is held.
LEMMA SavedFlush ==
  ASSUME TypeInv, SavedInv, Flush
  PROVE  SavedInv'
<1>1. /\ handled' = Held /\ ranks' = ranks \cup RankedPages(buffer) /\ buffer' = {}
      /\ UNCHANGED <<stateFile, gone, here, resume, leave, pagesHere>>
      /\ \/ run = "flush" /\ run' = "write"
         \/ run = "lastFlush" /\ run' = "clear"
  BY DEF Flush, Save, UpsertTargets, UpsertRanks, AfterFlush, Held
<1>2. RanksWithTargets'
  BY <1>1 DEF SavedInv, RanksWithTargets, RankedPages, Held
<1>3. StateBehind'
  BY <1>1 DEF SavedInv, StateBehind, Due, Held
<1>4. LeftBehind'
  BY <1>1 DEF SavedInv, LeftBehind, Held, Due, Through, Whole
<1>5. QED
  BY <1>1, <1>2, <1>3, <1>4 DEF SavedInv, LoopBehind

LEMMA SavedWrite ==
  ASSUME TypeInv, SavedInv, WriteState
  PROVE  SavedInv'
<1>1. RunType
  BY DEF TypeInv
<1>2. /\ run = "write" /\ stateFile' = resume
      /\ UNCHANGED <<handled, ranks, gone>>
  BY AfterWrite DEF storeVars
<1>3. /\ Due(resume) \subseteq handled
      /\ resume # NoState => buffer = {}
      /\ leave = "page" => pagesHere < here.page
      /\ leave = "position" => Through(here.pos) \subseteq Held
  BY <1>2 DEF SavedInv, LeftBehind
<1>4. RanksWithTargets' /\ StateBehind'
  BY <1>2, <1>3 DEF SavedInv, RanksWithTargets, RankedPages, StateBehind, Due
<1>5. /\ here \in ResumePoint /\ here # NoState
  BY <1>1, PlaceIsNoState DEF RunType
<1>6. CASE run' = "loop" /\ leave = "page" /\ resume = here /\ UNCHANGED memoryVars
  <2>1. buffer' = {} /\ here' = here /\ pagesHere' = pagesHere
    BY <1>3, <1>5, <1>6 DEF memoryVars
  <2>2. LoopBehind'
    BY <1>2, <1>3, <1>6, <2>1 DEF LoopBehind, Held, Due
  <2>3. QED
    BY <1>4, <1>6, <2>2 DEF SavedInv, LeftBehind
<1>7. CASE /\ leave = "position" /\ resume = NextPosition /\ NextPosition # NoState
           /\ run' = "loop" /\ here' = resume /\ pagesHere' = 0 /\ buffer' = buffer
  <2>1. buffer' = {} /\ pagesHere' < here'.page
    BY <1>3, <1>5, <1>7, NextPositionFits
  <2>2. LoopBehind'
    BY <1>2, <1>3, <1>7, <2>1 DEF LoopBehind, Held, Due
  <2>3. QED
    BY <1>4, <1>7, <2>2 DEF SavedInv, LeftBehind
<1>8. CASE /\ leave = "position" /\ resume = NextPosition /\ resume = NoState
           /\ run' = "lastFlush" /\ UNCHANGED memoryVars
  <2>1. Whole \subseteq Held
    BY <1>3, <1>5, <1>8, DueAfterPosition
  <2>2. LeftBehind'
    BY <1>2, <1>8, <2>1 DEF LeftBehind, Whole, Held, memoryVars
  <2>3. QED
    BY <1>4, <1>8, <2>2 DEF SavedInv, LoopBehind
<1>9. CASE LoseMemory
  BY <1>4, <1>9 DEF SavedInv, LoopBehind, LeftBehind, LoseMemory
<1>10. QED
  BY <1>6, <1>7, <1>8, <1>9, AfterWrite

LEMMA SavedClear ==
  ASSUME SavedInv, ClearState
  PROVE  SavedInv'
<1>1. stateFile' = NoState /\ run' = "down" /\ UNCHANGED <<handled, ranks, gone>>
  BY DEF ClearState, SaveState, LoseMemory, storeVars
<1>2. Due(stateFile)' = {}
  BY <1>1, NothingDue DEF Due
<1>3. QED
  BY <1>1, <1>2 DEF SavedInv, RanksWithTargets, RankedPages, StateBehind, LoopBehind, LeftBehind

LEMMA SavedStill ==
  ASSUME SavedInv, UNCHANGED vars
  PROVE  SavedInv'
<1>1. UNCHANGED <<stateFile, handled, ranks, gone, run, here, buffer, resume, leave, pagesHere>>
  BY DEF vars, storeVars, memoryVars
<1>2. QED
  BY <1>1 DEF SavedInv, RanksWithTargets, RankedPages, StateBehind, LoopBehind, LeftBehind,
              Held, Due, Through, Whole

LEMMA SavedNext ==
  ASSUME EmptyPagesHarmless, FirstPositionStays
  PROVE  TypeInv /\ SavedInv /\ [Next]_vars => SavedInv'
  BY SavedStart, SavedDown, SavedStops, SavedEmptyPage, SavedPage, SavedFlush, SavedWrite,
     SavedClear, SavedStill DEF Next, Step, Rest

LEMMA SavedInvHolds ==
  ASSUME EmptyPagesHarmless, FirstPositionStays
  PROVE  Spec => []SavedInv
<1>1. TypeInv /\ SavedInv /\ [Next]_vars => SavedInv'
  BY SavedNext
<1>2. QED
  BY <1>1, SavedInit, TypeInvHolds, PTL DEF Spec

\* Wherever runs stop, die or fail, the next one fetches every page whose
\* products or ranks have not been saved, unless an empty page ends a position
\* with pages in the buffer, or the first position goes.
THEOREM ResumeIsSafe ==
  ASSUME EmptyPagesHarmless, FirstPositionStays
  PROVE  Spec => []ResumePointBehindSaves
<1>1. SavedInv => ResumePointBehindSaves
  <2>1. SUFFICES ASSUME SavedInv,
                        NEW p \in (Page \cap Covered(stateFile)) \ PagesOf(gone)
                 PROVE  p \in handled /\ (p.pos \in Ranked => p \in ranks)
    BY DEF ResumePointBehindSaves
  <2>2. p \in Due(stateFile)
    BY <2>1 DEF Due, Covered, PagesOf
  <2>3. QED
    BY <2>1, <2>2 DEF SavedInv, StateBehind, RanksWithTargets, RankedPages
<1>2. QED
  BY <1>1, SavedInvHolds, PTL

-----------------------------------------------------------------------------
(* The discovery implements CollectionPass. *)

LEMMA PassInit == Init => Pass!Init
  BY NothingCovered DEF Init, Pass!Init, PagesOf

LEMMA PassKept == UNCHANGED <<stateFile, handled, gone, passOver>> => UNCHANGED Pass!vars
  BY DEF Pass!vars, Covered, PagesOf

\* What a state covers has been saved, or cannot be had any more.
LEMMA CoveredIsHandled ==
  ASSUME NEW state, Due(state) \subseteq handled
  PROVE  Page \cap Covered(state) \subseteq (Page \cap handled) \cup PagesOf(gone)
  BY DEF Due, Covered, PagesOf

LEMMA PassFlush == TypeInv /\ Flush => Pass!HandlePages(Page \cap buffer)
<1> SUFFICES ASSUME TypeInv, Flush PROVE Pass!HandlePages(Page \cap buffer)
  OBVIOUS
<1>1. /\ handled' = handled \cup buffer /\ ~passOver
      /\ UNCHANGED <<stateFile, gone, passOver>>
  BY DEF TypeInv, PlaceInv, Flush, Save, UpsertTargets
<1>2. QED
  BY <1>1 DEF Pass!HandlePages, Covered, PagesOf

LEMMA PassDrop ==
  TypeInv /\ DropCategory => \E pages \in SUBSET Page : Pass!HandlePages(pages)
<1> SUFFICES ASSUME TypeInv, DropCategory
             PROVE  \E pages \in SUBSET Page : Pass!HandlePages(pages)
  OBVIOUS
<1>1. /\ ~passOver /\ UNCHANGED <<stateFile, handled, passOver>>
      /\ \E pos \in Vanishing : gone' = gone \cup {pos}
  BY DEF DropCategory, storeVars
<1>2. PICK pos \in Vanishing : gone' = gone \cup {pos}
  BY <1>1
<1>3. Pass!HandlePages(PagesOf({pos}))
  BY <1>1, <1>2 DEF Pass!HandlePages, Covered, PagesOf
<1>4. QED
  BY <1>3 DEF PagesOf

LEMMA PassWrite == TypeInv /\ SavedInv /\ WriteState => Pass!WriteResumePoint
<1> SUFFICES ASSUME TypeInv, SavedInv, WriteState PROVE Pass!WriteResumePoint
  OBVIOUS
<1>1. /\ run = "write" /\ stateFile' = resume /\ UNCHANGED <<handled, gone, passOver>>
  BY AfterWrite DEF storeVars
<1>2. ~passOver
  BY <1>1 DEF TypeInv, PlaceInv
<1>3. Page \cap Covered(resume) \subseteq (Page \cap handled) \cup PagesOf(gone)
  BY <1>1, CoveredIsHandled DEF SavedInv, LeftBehind
<1>4. (Page \cap Covered(stateFile))' = Page \cap Covered(resume)
  BY <1>1 DEF Covered
<1>5. QED
  BY <1>1, <1>2, <1>3, <1>4 DEF Pass!WriteResumePoint, PagesOf

LEMMA PassClear == TypeInv /\ SavedInv /\ ClearState => Pass!Finish
<1> SUFFICES ASSUME TypeInv, SavedInv, ClearState PROVE Pass!Finish
  OBVIOUS
<1>1. /\ run = "clear" /\ stateFile' = NoState /\ passOver' = TRUE
      /\ UNCHANGED <<handled, gone>>
  BY DEF ClearState, SaveState, storeVars
<1>2. ~passOver /\ Whole \subseteq handled
  BY <1>1 DEF TypeInv, PlaceInv, SavedInv, LeftBehind
<1>3. Page \subseteq (Page \cap handled) \cup PagesOf(gone)
  BY <1>2 DEF Whole, PagesOf
<1>4. (Page \cap Covered(stateFile))' = {}
  BY <1>1, NothingCovered DEF Covered
<1>5. QED
  BY <1>1, <1>2, <1>3, <1>4 DEF Pass!Finish, PagesOf

LEMMA PassStep == TypeInv /\ SavedInv /\ [Next]_vars => [Pass!Next]_(Pass!vars)
<1> SUFFICES ASSUME TypeInv, SavedInv, [Next]_vars PROVE [Pass!Next]_(Pass!vars)
  OBVIOUS
<1>1. CASE UNCHANGED vars \/ Rest
  BY <1>1, PassKept DEF Rest, vars, storeVars
<1>2. CASE StartRun \/ CategoriesFail \/ StopEarly \/ ListFails \/ FlushRaises \/ Crash
           \/ RetryList \/ ReceiveEmptyPage
  BY <1>2, PassKept DEF StartRun, CategoriesFail, StopEarly, ListFails, FlushRaises, Crash,
                        RetryList, ReceiveEmptyPage, storeVars
<1>3. CASE ReceivePage
  BY <1>3, PassKept DEF ReceivePage, storeVars
<1>4. CASE Flush
  <2>1. Pass!HandlePages(Page \cap buffer) /\ Page \cap buffer \in SUBSET Page
    BY <1>4, PassFlush
  <2>2. QED
    BY <2>1 DEF Pass!Next
<1>5. CASE DropCategory
  BY <1>5, PassDrop DEF Pass!Next
<1>6. CASE WriteState
  BY <1>6, PassWrite DEF Pass!Next
<1>7. CASE ClearState
  BY <1>7, PassClear DEF Pass!Next
<1>8. QED
  BY <1>1, <1>2, <1>3, <1>4, <1>5, <1>6, <1>7 DEF Next, Step

\* The discovery keeps the promise of a collection pass, under the conditions of
\* ResumeIsSafe: what it flushes is handled, what its state file covers has been
\* flushed, and it removes the file for good only when nothing is left.
THEOREM ImplementsPass ==
  ASSUME EmptyPagesHarmless, FirstPositionStays
  PROVE  Spec => PassSpec
<1>1. TypeInv /\ SavedInv /\ [Next]_vars => [Pass!Next]_(Pass!vars)
  BY PassStep
<1>2. QED
  BY <1>1, PassInit, TypeInvHolds, SavedInvHolds, PTL DEF Spec, PassSpec, Pass!Spec

-----------------------------------------------------------------------------
(* NearInv is kept. *)

LEMMA CoveredPages ==
  \A p, state : p \in Covered(state) <=>
    /\ p \in ListPage
    /\ p.pos < state.pos \/ (p.pos = state.pos /\ p.page < state.page)
  BY DEF Covered, Before

\* Going on to the next page leaves one page behind; the window moves along.
LEMMA NearAfterPage ==
  ASSUME NEW p \in ResumePoint
  PROVE  Covered(p) \cup Window(p) \cup ({p} \cap ListPage)
           \subseteq Covered(PageAfter(p)) \cup Window(PageAfter(p))
<1>1. /\ PageAfter(p).pos = p.pos /\ PageAfter(p).page = p.page + 1
      /\ p.pos \in Nat /\ p.page \in Nat /\ FlushPages \in Nat
  BY PageAfterFits, PlaceFields, PositionsAreNumbers
<1>2. ASSUME NEW q \in ListPage,
             \/ q.pos < p.pos
             \/ q.pos = p.pos /\ q.page < p.page + FlushPages
      PROVE  q \in Covered(PageAfter(p)) \cup Window(PageAfter(p))
  <2>1. q.pos \in Nat /\ q.page \in Nat
    BY ListPages, PlaceFields
  <2>2. CASE q.pos < p.pos \/ (q.pos = p.pos /\ q.page < p.page + 1)
    BY <1>1, <2>2, CoveredPages
  <2>3. CASE q.pos = p.pos /\ q.page >= p.page + 1
    BY <1>1, <1>2, <2>1, <2>3 DEF Window
  <2>4. QED
    BY <1>1, <1>2, <2>1, <2>2, <2>3
<1>3. ASSUME NEW q \in Covered(p) \cup Window(p) \cup ({p} \cap ListPage)
      PROVE  /\ q \in ListPage
             /\ \/ q.pos < p.pos
                \/ q.pos = p.pos /\ q.page < p.page + FlushPages
  <2>1. FlushPages > 0
    BY PositionsAreNumbers
  <2>2. CASE q \in Covered(p)
    <3>1. q \in ListPage /\ (q.pos < p.pos \/ (q.pos = p.pos /\ q.page < p.page))
      BY <2>2, CoveredPages
    <3>2. q.page \in Nat
      BY <3>1, ListPages, PlaceFields
    <3>3. QED
      BY <1>1, <3>1, <3>2
  <2>3. CASE q \in Window(p)
    BY <2>3 DEF Window
  <2>4. CASE q \in {p} \cap ListPage
    BY <1>1, <2>1, <2>4
  <2>5. QED
    BY <1>3, <2>2, <2>3, <2>4
<1>4. QED
  BY <1>2, <1>3

\* The next position leaves the whole position behind.
LEMMA NearAfterPosition ==
  ASSUME here \in ResumePoint, NextPosition # NoState
  PROVE  Covered(here) \cup Window(here) \cup ({here} \cap ListPage) \subseteq Covered(NextPosition)
<1>1. /\ NextPosition \in ResumePoint /\ NextPosition.pos > here.pos
      /\ NextPosition.pos \in Nat /\ here.pos \in Nat
  BY NextPositionFits, PlaceFields
<1>2. ASSUME NEW q \in Covered(here) \cup Window(here) \cup ({here} \cap ListPage)
      PROVE  q \in ListPage /\ q.pos \in Nat /\ q.pos <= here.pos
  <2>1. q \in ListPage /\ (q.pos < here.pos \/ q.pos = here.pos)
    BY <1>2, CoveredPages DEF Window
  <2>2. q.pos \in Nat
    BY <2>1, ListPages, PlaceFields
  <2>3. QED
    BY <1>1, <2>1, <2>2
<1>3. ASSUME NEW q \in Covered(here) \cup Window(here) \cup ({here} \cap ListPage)
      PROVE  q \in Covered(NextPosition)
  <2>1. q \in ListPage /\ q.pos < NextPosition.pos
    BY <1>1, <1>2, <1>3
  <2>2. QED
    BY <2>1, CoveredPages
<1>4. QED
  BY <1>3

LEMMA EmptyBuffer == IsFiniteSet({}) /\ Cardinality({}) = 0 /\ Cardinality({}) < FlushPages
  BY FS_EmptySet, PositionsAreNumbers

\* The windows look at nothing but the files.
LEMMA SameStart ==
  stateFile' = stateFile /\ gone' = gone => StartPlace' = StartPlace /\ FirstPlace' = FirstPlace
  BY DEF StartPlace, FirstPlace, PositionsFrom

\* Steps that receive nothing and write no file.
LEMMA FileNearKept ==
  ASSUME FileNear, UNCHANGED <<stateFile, gone, received, cleared>>, run # "down" \/ run' = run
  PROVE  FileNear'
<1>1. run' # "down" \/ stateFile'.pos \notin gone' => run # "down" \/ stateFile.pos \notin gone
  OBVIOUS
<1>2. StartPlace' = StartPlace
  BY SameStart
<1>3. QED
  BY <1>1, <1>2 DEF FileNear, Near

LEMMA NearInit == Init => NearInv
<1> SUFFICES ASSUME Init PROVE NearInv
  OBVIOUS
<1>1. /\ stateFile = NoState /\ received = {} /\ run = "down" /\ ~cleared
  BY DEF Init
<1>2. FileNear
  BY <1>1, NoStateIsPlace DEF FileNear, Near
<1>3. QED
  BY <1>1, <1>2 DEF NearInv, ClearedLast, LoopNear, LeftNear

LEMMA NearStart ==
  ASSUME TypeInv, NearInv, StartRun
  PROVE  NearInv'
<1>1. /\ FileType /\ PlaceInv
      /\ run = "down" /\ run' = "loop" /\ here' = StartPlace
      /\ received' = (IF FromFirst THEN {} ELSE received) /\ ~cleared'
      /\ UNCHANGED <<stateFile, gone, buffer>>
  BY DEF TypeInv, StartRun, BeginAt
<1>2. buffer = {} /\ StartPlace' = StartPlace
  BY <1>1, SameStart DEF PlaceInv
<1>3. received' \subseteq Covered(stateFile) \cup Window(StartPlace)
  <2>1. CASE FromFirst
    BY <1>1, <2>1
  <2>2. CASE ~FromFirst
    BY <1>1, <2>2 DEF NearInv, ClearedLast, FileNear, Near, FromFirst
  <2>3. QED
    BY <2>1, <2>2
<1>4. StartPlace \in ResumePoint /\ StartPlace.page \in Nat
  BY <1>1, StartPlaceFits, PlaceFields
<1>5. FileNear'
  BY <1>1, <1>2, <1>3, <1>4 DEF FileNear, Near
<1>6. received' \subseteq Covered(StartPlace) \cup Window(StartPlace)
  <2>1. CASE stateFile = NoState
    BY <1>3, <2>1, NothingCovered
  <2>2. CASE stateFile.pos \in gone
    BY <1>1, <2>2 DEF FromFirst
  <2>3. CASE stateFile # NoState /\ stateFile.pos \notin gone
    BY <1>1, <1>3, <2>3, StartPlaceFits
  <2>4. QED
    BY <2>1, <2>2, <2>3
<1>7. LoopNear'
  <2>1. buffer' = {} /\ IsFiniteSet(buffer') /\ Cardinality(buffer') = 0
        /\ Cardinality(buffer') < FlushPages
    BY <1>1, <1>2, EmptyBuffer
  <2>2. here'.page <= StartPlace'.page + Cardinality(buffer')
    BY <1>1, <1>2, <1>4, <2>1
  <2>3. StartPlace'.page <= here'.page
    BY <1>1, <1>2, <1>4
  <2>4. QED
    BY <1>1, <1>2, <1>6, <2>1, <2>2, <2>3 DEF LoopNear, Near
<1>8. QED
  BY <1>1, <1>5, <1>7 DEF NearInv, ClearedLast, LeftNear

LEMMA FirstIsOne ==
  gone \subseteq Vanishing /\ 1 \notin gone => FirstPlace = [pos |-> 1, page |-> 1]
<1> SUFFICES ASSUME gone \subseteq Vanishing, 1 \notin gone
             PROVE  FirstPlace = [pos |-> 1, page |-> 1]
  OBVIOUS
<1>1. FirstPlace.pos \in Position /\ ~(1 < FirstPlace.pos)
  BY FirstPlaceFits, PlaceFields, PositionsAreNumbers
<1>2. FirstPlace.pos = 1
  <2>1. FirstPlace.pos \in Nat /\ FirstPlace.pos # 0
    BY <1>1, PositionsAreNumbers
  <2>2. QED
    BY <1>1, <2>1
<1>3. QED
  BY <1>2 DEF FirstPlace

LEMMA NearDown ==
  ASSUME TypeInv, NearInv, DropCategory \/ CategoriesFail \/ Crash \/ FlushRaises
  PROVE  NearInv'
<1>1. run' = "down" /\ UNCHANGED <<stateFile, received, cleared>>
  BY DEF DropCategory, CategoriesFail, Crash, FlushRaises, LoseMemory, historyVars
<1>2. ClearedLast' /\ LoopNear' /\ LeftNear'
  BY <1>1 DEF NearInv, ClearedLast, LoopNear, LeftNear
<1>3. CASE CategoriesFail \/ Crash \/ FlushRaises
  <2>1. UNCHANGED gone /\ (run # "down" \/ run' = run)
    BY <1>1, <1>3 DEF CategoriesFail, Crash, FlushRaises
  <2>2. FileNear'
    BY <1>1, <2>1, FileNearKept DEF NearInv
  <2>3. QED
    BY <1>2, <2>2 DEF NearInv
<1>4. CASE DropCategory
  <2>1. gone \subseteq gone' /\ FileType /\ FileType'
    BY <1>4, TypeDown DEF DropCategory, TypeInv
  <2>2. ASSUME stateFile.pos \notin gone'
        PROVE  StartPlace' = StartPlace
    <3>1. CASE stateFile # NoState
      BY <1>1, <2>1, <2>2, <3>1 DEF StartPlace
    <3>2. CASE stateFile = NoState
      <4>1. 1 \notin gone' /\ 1 \notin gone
        BY <2>1, <2>2, <3>2, NoStateIsPlace
      <4>2. FirstPlace = [pos |-> 1, page |-> 1]
        BY <2>1, <4>1, FirstIsOne DEF FileType
      <4>3. (gone \subseteq Vanishing /\ 1 \notin gone
               => FirstPlace = [pos |-> 1, page |-> 1])'
        BY FirstIsOne, PTL
      <4>4. FirstPlace' = [pos |-> 1, page |-> 1]
        BY <2>1, <4>1, <4>3 DEF FileType
      <4>5. QED
        BY <1>1, <3>2, <4>2, <4>4 DEF StartPlace
    <3>3. QED
      BY <3>1, <3>2
  <2>3. FileNear'
    <3>1. ~cleared' => \E place \in ResumePoint : Near(stateFile, place)'
      BY <1>1 DEF NearInv, FileNear, Near
    <3>2. ~cleared' /\ stateFile'.pos \notin gone' => Near(stateFile, StartPlace)'
      BY <1>1, <2>1, <2>2 DEF NearInv, FileNear, Near
    <3>3. QED
      BY <1>1, <3>1, <3>2 DEF FileNear
  <2>4. QED
    BY <1>2, <2>3 DEF NearInv
<1>5. QED
  BY <1>3, <1>4

LEMMA NearStops ==
  ASSUME TypeInv, NearInv, StopEarly \/ RetryList \/ ListFails
  PROVE  NearInv'
<1>1. /\ UNCHANGED <<stateFile, received, cleared, gone, here, buffer>>
      /\ run = "loop"
      /\ \/ run' = "loop"
         \/ run' = "flush" /\ resume' = here
  BY DEF StopEarly, RetryList, ListFails, FlushAndWrite, historyVars
<1>2. ClearedLast' /\ FileNear'
  BY <1>1, FileNearKept DEF NearInv, ClearedLast
<1>3. StartPlace' = StartPlace
  BY <1>1, SameStart
<1>4. LoopNear'
  BY <1>1, <1>3 DEF NearInv, LoopNear, Near
<1>5. LeftNear'
  BY <1>1 DEF NearInv, LoopNear, LeftNear, Near
<1>6. QED
  BY <1>2, <1>4, <1>5 DEF NearInv

LEMMA NearEmptyPage ==
  ASSUME TypeInv, NearInv, ReceiveEmptyPage
  PROVE  NearInv'
<1>1. /\ here \in ResumePoint
      /\ UNCHANGED <<stateFile, received, cleared, gone, here, buffer>>
      /\ run = "loop" /\ run' = "write" /\ resume' = NextPosition
  BY DEF TypeInv, RunType, ReceiveEmptyPage, historyVars
<1>2. ClearedLast' /\ FileNear'
  BY <1>1, FileNearKept DEF NearInv, ClearedLast
<1>3. LoopNear'
  BY <1>1 DEF NearInv, LoopNear
<1>4. NextPosition # NoState =>
        /\ received \subseteq Covered(NextPosition)
        /\ buffer \subseteq Covered(NextPosition)
  BY <1>1, NearAfterPosition DEF NearInv, LoopNear, Near
<1>5. LeftNear'
  BY <1>1, <1>4 DEF LeftNear, Near
<1>6. QED
  BY <1>2, <1>3, <1>5 DEF NearInv

\* The page is behind the state file or in the window from where the run began;
\* with it the buffer has one page more.
LEMMA NearPage ==
  ASSUME TypeInv, NearInv, ReceivePage
  PROVE  NearInv'
<1>1. RunType /\ FileType
  BY DEF TypeInv
<1>2. /\ here \in ListPage /\ run = "loop"
      /\ received' = received \cup {here} /\ buffer' = buffer \cup {here}
      /\ UNCHANGED <<stateFile, cleared, gone>> /\ ~cleared
  BY <1>1, AfterPage DEF NearInv, ClearedLast
<1>3. /\ here \in ResumePoint /\ here.page \in Nat /\ here.pos \in Nat
      /\ StartPlace \in ResumePoint /\ StartPlace.page \in Nat
      /\ FlushPages \in Nat
  BY <1>1, StartPlaceFits, PlaceFields, PositionsAreNumbers DEF RunType
<1>4. /\ IsFiniteSet(buffer) /\ Cardinality(buffer) < FlushPages
      /\ Near(here, here)
      /\ buffer \subseteq Covered(here)
      /\ here.pos = StartPlace.pos
      /\ StartPlace.page <= here.page
      /\ here.page <= StartPlace.page + Cardinality(buffer)
      /\ Near(stateFile, StartPlace)
  BY <1>2 DEF NearInv, LoopNear, FileNear
<1>5. Cardinality(buffer) \in Nat
  BY <1>4, FS_CardinalityType
<1>6. StartPlace' = StartPlace
  BY <1>2, SameStart
<1>7. FileNear'
  <2>1. here \in Window(StartPlace)
    BY <1>2, <1>3, <1>4, <1>5 DEF Window
  <2>2. received' \subseteq Covered(stateFile) \cup Window(StartPlace)
    BY <1>2, <1>4, <2>1 DEF Near
  <2>3. QED
    BY <1>2, <1>3, <1>6, <2>2 DEF FileNear, Near
<1>8. received' \subseteq Covered(here) \cup Window(here) \cup ({here} \cap ListPage)
  BY <1>2, <1>4 DEF Near
<1>9. received' \subseteq Covered(PageAfter(here)) \cup Window(PageAfter(here))
  BY <1>3, <1>8, NearAfterPage
<1>10. NextPosition # NoState => received' \subseteq Covered(NextPosition)
  BY <1>3, <1>8, NearAfterPosition
<1>11. CASE run' = "flush" /\ resume' \in {NextPosition, PageAfter(here)}
  <2>1. LeftNear'
    BY <1>2, <1>9, <1>10, <1>11 DEF LeftNear, Near
  <2>2. QED
    BY <1>2, <1>7, <1>11, <2>1 DEF NearInv, ClearedLast, LoopNear
<1>12. CASE /\ here' = PageAfter(here) /\ ~ReadyToFlush(buffer')
            /\ UNCHANGED <<run, resume, leave>>
  <2>1. here \notin buffer
    BY <1>3, <1>4, CoveredPages
  <2>2. /\ IsFiniteSet(buffer') /\ Cardinality(buffer') = Cardinality(buffer) + 1
    BY <1>2, <1>4, <2>1, FS_AddElement
  <2>3. Cardinality(buffer') < FlushPages
    BY <1>3, <1>5, <1>12, <2>2 DEF ReadyToFlush
  <2>4. /\ here'.pos = here.pos /\ here'.page = here.page + 1
    BY <1>3, <1>12, PageAfterFits
  <2>5. buffer' \subseteq Covered(here')
    <3>1. ASSUME NEW q \in buffer'
          PROVE  /\ q \in ListPage /\ q.page \in Nat
                 /\ q.pos < here.pos \/ (q.pos = here.pos /\ q.page <= here.page)
      <4>1. CASE q = here
        BY <1>2, <1>3, <4>1
      <4>2. CASE q \in buffer
        <5>1. /\ q \in ListPage
              /\ q.pos < here.pos \/ (q.pos = here.pos /\ q.page < here.page)
          BY <1>4, <4>2, CoveredPages
        <5>2. q.page \in Nat
          BY <5>1, ListPages, PlaceFields
        <5>3. QED
          BY <1>3, <5>1, <5>2
      <4>3. QED
        BY <1>2, <3>1, <4>1, <4>2
    <3>2. ASSUME NEW q \in buffer'
          PROVE  q \in Covered(here')
      <4>1. q.pos < here'.pos \/ (q.pos = here'.pos /\ q.page < here'.page)
        BY <1>3, <2>4, <3>1, <3>2
      <4>2. QED
        BY <3>1, <3>2, <4>1, CoveredPages
    <3>3. QED
      BY <3>2
  <2>6. Near(here, here)'
    BY <1>9, <1>12 DEF Near
  <2>7. /\ here'.pos = StartPlace'.pos /\ StartPlace'.page <= here'.page
        /\ here'.page <= StartPlace'.page + Cardinality(buffer')
    BY <1>3, <1>4, <1>5, <1>6, <2>2, <2>4
  <2>8. LoopNear'
    BY <2>2, <2>3, <2>5, <2>6, <2>7 DEF LoopNear
  <2>9. LeftNear'
    BY <1>2, <1>12 DEF LeftNear
  <2>10. QED
    BY <1>2, <1>7, <1>12, <2>8, <2>9 DEF NearInv, ClearedLast
<1>13. QED
  BY <1>1, <1>11, <1>12, AfterPage

LEMMA NearFlush ==
  ASSUME TypeInv, NearInv, Flush
  PROVE  NearInv'
<1>1. /\ buffer' = {} /\ UNCHANGED <<stateFile, received, cleared, gone, resume>>
      /\ \/ run = "flush" /\ run' = "write"
         \/ run = "lastFlush" /\ run' = "clear"
  BY DEF Flush, AfterFlush, historyVars
<1>2. ClearedLast' /\ FileNear'
  BY <1>1, FileNearKept DEF NearInv, ClearedLast
<1>3. LoopNear'
  BY <1>1, EmptyBuffer DEF LoopNear
<1>4. LeftNear'
  BY <1>1 DEF NearInv, LeftNear, Near
<1>5. QED
  BY <1>2, <1>3, <1>4 DEF NearInv

\* The state file follows the run, until it is removed.
LEMMA NearWrite ==
  ASSUME TypeInv, NearInv, WriteState
  PROVE  NearInv'
<1>1. FileType /\ RunType /\ PlaceInv /\ FileType'
  BY TypeWrite DEF TypeInv
<1>2. /\ run = "write" /\ stateFile' = resume /\ gone' = gone /\ received' = received
      /\ ~cleared /\ cleared' = (resume = NoState)
  BY AfterWrite DEF NearInv, ClearedLast
<1>3. CASE resume = NoState
  <2>1. run' \in {"down", "lastFlush"}
    BY <1>1, <1>3, AfterWrite, PlaceIsNoState DEF RunType, LoseMemory
  <2>2. QED
    BY <1>2, <1>3, <2>1 DEF NearInv, ClearedLast, FileNear, LoopNear, LeftNear
<1>4. CASE resume # NoState
  <2>1. /\ received \subseteq Covered(resume) \cup Window(resume)
        /\ IsFiniteSet(buffer) /\ Cardinality(buffer) < FlushPages
        /\ buffer \subseteq Covered(resume)
    BY <1>2, <1>4 DEF NearInv, LoopNear, LeftNear, Near
  <2>2. resume.pos \notin gone /\ resume \in ResumePoint /\ resume.page \in Nat
    BY <1>1, <1>2, <1>4, PlaceFields DEF PlaceInv, RunType
  <2>3. StartPlace' = resume
    BY <1>2, <1>4, <2>2 DEF StartPlace
  <2>4. FileNear'
    BY <1>2, <1>4, <2>1, <2>2, <2>3 DEF FileNear, Near
  <2>5. \/ run' = "loop" /\ here' = resume /\ buffer' = buffer
        \/ run' = "down"
    BY <1>4, AfterWrite DEF memoryVars, LoseMemory
  <2>6. CASE run' = "down"
    BY <1>2, <1>4, <2>4, <2>6 DEF NearInv, ClearedLast, LoopNear, LeftNear
  <2>7. CASE run' = "loop" /\ here' = resume /\ buffer' = buffer
    <3>1. Cardinality(buffer) \in Nat
      BY <2>1, FS_CardinalityType
    <3>2. resume.page <= resume.page /\ resume.page <= resume.page + Cardinality(buffer)
      BY <2>2, <3>1
    <3>3. LoopNear'
      BY <1>2, <1>4, <2>1, <2>3, <2>7, <3>2 DEF LoopNear, Near
    <3>4. QED
      BY <1>2, <1>4, <2>4, <2>7, <3>3 DEF NearInv, ClearedLast, LeftNear
  <2>8. QED
    BY <2>5, <2>6, <2>7
<1>5. QED
  BY <1>3, <1>4

LEMMA NearClear ==
  ASSUME TypeInv, NearInv, ClearState
  PROVE  NearInv'
<1>1. /\ run = "clear" /\ run' = "down" /\ stateFile' = NoState
      /\ cleared' = cleared
  BY DEF ClearState, SaveState, LoseMemory, historyVars
<1>2. QED
  BY <1>1 DEF NearInv, ClearedLast, FileNear, LoopNear, LeftNear

LEMMA NearStill ==
  ASSUME TypeInv, NearInv, UNCHANGED vars
  PROVE  NearInv'
<1>1. UNCHANGED <<stateFile, received, cleared, gone, run, here, buffer, resume>>
  BY DEF vars, historyVars, memoryVars
<1>2. StartPlace' = StartPlace /\ FileNear'
  BY <1>1, SameStart, FileNearKept DEF NearInv
<1>3. QED
  BY <1>1, <1>2 DEF NearInv, ClearedLast, LoopNear, LeftNear, Near

LEMMA NearNext == TypeInv /\ NearInv /\ [Next]_vars => NearInv'
  BY NearStart, NearDown, NearStops, NearEmptyPage, NearPage, NearFlush, NearWrite,
     NearClear, NearStill DEF Next, Step, Rest

\* A window has no more than FlushPages pages.
LEMMA WindowSize ==
  ASSUME NEW place \in ResumePoint
  PROVE  IsFiniteSet(Window(place)) /\ Cardinality(Window(place)) <= FlushPages
<1> DEFINE pages == place.page..(place.page + FlushPages - 1)
           number == [p \in Window(place) |-> p.page]
<1>1. place.page \in Nat /\ FlushPages \in Nat /\ FlushPages > 0
  BY PlaceFields, PositionsAreNumbers
<1>2. ASSUME NEW p \in Window(place)
      PROVE  p \in ResumePoint /\ p.pos = place.pos /\ p.page \in pages
  <2>1. /\ p \in ListPage /\ p.pos = place.pos /\ p.page >= place.page
        /\ p.page < place.page + FlushPages
    BY <1>2 DEF Window
  <2>2. p \in ResumePoint /\ p.page \in Nat
    BY <2>1, ListPages, PlaceFields
  <2>3. QED
    BY <1>1, <2>1, <2>2
<1>3. IsFiniteSet(pages) /\ Cardinality(pages) = FlushPages
  <2> DEFINE last == place.page + FlushPages - 1
  <2>1. /\ place.page \in Int /\ last \in Int
        /\ ~(place.page > last) /\ last - place.page + 1 = FlushPages
    BY <1>1
  <2> HIDE DEF last
  <2>2. /\ IsFiniteSet(place.page..last)
        /\ Cardinality(place.page..last)
             = IF place.page > last THEN 0 ELSE last - place.page + 1
    BY <2>1, FS_Interval
  <2>3. QED
    BY <2>1, <2>2 DEF last
<1>4. number \in Injection(Window(place), pages)
  <2>1. number \in [Window(place) -> pages]
    BY <1>2
  <2>2. \A p, q \in Window(place) : number[p] = number[q] => p = q
    BY <1>2, PlaceFields
  <2>3. QED
    BY <2>1, <2>2 DEF Injection, IsInjective
<1> HIDE DEF pages, number
<1>5. QED
  BY <1>3, <1>4, FS_Injection

\* Wherever a run is stopped, dies or fails, at most FlushPages of the pages that
\* it has received are fetched again, in any lists, whatever vanishes, as long as
\* the state has not been removed behind the last position and its category is
\* still there.
THEOREM LittleIsFetchedAgain == Spec => []LittleFetchedAgain
<1>1. NearInv => LittleFetchedAgain
  <2>1. SUFFICES ASSUME NearInv, ~cleared, stateFile = NoState \/ stateFile.pos \notin gone
                 PROVE  Cardinality(FetchedAgain) <= FlushPages
    BY DEF LittleFetchedAgain
  <2>2. PICK place \in ResumePoint : received \subseteq Covered(stateFile) \cup Window(place)
    BY <2>1 DEF NearInv, FileNear, Near
  <2>3. FetchedAgain \subseteq received \ Covered(stateFile)
    <3>1. CASE stateFile = NoState
      BY <3>1, NothingCovered DEF FetchedAgain
    <3>2. CASE stateFile # NoState
      <4>1. StartPlace = stateFile
        BY <2>1, <3>2 DEF StartPlace
      <4>2. QED
        BY <4>1 DEF FetchedAgain, Covered
    <3>3. QED
      BY <3>1, <3>2
  <2>4. FetchedAgain \in SUBSET Window(place)
    BY <2>2, <2>3
  <2>5. /\ IsFiniteSet(Window(place)) /\ Cardinality(Window(place)) <= FlushPages
        /\ Cardinality(Window(place)) \in Nat /\ FlushPages \in Nat
    BY WindowSize, FS_CardinalityType, PositionsAreNumbers
  <2>6. /\ IsFiniteSet(FetchedAgain)
        /\ Cardinality(FetchedAgain) <= Cardinality(Window(place))
    BY <2>4, <2>5, FS_Subset
  <2>7. Cardinality(FetchedAgain) \in Nat
    BY <2>6, FS_CardinalityType
  <2>8. QED
    BY <2>5, <2>6, <2>7
<1>2. Spec => []NearInv
  BY NearInit, NearNext, TypeInvHolds, PTL DEF Spec
<1>3. QED
  BY <1>1, <1>2, PTL
=============================================================================
