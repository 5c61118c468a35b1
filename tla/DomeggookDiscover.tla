--------------------------- MODULE DomeggookDiscover ---------------------------
(***************************************************************************)
(* The domeggook list discovery (discover): one thread visits the          *)
(* positions (category, market, sort) in order and the list pages of each. *)
(* Received pages wait in _DiscoverySaveBuffer until a flush writes them   *)
(* to PostgreSQL; the state file names the position and page to go on      *)
(* from.  A flush and the state write after it are two steps.              *)
(***************************************************************************)
EXTENDS Integers, FiniteSets, FiniteSetsExt

CONSTANTS
    NumPositions,  \* length of _discovery_positions
    FullPages,     \* position -> list pages that are full
    ShortEnds,     \* positions whose last page is short; the others end with
                   \* an empty one
    Ranked,        \* positions whose sort is one of RANKED_SORTS
    MaxRetries,    \* config.request.max_retries
    FlushPages,    \* DISCOVERY_SAVE_FLUSH_PAGES
    PageLimit,     \* page_limit, --page-limit
    MaxPages,      \* max_pages_per_position
    Vanishing,     \* positions whose category the API may drop
    MaxStops,      \* bound: runs stopped by the deadline, the API budget or an
                   \* API error
    MaxSaveErrors, \* bound: flushes that raise
    MaxCrashes,    \* bound: runs that die
    MaxListChanges \* bound: categories dropped

Position == 1..NumPositions

ASSUME DiscoverAssumption ==
    /\ NumPositions \in Nat \ {0}
    /\ FullPages \in [Position -> Nat]
    /\ ShortEnds \subseteq Position /\ Ranked \subseteq Position
    /\ MaxRetries \in Nat
    /\ Vanishing \subseteq Position /\ Vanishing # Position
    /\ FlushPages \in Nat \ {0}
    /\ PageLimit \in Nat \ {0} /\ MaxPages \in Nat \ {0}
    /\ MaxStops \in Nat /\ MaxSaveErrors \in Nat /\ MaxCrashes \in Nat
    /\ MaxListChanges \in Nat

LastPage(pos) == FullPages[pos] + IF pos \in ShortEnds THEN 1 ELSE 0

\* The pages with items, and those that a pass is to collect.
ListPage == UNION {{[pos |-> pos, page |-> n] : n \in 1..LastPage(pos)} : pos \in Position}

Page == {p \in ListPage : p.page <= MaxPages}

PagesOf(positions) == {p \in Page : p.pos \in positions}

\* A resume point, or no state file.
NoState == [pos |-> 1, page |-> 0]

ResumePoint == [pos : Position, page : Nat]

Before(p, state) ==
    \/ p.pos < state.pos
    \/ p.pos = state.pos /\ p.page < state.page

\* The pages that a run started from the state does not fetch.
Covered(state) == {p \in ListPage : Before(p, state)}

Faults == {"stop", "save", "crash", "list"}

Limit == [stop |-> MaxStops, save |-> MaxSaveErrors, crash |-> MaxCrashes,
          list |-> MaxListChanges]

VARIABLES
    stateFile,   \* discovery-state.json
    handled,     \* pages whose products are in product_discovery_targets
                 \* (history)
    ranks,       \* pages whose ranks are in product_search_ranks (history)
    received,    \* pages received since a run last began with the first position
                 \* (history)
    cleared,     \* the state has been removed behind the last position, since a
                 \* run last began (history)
    gone,        \* positions that the category list has no more
    run,         \* "down", or where the run is
    here,        \* position_index and page
    attempt,     \* calls for the page that have failed
    buffer,      \* pages in save_buffer
    resume,      \* the resume point the next state write writes
    leave,       \* what follows that write: "page", "position", "run"
    pageCount,   \* page_count, pages_for_position
    pagesHere,
    passOver,    \* discover has removed the state and returned (history)
    faults       \* kind -> faults so far

memoryVars == <<here, attempt, buffer, resume, leave, pageCount, pagesHere>>
storeVars == <<handled, ranks>>
historyVars == <<received, cleared>>
vars == <<stateFile, storeVars, historyVars, gone, run, memoryVars, passOver, faults>>

Init ==
    /\ stateFile = NoState
    /\ handled = {} /\ ranks = {} /\ received = {} /\ cleared = FALSE /\ gone = {}
    /\ run = "down"
    /\ here = [pos |-> 1, page |-> 1] /\ attempt = 0
    /\ buffer = {}
    /\ resume = NoState /\ leave = "page"
    /\ pageCount = 0 /\ pagesHere = 0
    /\ passOver = FALSE
    /\ faults = [kind \in Faults |-> 0]

Fault(kind) ==
    /\ faults[kind] < Limit[kind]
    /\ faults' = [faults EXCEPT ![kind] = @ + 1]

LoseMemory ==
    /\ run' = "down"
    /\ here' = [pos |-> 1, page |-> 1] /\ attempt' = 0
    /\ buffer' = {}
    /\ resume' = NoState /\ leave' = "page"
    /\ pageCount' = 0 /\ pagesHere' = 0

\* _discovery_positions: those of the categories there are.
PositionsFrom(pos) == pos..NumPositions \ gone

FirstPlace == [pos |-> Min(PositionsFrom(1)), page |-> 1]

\* _discovery_start_index finds nothing.
FromFirst == stateFile = NoState \/ stateFile.pos \in gone

\* _discovery_start_index, _state_page: a position that is gone gives the first
\* one, but the page of the state.
StartPlace ==
    IF stateFile = NoState THEN FirstPlace
    ELSE IF stateFile.pos \in gone THEN [stateFile EXCEPT !.pos = FirstPlace.pos]
    ELSE stateFile

BeginAt(place) == run = "down" /\ ~passOver /\ run' = "loop" /\ here' = place

\* Mutant: every run begins with the first position.
StartAfresh ==
    /\ BeginAt(FirstPlace)
    /\ received' = {} /\ cleared' = FALSE
    /\ UNCHANGED <<stateFile, storeVars, gone, attempt, buffer, resume, leave,
                   pageCount, pagesHere, passOver, faults>>

StartRun ==
    /\ BeginAt(StartPlace)
    /\ received' = IF FromFirst THEN {} ELSE received
    /\ cleared' = FALSE
    /\ UNCHANGED <<stateFile, storeVars, gone, attempt, buffer, resume, leave,
                   pageCount, pagesHere, passOver, faults>>

\* load_or_refresh_categories: the cached list is too old, and the new one has
\* fewer categories, ...
DropCategory ==
    /\ run = "down" /\ ~passOver
    /\ Fault("list")
    /\ \E pos \in Vanishing \ gone : gone' = gone \cup {pos}
    /\ UNCHANGED <<stateFile, storeVars, historyVars, run, memoryVars, passOver>>

\* ... or cannot be had: the exception ends the run.
CategoriesFail ==
    /\ run = "down" /\ ~passOver
    /\ Fault("stop")
    /\ UNCHANGED <<stateFile, storeVars, historyVars, gone, run, memoryVars, passOver>>

Crash ==
    /\ run # "down"
    /\ Fault("crash")
    /\ LoseMemory
    /\ UNCHANGED <<stateFile, storeVars, gone, historyVars, passOver>>

\* _save_next_discovery_state with next_page None: the next position, or no
\* state file after the last one.
NextPosition ==
    IF PositionsFrom(here.pos + 1) = {} THEN NoState
    ELSE [pos |-> Min(PositionsFrom(here.pos + 1)), page |-> 1]

\* Save what is buffered, then write the resume point.
FlushAndWrite(state, then) ==
    run' = "flush" /\ resume' = state /\ leave' = then

\* Mutant: the run stops without saving what is buffered.
StopWithoutFlush ==
    /\ run = "loop" /\ attempt = 0
    /\ Fault("stop")
    /\ run' = "write" /\ resume' = here /\ leave' = "run"
    /\ UNCHANGED <<stateFile, storeVars, gone, historyVars, here, attempt, buffer, pageCount,
                   pagesHere, passOver>>

\* The deadline has passed or the budget is used up: the page is to be fetched
\* by the next run.
StopEarly ==
    /\ run = "loop" /\ attempt = 0
    /\ Fault("stop")
    /\ FlushAndWrite(here, "run")
    /\ UNCHANGED <<stateFile, storeVars, gone, historyVars, here, attempt, buffer, pageCount,
                   pagesHere, passOver>>

\* A network error, a 429 or a 5xx: after a pause the same key asks again.
RetryList ==
    /\ run = "loop" /\ attempt < MaxRetries
    /\ attempt' = attempt + 1
    /\ UNCHANGED <<stateFile, storeVars, gone, historyVars, run, here, buffer, resume, leave,
                   pageCount, pagesHere, passOver, faults>>

\* The last attempt fails, or an answer that is not worth another one: an error
\* status, no JSON, an error of the API.
ListFails ==
    /\ run = "loop"
    /\ Fault("stop")
    /\ FlushAndWrite(here, "run")
    /\ attempt' = 0
    /\ UNCHANGED <<stateFile, storeVars, gone, historyVars, here, buffer, pageCount, pagesHere,
                   passOver>>

\* An empty page ends the position; what is buffered stays in memory.
ReceiveEmptyPage ==
    /\ run = "loop"
    /\ here \notin ListPage
    /\ attempt' = 0
    /\ pageCount' = pageCount + 1 /\ pagesHere' = pagesHere + 1
    /\ run' = "write" /\ resume' = NextPosition /\ leave' = "position"
    /\ UNCHANGED <<stateFile, storeVars, gone, historyVars, here, buffer, passOver, faults>>

\* Mutant: the buffer is never found full.
NeverReady(pages) == FALSE

\* ready_to_flush.
ReadyToFlush(pages) == Cardinality(pages) >= FlushPages

PageAfter(p) == [p EXCEPT !.page = @ + 1]

\* _DiscoverySaveBuffer.add.
Add(page) == buffer' = buffer \cup {page}

IsShort(p) == p.pos \in ShortEnds /\ p.page = LastPage(p.pos)

\* A page with items: what follows depends on its length, then on the limits,
\* then on the buffer.
ReceivePage ==
    /\ run = "loop"
    /\ here \in ListPage
    /\ attempt' = 0
    /\ received' = received \cup {here}
    /\ Add(here)
    /\ pageCount' = pageCount + 1 /\ pagesHere' = pagesHere + 1
    /\ IF IsShort(here) \/ pagesHere' >= MaxPages
         THEN FlushAndWrite(NextPosition, "position") /\ UNCHANGED here
         ELSE IF pageCount' >= PageLimit
         THEN FlushAndWrite(PageAfter(here), "run") /\ UNCHANGED here
         ELSE /\ here' = PageAfter(here)
              /\ IF ReadyToFlush(buffer')
                   THEN FlushAndWrite(here', "page")
                   ELSE UNCHANGED <<run, resume, leave>>
    /\ UNCHANGED <<stateFile, storeVars, cleared, gone, passOver, faults>>

\* _search_rank_rows: the pages whose sort ranks their products.
RankedPages(pages) == {p \in pages : p.pos \in Ranked}

UpsertTargets(pages) == handled' = handled \cup pages

UpsertRanks(pages) == ranks' = ranks \cup RankedPages(pages)

\* The transaction of a flush.
Save(pages) == UpsertTargets(pages) /\ UpsertRanks(pages)

AfterFlush == run' = IF run = "flush" THEN "write" ELSE "clear"

\* _DiscoverySaveBuffer.flush.
Flush ==
    /\ run \in {"flush", "lastFlush"}
    /\ Save(buffer)
    /\ buffer' = {}
    /\ AfterFlush
    /\ UNCHANGED <<stateFile, historyVars, gone, here, attempt, resume, leave, pageCount,
                   pagesHere, passOver, faults>>

\* Mutant: the failed flush is passed over.
FlushFailsUnnoticed ==
    /\ run \in {"flush", "lastFlush"}
    /\ Fault("save")
    /\ buffer' = {}
    /\ AfterFlush
    /\ UNCHANGED <<stateFile, storeVars, gone, historyVars, here, attempt, resume, leave,
                   pageCount, pagesHere, passOver>>

\* The transaction fails and the exception ends the run.
FlushRaises ==
    /\ run \in {"flush", "lastFlush"} /\ buffer # {}
    /\ Fault("save")
    /\ LoseMemory
    /\ UNCHANGED <<stateFile, storeVars, gone, historyVars, passOver>>

\* Leaves the page loop, and the position loop after the last position.
GoOn ==
    CASE leave = "page" ->
           run' = "loop" /\ UNCHANGED memoryVars
      [] leave = "run" -> LoseMemory
      [] leave = "position" /\ NextPosition # NoState ->
           /\ run' = "loop"
           /\ here' = NextPosition
           /\ pagesHere' = 0
           /\ UNCHANGED <<attempt, buffer, resume, leave, pageCount>>
      [] leave = "position" /\ NextPosition = NoState ->
           run' = "lastFlush" /\ UNCHANGED memoryVars

\* save_state (a new file in the place of the old one) and clear_state.
SaveState(state) == stateFile' = state

\* _save_next_discovery_state: the state is removed after the last position.
WriteState ==
    /\ run = "write"
    /\ SaveState(resume)
    /\ cleared' = (cleared \/ resume = NoState)
    /\ GoOn
    /\ UNCHANGED <<storeVars, received, gone, passOver, faults>>

\* Nothing stopped the run: the state is removed.
ClearState ==
    /\ run = "clear"
    /\ SaveState(NoState)
    /\ passOver' = TRUE
    /\ LoseMemory
    /\ UNCHANGED <<storeVars, historyVars, gone, faults>>

Step ==
    \/ RetryList
    \/ ReceivePage
    \/ ReceiveEmptyPage
    \/ Flush
    \/ WriteState
    \/ ClearState

\* The pass is over; the next one is another behaviour.
Rest == run = "down" /\ passOver /\ UNCHANGED vars

Next ==
    \/ StartRun
    \/ Step
    \/ DropCategory
    \/ CategoriesFail
    \/ StopEarly
    \/ ListFails
    \/ FlushRaises
    \/ Crash
    \/ Rest

Spec == Init /\ [][Next]_vars

\* The scheduler starts the collector daily; the API and the store answer.
Fairness == WF_vars(StartRun) /\ WF_vars(Step)

FairSpec == Spec /\ Fairness

-----------------------------------------------------------------------------
(* Properties. *)

TypeOK ==
    /\ stateFile \in ResumePoint
    /\ handled \in SUBSET ListPage
    /\ ranks \in SUBSET ListPage
    /\ gone \subseteq Vanishing
    /\ attempt \in 0..MaxRetries
    /\ received \in SUBSET ListPage /\ cleared \in BOOLEAN
    /\ run \in {"down", "loop", "flush", "write", "lastFlush", "clear"}
    /\ here \in ResumePoint /\ here.page >= 1
    /\ buffer \in SUBSET ListPage
    /\ resume \in ResumePoint
    /\ leave \in {"page", "position", "run"}
    /\ pageCount \in Nat
    /\ pagesHere \in Nat
    /\ passOver \in BOOLEAN
    /\ faults \in [Faults -> Nat]
    /\ \A kind \in Faults : faults[kind] <= Limit[kind]

\* The next run fetches every page of the pass whose products, or whose ranks
\* where the sort has them, have not been saved, wherever the previous one left
\* off.
ResumePointBehindSaves ==
    run = "down" /\ ~passOver =>
        LET passed == (Page \cap Covered(stateFile)) \ PagesOf(gone)
        IN  passed \subseteq handled /\ {p \in passed : p.pos \in Ranked} \subseteq ranks

\* The pages that the next run, if this one dies now, fetches a second time.
FetchedAgain == {p \in received : p.pos \notin gone /\ ~Before(p, StartPlace)}

\* A run that dies costs at most FlushPages pages that are fetched again, also
\* one without a state file.  Two interruptions cost the whole discovery and are
\* left out: one between the removal of the state behind the last position and
\* the end of the run, and one whose resume point names a dropped category.
LittleFetchedAgain ==
    ~cleared /\ (stateFile = NoState \/ stateFile.pos \notin gone)
        => Cardinality(FetchedAgain) <= FlushPages

\* However a run has ended.
NeverMuchFetchedAgain ==
    run = "down" /\ ~passOver => Cardinality(FetchedAgain) <= FlushPages

\* With finitely many faults the pass comes to its end.
PassEnds == <>(run = "down" /\ passOver)

Pass == INSTANCE CollectionPass
            WITH covered <- Page \cap Covered(stateFile),
                 handled <- (Page \cap handled) \cup PagesOf(gone),
                 finished <- passOver

\* The discovery keeps the promise of a collection pass.
PassSpec == Pass!Spec
=============================================================================
