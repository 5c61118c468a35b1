----------------------------- MODULE DomeggookRuns -----------------------------
(***************************************************************************)
(* The domeggook collections of one installation, run after run: main.run  *)
(* in full mode (list discovery, then details) and in daily mode (details, *)
(* then the discovery of recent products), and the fixed category          *)
(* collection (its own discovery, then the details of what it has listed). *)
(* One process runs at a time; FileLock keeps runs of main.run apart, and  *)
(* the fixed collection is run by hand.                                    *)
(*                                                                         *)
(* main.run's discovery is DomeggookDiscover, here with a flush per page   *)
(* and as it ends; the fixed collection's is modelled in full.             *)
(***************************************************************************)
EXTENDS DomeggookDetails

CONSTANTS
    NumPositions,   \* (category, market) pairs, or with sorts for main.run
    Category,       \* position -> its category
    Listings,       \* what the API may list: position -> pages of products
    CategoryLimit,  \* --per-category-product-limit
    MaxTime         \* bound on the times of discoveries

Position == 1..NumPositions

ASSUME RunsAssumption ==
    /\ NumPositions \in Nat \ {0}
    /\ DOMAIN Category = Position
    /\ \A l \in Listings :
        /\ l \in [Position -> Seq(Seq(Product) \ {<<>>})]
        /\ \A pos \in Position, other \in Position : Category[pos] # Category[other] =>
            \A i \in DOMAIN l[pos], j \in DOMAIN l[other] :
                ToSet(l[pos][i]) \cap ToSet(l[other][j]) = {}
    /\ CategoryLimit \in Nat \ {0} /\ MaxTime \in Nat \ {0}

VARIABLES
    listing,        \* what the API lists now
    discoveryState, \* mode -> the state file of its discovery, or None
    at,             \* runCollectedAt of the discovery
    here,           \* its position_index and page
    ids,            \* product_ids of the fixed discovery, in order
    sample,         \* its category_product_ids: category -> products
    recorded        \* products of the pages that the fixed discovery has come
                    \* to the end of since it began without a state (history)

discoveryVars == <<discoveryState, at, here, ids, sample, recorded>>
vars == <<detailsVars, listing, discoveryVars>>

NoSample == [c \in {Category[pos] : pos \in Position} |-> {}]

First == [pos |-> 1, page |-> 1]

ForgetDiscovery == at' = 0 /\ here' = First /\ ids' = <<>> /\ sample' = NoSample

ForgetDetails == list' = <<>> /\ index' = 0 /\ startLast' = 0 /\ attempt' = 0

Init ==
    /\ schedule \in Schedules
    /\ found = [p \in Product |-> 0]
    /\ detailState = [m \in Mode |-> None]
    /\ due = [m \in Mode |-> {}] /\ relisted = {}
    /\ pc = "down" /\ mode = "none" /\ limited = FALSE
    /\ used = 0 /\ failed = FALSE /\ stopped = FALSE
    /\ list = <<>> /\ index = 0 /\ startLast = 0 /\ attempt = 0
    /\ outcome = "none" /\ faults = 0
    /\ listing \in Listings
    /\ discoveryState = [m \in Mode |-> None]
    /\ at = 0 /\ here = First /\ ids = <<>> /\ sample = NoSample
    /\ recorded = {}

\* The API ranks the products anew.
Rerank ==
    /\ Fault
    /\ listing' \in Listings \ {listing}
    /\ UNCHANGED <<schedule, found, detailVars, pc, runVars, listVars, outcome,
                   discoveryVars>>

\* Mutant: a full run always begins with the discovery.
StartWithDiscovery ==
    /\ pc = "down"
    /\ mode' \in schedule
    /\ limited' = FALSE
    /\ pc' = IF mode' = "daily" THEN "beginDetails" ELSE "beginDiscovery"
    /\ UNCHANGED <<schedule, found, detailVars, used, failed, stopped, listVars,
                   outcome, faults, listing, discoveryVars>>

\* run, up to the first stage: a full run with details to go on with leaves the
\* discovery out, unless that has to go on as well.
StartRun ==
    /\ pc = "down"
    /\ mode' \in schedule
    /\ \/ limited' = FALSE /\ UNCHANGED faults
       \/ limited' = TRUE /\ Fault
    /\ pc' = IF \/ mode' = "daily"
                \/ /\ mode' = "full" /\ ~limited'
                   /\ detailState[mode'] # None /\ discoveryState[mode'] = None
             THEN "beginDetails" ELSE "beginDiscovery"
    /\ UNCHANGED <<schedule, found, detailVars, used, failed, stopped, listVars,
                   outcome, listing, discoveryVars>>

ForgetRun ==
    /\ pc' = "down" /\ mode' = "none" /\ limited' = FALSE
    /\ used' = 0 /\ failed' = FALSE /\ stopped' = FALSE
    /\ ForgetDetails /\ ForgetDiscovery

\* _exit_code and _status of the daily runner, from the results of the stages.
Status == IF failed THEN "failed" ELSE IF stopped THEN "paused" ELSE "completed"

EndRun ==
    /\ pc = "end"
    /\ outcome' = Status
    /\ ForgetRun
    /\ UNCHANGED <<schedule, found, detailVars, faults, listing, discoveryState,
                   recorded>>

Crash ==
    /\ pc # "down"
    /\ Fault
    /\ outcome' = "failed"
    /\ ForgetRun
    /\ UNCHANGED <<schedule, found, detailVars, listing, discoveryState, recorded>>

-----------------------------------------------------------------------------
(* The discoveries. *)

\* --limit cuts main.run's positions.
LastPosition == IF limited /\ mode = "full" THEN 1 ELSE NumPositions

\* A time after those of all rows and state files; MaxTime is not told from what
\* comes after it.
Now ==
    LET times == {0} \cup {found[p] : p \in Product} \cup
                 {discoveryState[m].at : m \in {n \in Mode : discoveryState[n] # None}}
    IN  Min({Max(times) + 1, MaxTime})

\* What the fixed discovery's state holds of its sample.
TakeUpSample(state) == ids' = state.ids /\ sample' = state.sample

\* _discovery_start_index, _start_index: a position that is not there gives the
\* first one, but the page of the state.
BeginDiscovery ==
    /\ pc = "beginDiscovery"
    /\ pc' = "listing"
    /\ LET state == discoveryState[mode]
       IN IF state = None
            THEN /\ at' = Now /\ here' = First
                 /\ ids' = <<>> /\ sample' = NoSample
                 /\ recorded' = IF mode = "fixed" THEN {} ELSE recorded
            ELSE /\ at' = state.at
                 /\ here' = [state.here EXCEPT !.pos = IF @ > LastPosition THEN 1 ELSE @]
                 /\ TakeUpSample(state)
                 /\ UNCHANGED recorded
    /\ UNCHANGED <<schedule, found, detailVars, runVars, listVars, outcome, faults,
                   listing, discoveryState>>

LimitReached(products) == mode = "fixed" /\ Cardinality(products) >= CategoryLimit

CategoryHere == Category[here.pos]

\* Mutant: the state carries no product ids.
WriteDiscoveryStateAlone(place) ==
    discoveryState' = [discoveryState EXCEPT ![mode] =
        [at |-> at, here |-> place, ids |-> <<>>, sample |-> sample']]

\* _save_next_state, _save_next_discovery_state.
WriteDiscoveryState(place) ==
    discoveryState' = [discoveryState EXCEPT ![mode] =
        [at |-> at, here |-> place, ids |-> ids', sample |-> sample']]

\* The position is done with: on to the next one, or the discovery is over and
\* its state is removed.
LeavePosition ==
    IF here.pos < LastPosition
      THEN /\ here' = [pos |-> here.pos + 1, page |-> 1]
           /\ WriteDiscoveryState(here')
           /\ UNCHANGED pc
      ELSE /\ discoveryState' = [discoveryState EXCEPT ![mode] = None]
           /\ pc' = "discovered"
           /\ UNCHANGED here

\* The category has its sample from another market.
SkipPosition ==
    /\ pc = "listing"
    /\ LimitReached(sample[CategoryHere])
    /\ UNCHANGED <<ids, sample>>
    /\ LeavePosition
    /\ UNCHANGED <<schedule, found, detailVars, runVars, listVars, outcome, faults,
                   listing, at, recorded>>

Listing == pc = "listing" /\ ~LimitReached(sample[CategoryHere])

StopDiscovery ==
    /\ Listing
    /\ IF CanCall THEN Fault ELSE UNCHANGED faults
    /\ stopped' = TRUE
    /\ UNCHANGED <<ids, sample>>
    /\ WriteDiscoveryState(here)
    /\ pc' = "discovered"
    /\ UNCHANGED <<schedule, found, detailVars, mode, limited, used, failed, listVars,
                   outcome, listing, at, here, recorded>>

\* getItemList fails, which is not counted; only main.run's discovery writes its
\* state then.
FailList ==
    /\ Listing /\ CanCall
    /\ Fault
    /\ failed' = TRUE
    /\ UNCHANGED <<ids, sample>>
    /\ IF mode = "fixed" THEN UNCHANGED discoveryState ELSE WriteDiscoveryState(here)
    /\ pc' = "discovered"
    /\ UNCHANGED <<schedule, found, detailVars, mode, limited, used, stopped, listVars,
                   outcome, listing, at, here, recorded>>

Pages == listing[here.pos]

\* parse_list_items, parse_product_id.
Items == Pages[here.page]

ItemsBefore(i) == {Items[j] : j \in 1..i - 1}

\* The items of the page that count: the fixed discovery stops at the limit.
Counted == {i \in DOMAIN Items : ~LimitReached(sample[CategoryHere] \cup ItemsBefore(i))}

Taken == {Items[i] : i \in Counted}

\* Items whose products are new to product_ids.
New == {i \in Counted : Items[i] \notin ToSet(ids) \cup ItemsBefore(i)}

\* product_ids.setdefault, item by item.
NewIds ==
    LET order == InOrder(New, {pair \in New \X New : pair[1] < pair[2]})
    IN  [k \in 1..Cardinality(New) |-> Items[order[k]]]

\* The products become rows of product_discovery_targets.
SaveTargets ==
    found' = [p \in Product |-> IF found[p] = 0 /\ p \in Taken THEN at ELSE found[p]]

\* What a page leaves in memory.
RememberPage ==
    IF mode = "fixed"
      THEN /\ ids' = ids \o NewIds
           /\ sample' = [sample EXCEPT ![CategoryHere] = @ \cup Taken]
           /\ recorded' = recorded \cup Taken
      ELSE UNCHANGED <<ids, sample, recorded>>

ReceivesItems == Listing /\ CanCall /\ here.page <= Len(Pages)

\* A page with items.  The position is left at the category's limit, after its
\* last page, which is short, and in daily mode after its first one.  A limited
\* fixed run stops here.
ReceiveList ==
    /\ ReceivesItems
    /\ used' = used + 1
    /\ SaveTargets /\ RememberPage
    /\ IF \/ LimitReached(sample'[CategoryHere])
          \/ here.page = Len(Pages) \/ mode = "daily"
         THEN LeavePosition
         ELSE /\ here' = [here EXCEPT !.page = @ + 1]
              /\ WriteDiscoveryState(here')
              /\ IF limited /\ mode = "fixed" THEN pc' = "discovered" ELSE UNCHANGED pc
    /\ UNCHANGED <<schedule, detailVars, mode, limited, failed, stopped, listVars,
                   outcome, faults, listing, at>>

\* The run dies with the page saved, but not yet in its state file.
CrashBeforeState ==
    /\ ReceivesItems
    /\ Fault
    /\ SaveTargets
    /\ outcome' = "failed"
    /\ ForgetRun
    /\ UNCHANGED <<schedule, detailVars, listing, discoveryState, recorded>>

ReceiveEmptyList ==
    /\ Listing /\ CanCall
    /\ here.page > Len(Pages)
    /\ used' = used + 1
    /\ UNCHANGED <<ids, sample>>
    /\ LeavePosition
    /\ UNCHANGED <<schedule, found, detailVars, mode, limited, failed, stopped,
                   listVars, outcome, faults, listing, at, recorded>>

-----------------------------------------------------------------------------
(* From stage to stage. *)

\* After the discovery: main.run goes on unless it was stopped, the fixed
\* collection only if nothing went wrong either.
AfterDiscovery ==
    /\ pc = "discovered"
    /\ pc' = IF mode = "daily" \/ stopped \/ (mode = "fixed" /\ failed)
             THEN "end" ELSE "beginDetails"
    /\ UNCHANGED <<schedule, found, detailVars, runVars, listVars, outcome, faults,
                   listing, discoveryVars>>

CallDetails ==
    /\ pc = "beginDetails"
    /\ BeginDetails(IF mode = "fixed" THEN ids
                    ELSE IF limited THEN FirstOf(DiscoveredIds, ProductLimit)
                    ELSE DiscoveredIds)
    /\ UNCHANGED <<schedule, found, detailState, runVars, outcome, faults, listing,
                   discoveryVars>>

\* After the details: in daily mode the discovery, with calls that are left.
AfterDetails ==
    /\ pc \in {"detailsDone", "detailsEnded"}
    /\ pc' = IF mode = "daily" /\ pc = "detailsDone" /\ CanCall
             THEN "beginDiscovery" ELSE "end"
    /\ ForgetDetails
    /\ UNCHANGED <<schedule, found, detailVars, runVars, outcome, faults, listing,
                   discoveryVars>>

Details == DetailsStep /\ UNCHANGED <<listing, discoveryVars>>

Step ==
    \/ EndRun
    \/ BeginDiscovery \/ SkipPosition \/ ReceiveList \/ ReceiveEmptyList
    \/ ~CanCall /\ StopDiscovery
    \/ AfterDiscovery \/ CallDetails \/ AfterDetails
    \/ Details

Faults ==
    \/ Rerank
    \/ CanCall /\ StopDiscovery
    \/ FailList
    \/ DetailsFault /\ UNCHANGED <<listing, discoveryVars>>

Next == StartRun \/ Step \/ Faults \/ Crash \/ CrashBeforeState

Spec == Init /\ [][Next]_vars

\* The scheduler starts runs; the API and the store answer.
Fairness == WF_vars(StartRun) /\ WF_vars(Step)

FairSpec == Spec /\ Fairness

-----------------------------------------------------------------------------
(* Properties. *)

Place == [pos : Position, page : Nat \ {0}]

Samples == [DOMAIN NoSample -> SUBSET Product]

DetailFile ==
    {state \in [list : Seq(Product), next : Nat, last : Product \cup {0}] :
        state.next <= Len(state.list)}

DiscoveryFile == [at : 0..MaxTime, here : Place, ids : Seq(Product), sample : Samples]

TypeOK ==
    /\ schedule \in Schedules /\ listing \in Listings
    /\ found \in [Product -> 0..MaxTime] /\ at \in 0..MaxTime
    /\ detailState \in [Mode -> DetailFile \cup {None}]
    /\ discoveryState \in [Mode -> DiscoveryFile \cup {None}]
    /\ due \in [Mode -> SUBSET Product] /\ relisted \subseteq Mode
    /\ pc \in {"down", "beginDiscovery", "listing", "discovered", "beginDetails",
               "batch", "write", "detailsDone", "detailsEnded", "end"}
    /\ mode \in Mode \cup {"none"} /\ limited \in BOOLEAN
    /\ failed \in BOOLEAN /\ stopped \in BOOLEAN
    /\ used \in 0..Budget
    /\ list \in Seq(Product) /\ index \in 0..Len(list)
    /\ startLast \in Product \cup {0} /\ attempt \in 0..MaxAttempts
    /\ here \in Place
    /\ ids \in Seq(Product) /\ sample \in Samples
    /\ recorded \subseteq Product
    /\ outcome \in {"none", "completed", "paused", "failed"}
    /\ faults \in 0..MaxFaults

\* A collection that is done with its list, and so removes its state, has had an
\* answer for every product that was listed when its pass began and still is,
\* however many runs and whatever targets came in between.
DetailsWholeAlways == pc = "detailsDone" => due[mode] \cap ToSet(list) = {}

\* The same, unless the API has dropped or moved products of the list of a fixed
\* collection, which lists anew before it goes on.
DetailsWhole == (mode = "fixed" /\ mode \in relisted) \/ DetailsWholeAlways

\* The fixed collection asks for the details of every product of the pages that
\* its discovery has dealt with since it began, in whichever runs, and keeps to its
\* limit.
SampleWhole ==
    mode = "fixed" /\ pc \in {"batch", "write"} =>
        /\ recorded \subseteq ToSet(list)
        /\ \A c \in DOMAIN sample : Cardinality(sample[c] \cap recorded) <= CategoryLimit

\* Once nothing goes wrong any more, runs come through: whatever an earlier run
\* has left is worked off with the calls of the runs to come.
RunsComplete == []<>(outcome = "completed")
=============================================================================
