------------------------------ MODULE OwnerclanRun ------------------------------
(***************************************************************************)
(* One ownerclan installation run after run: main.run collects the         *)
(* categories, then syncs what changed since the last sync                 *)
(* (sync_incremental), and starts over after failures.  The requests of    *)
(* the sync go through OwnerclanClient and JwtProvider, retries included.  *)
(* The category collection is OwnerclanParallel or OwnerclanSequential;    *)
(* here it handles one item after another and ends as those modules end.   *)
(* Time is a number; a version of an item is named by its updatedAt.       *)
(***************************************************************************)
EXTENDS Integers, FiniteSets, FiniteSetsExt

CONSTANTS
    NumItems,
    MaxTime,            \* bound on the clock
    Overlap,            \* incremental.overlap_minutes
    Lag,                \* how long after its updatedAt a change may appear
    Histories,          \* incremental.include_item_histories
    MaxAttempts,        \* request.max_retries + 1
    MaxFailureRestarts, \* --max-failure-restarts
    MaxFaults           \* bound: rate limits, repeated cursors, runs with
                        \* --limit and crashes, all together

Item == 1..NumItems

ASSUME RunAssumption ==
    /\ NumItems \in Nat \ {0} /\ MaxTime \in Nat
    /\ Overlap \in Nat /\ Lag \in 0..Overlap
    /\ Histories \in BOOLEAN
    /\ MaxAttempts \in Nat \ {0} /\ MaxFailureRestarts \in Nat
    /\ MaxFaults \in Nat

Never == -1

VARIABLES
    now, updated,    \* the clock; item -> updatedAt at the server
    fresh,           \* items whose latest version is in the store (history)
    lastSync,        \* lastSuccessfulItemSyncAt of incremental-state.json
    cached,          \* categories.json lists leaf categories
    passDone,        \* the category state files cover the items 1..passDone
    trusted,         \* no sync that had stopped early or begun without a date
                     \* has moved the date (history)
    pc,
    limited,         \* --limit
    restarts,        \* category_failure_restarts, incremental_failure_restarts
    dateTo, fetched, \* of the sync: its end; item -> updatedAt, or Never
    failed,          \* of the sync: "no", "rate" or "failure"
    cutShort,        \* more items were to come when it stopped (history)
    attempt, replayed, \* of _graphql_once_with_retries: the attempt, 0 if none is
                     \* under way; whether it is the call after the 401
    minimal,         \* whether a page is being asked for with minimal=True
    faults           \* number of faults so far

serverVars == <<now, updated>>
diskVars == <<fresh, lastSync, cached, passDone, trusted>>
syncVars == <<dateTo, fetched, failed, cutShort>>
callVars == <<attempt, replayed, minimal>>
runVars == <<limited, restarts>>
vars == <<serverVars, diskVars, pc, runVars, syncVars, callVars, faults>>

Nothing == [i \in Item |-> Never]

\* Either nothing has ever been collected, or a sync has succeeded at time 0.
Init ==
    /\ now = 0 /\ updated = [i \in Item |-> 0]
    /\ lastSync \in {Never, 0}
    /\ fresh = IF lastSync = Never THEN {} ELSE Item
    /\ cached = FALSE /\ passDone = 0 /\ trusted = TRUE
    /\ pc = "down" /\ limited = FALSE
    /\ restarts = [category |-> 0, incremental |-> 0]
    /\ dateTo = 0 /\ fetched = Nothing /\ failed = "no" /\ cutShort = FALSE
    /\ attempt = 0 /\ replayed = FALSE /\ minimal = FALSE
    /\ faults = 0

Fault ==
    /\ faults < MaxFaults
    /\ faults' = faults + 1

\* Time passes and items change while items are being listed, between two
\* requests: at other moments neither would be noticed before the next list.
Listing == pc \in {"collect", "page"} /\ attempt = 0

Tick ==
    /\ Listing
    /\ now < MaxTime
    /\ now' = now + 1
    /\ UNCHANGED <<updated, diskVars, pc, runVars, syncVars, callVars, faults>>

\* An item changes, or a change of it is published late.
Change(i) ==
    /\ Listing
    /\ \E t \in (now - Lag)..now :
        t > updated[i] /\ updated' = [updated EXCEPT ![i] = t]
    /\ fresh' = fresh \ {i}
    /\ UNCHANGED <<now, lastSync, cached, passDone, trusted, pc, runVars, syncVars,
                   callVars, faults>>

ForgetCall == attempt' = 0 /\ replayed' = FALSE /\ minimal' = FALSE

ForgetSync ==
    dateTo' = 0 /\ fetched' = Nothing /\ failed' = "no" /\ cutShort' = FALSE

EndRun ==
    /\ pc' = "down" /\ limited' = FALSE
    /\ restarts' = [category |-> 0, incremental |-> 0]
    /\ ForgetSync

Crash ==
    /\ pc # "down"
    /\ Fault
    /\ EndRun /\ ForgetCall
    /\ UNCHANGED <<serverVars, diskVars>>

\* load_or_refresh_leaf_categories: the cache, or a new list.
LoadCategories(refresh) == pc' = IF cached /\ ~refresh THEN "collect" ELSE "list"

StartRun ==
    /\ pc = "down"
    /\ \E refresh \in BOOLEAN : LoadCategories(refresh)
    /\ \/ limited' = FALSE /\ UNCHANGED faults
       \/ limited' = TRUE /\ Fault
    /\ UNCHANGED <<serverVars, diskVars, restarts, syncVars, callVars>>

-----------------------------------------------------------------------------
(* A request: OwnerclanClient.graphql. *)

Asking == {"list", "page", "histories"}

\* The exception of a request.  A refresh of the category list lets it out of
\* main.run; the sync turns it into a failure, and only a failure of allItems
\* can count as a rate limit.
Failing(kind) ==
    /\ ForgetCall
    /\ IF kind = "rate" THEN Fault ELSE UNCHANGED faults
    /\ IF pc = "list"
         THEN EndRun
         ELSE /\ pc' = "save"
              /\ failed' = IF pc = "page" THEN kind ELSE "failure"
              /\ UNCHANGED <<runVars, dateTo, fetched, cutShort>>
    /\ UNCHANGED <<serverVars, diskVars>>

Trying == pc \in Asking /\ attempt > 0

\* JwtProvider.token: the cached token, or a new one.
Send ==
    /\ pc \in Asking /\ attempt = 0
    /\ attempt' = 1
    /\ UNCHANGED <<serverVars, diskVars, pc, runVars, syncVars, replayed, minimal,
                   faults>>

\* The token cannot be had; "HTTP 429" in the message counts as a rate limit.
AuthFails(kind) ==
    /\ pc \in Asking
    /\ attempt = 0 \/ ~replayed
    /\ Failing(kind)

\* A network error, a transient status or a GraphQL rate limit, with attempts
\* left: after a pause the request is sent again.
TryAgain ==
    /\ Trying /\ attempt < MaxAttempts
    /\ attempt' = attempt + 1
    /\ UNCHANGED <<serverVars, diskVars, pc, runVars, syncVars, replayed, minimal,
                   faults>>

\* Mutant: the call after a 401 may meet another 401.
AskForTokenAgain ==
    /\ Trying
    /\ replayed' = TRUE /\ attempt' = 1
    /\ UNCHANGED <<serverVars, diskVars, pc, runVars, syncVars, minimal, faults>>

\* OwnerclanAuthExpired: with a new token everything is tried once more.
Unauthorized ==
    /\ Trying /\ ~replayed
    /\ replayed' = TRUE /\ attempt' = 1
    /\ UNCHANGED <<serverVars, diskVars, pc, runVars, syncVars, minimal, faults>>

\* The last attempt fails, or an answer that is not worth another one: an error
\* status, no JSON, GraphQL errors (a quota's with an error status among them),
\* no data.
GiveUp(kind) ==
    /\ Trying
    /\ Failing(kind)

\* GraphQL errors about a field that the server does not know: the page is asked
\* for once more, with the fields that every server has.
AskMinimal ==
    /\ pc = "page" /\ Trying
    /\ ~minimal /\ minimal' = TRUE
    /\ attempt' = 1 /\ replayed' = FALSE
    /\ UNCHANGED <<serverVars, diskVars, pc, runVars, syncVars, faults>>

-----------------------------------------------------------------------------
(* The category stage. *)

\* fetch_all_categories: another page of the tree, or the last one, after which
\* the cache is replaced.
ReceiveCategories ==
    /\ pc = "list" /\ Trying
    /\ ForgetCall
    /\ \/ UNCHANGED <<pc, cached>>
       \/ pc' = "collect" /\ cached' = TRUE
    /\ UNCHANGED <<serverVars, fresh, lastSync, passDone, trusted, runVars,
                   syncVars, faults>>

\* The page with the next item is handled.
CollectItem ==
    /\ pc = "collect" /\ passDone < NumItems
    /\ passDone' = passDone + 1
    /\ fresh' = fresh \cup {passDone'}
    /\ UNCHANGED <<serverVars, lastSync, cached, trusted, pc, runVars, syncVars,
                   callVars, faults>>

\* sync_incremental begins, at the time that will be its end.
BeginSync ==
    /\ pc' = "page"
    /\ dateTo' = now
    /\ UNCHANGED <<fetched, failed, cutShort>>

\* The stage ends well.  The state files go when everything has been collected;
\* with limits the stage ends anywhere and they stay.
CategoriesEndWell ==
    /\ pc = "collect"
    /\ limited \/ passDone = NumItems
    /\ passDone' = IF limited THEN passDone ELSE 0
    /\ restarts' = [restarts EXCEPT !.category = 0]
    /\ BeginSync
    /\ UNCHANGED <<serverVars, fresh, lastSync, cached, trusted, limited, callVars,
                   faults>>

\* Mutant: one restart too many.
RestartOnceMore(stage, kind) ==
    /\ kind = "rate" \/ restarts[stage] <= MaxFailureRestarts
    /\ LoadCategories(FALSE)
    /\ restarts' = IF kind = "rate" THEN restarts
                   ELSE [restarts EXCEPT ![stage] = @ + 1]
    /\ UNCHANGED limited

\* Wait, then start over with the categories: always after a rate limit, at most
\* MaxFailureRestarts times after another failure.
Restart(stage, kind) ==
    /\ kind = "rate" \/ restarts[stage] < MaxFailureRestarts
    /\ LoadCategories(FALSE)
    /\ restarts' = IF kind = "rate" THEN restarts
                   ELSE [restarts EXCEPT ![stage] = @ + 1]
    /\ UNCHANGED limited

CategoriesFail(kind) ==
    /\ pc = "collect"
    /\ IF kind = "rate" THEN Fault ELSE UNCHANGED faults
    /\ \/ Restart("category", kind) /\ UNCHANGED <<syncVars, callVars>>
       \/ kind = "failure" /\ restarts.category >= MaxFailureRestarts /\ EndRun
          /\ UNCHANGED callVars
    /\ UNCHANGED <<serverVars, diskVars>>

-----------------------------------------------------------------------------
(* The incremental stage. *)

\* _incremental_from.  Mutant: back to the last sync only.
DateFromLastSync == IF lastSync = Never THEN dateTo - Overlap ELSE lastSync

\* _incremental_from: the last sync, or the overlap before now if there has been
\* none, less the overlap.
DateFrom == (IF lastSync = Never THEN dateTo - Overlap ELSE lastSync) - Overlap

\* allItems in the order of their dates; the cursor is the last item fetched.
Position(i, t) == t * (NumItems + 1) + i

Listed ==
    {i \in Item : /\ updated[i] \in DateFrom..dateTo
                  /\ \A j \in Item : fetched[j] # Never
                        => Position(i, updated[i]) > Position(j, fetched[j])}

\* The page loop is left, "completed": the histories are next, if configured.
LeavePages(rest) ==
    /\ pc' = IF Histories THEN "histories" ELSE "save"
    /\ cutShort' = (rest # {})

\* A page of one item, or of none.  The page loop ends with the last page, at a
\* limit or at a repeated cursor, all of which count as completion.
ReceivePage ==
    /\ pc = "page" /\ Trying
    /\ ForgetCall
    /\ \/ Listed = {} /\ LeavePages({}) /\ UNCHANGED <<fetched, faults>>
       \/ \E i \in Listed :
            /\ \A j \in Listed : Position(i, updated[i]) <= Position(j, updated[j])
            /\ fetched' = [fetched EXCEPT ![i] = updated[i]]
            /\ \/ Listed # {i} /\ UNCHANGED <<pc, cutShort, faults>>
               \/ /\ LeavePages(Listed \ {i})
                  /\ IF Listed = {i} \/ limited THEN UNCHANGED faults ELSE Fault
    /\ UNCHANGED <<serverVars, diskVars, runVars, dateTo, failed>>

\* fetch_item_histories: another page, or the last one.  The histories go nowhere.
ReceiveHistories ==
    /\ pc = "histories" /\ Trying
    /\ ForgetCall
    /\ pc' \in {"histories", "save"}
    /\ UNCHANGED <<serverVars, diskVars, runVars, syncVars, faults>>

\* The products are saved, also those of a sync that failed.
SaveSync ==
    /\ pc = "save"
    /\ pc' = "date"
    /\ fresh' = fresh \cup {i \in Item : fetched[i] = updated[i]}
    /\ UNCHANGED <<serverVars, lastSync, cached, passDone, trusted, runVars,
                   syncVars, callVars, faults>>

\* The date moves to the sync's end unless it failed.
MoveDate ==
    IF failed = "no"
      THEN /\ lastSync' = dateTo
           /\ trusted' = (trusted /\ lastSync # Never /\ ~cutShort)
      ELSE UNCHANGED <<lastSync, trusted>>

EndSync ==
    /\ pc = "date"
    /\ MoveDate
    /\ \/ failed = "no" /\ EndRun
       \/ failed # "no" /\ Restart("incremental", failed) /\ ForgetSync
       \/ failed = "failure" /\ restarts.incremental >= MaxFailureRestarts /\ EndRun
    /\ UNCHANGED <<serverVars, fresh, cached, passDone, callVars, faults>>

-----------------------------------------------------------------------------

FailureStep ==
    \E kind \in {"failure", "rate"} : AuthFails(kind) \/ GiveUp(kind) \/ CategoriesFail(kind)

Step ==
    \/ Send \/ TryAgain \/ Unauthorized \/ AskMinimal
    \/ ReceiveCategories
    \/ CollectItem
    \/ CategoriesEndWell
    \/ ReceivePage \/ ReceiveHistories
    \/ SaveSync \/ EndSync
    \/ FailureStep

Next ==
    \/ Tick
    \/ \E i \in Item : Change(i)
    \/ StartRun
    \/ Crash
    \/ Step

Spec == Init /\ [][Next]_vars

\* Whatever is asked gets some answer, a failure perhaps (HTTP timeouts are set);
\* lists of pages are finite.
Fairness ==
    /\ WF_vars(Step)
    /\ SF_vars((ReceiveCategories \/ ReceiveHistories) /\ pc' # pc)

FairSpec == Spec /\ Fairness

-----------------------------------------------------------------------------
(* Properties. *)

TypeOK ==
    /\ now \in 0..MaxTime
    /\ updated \in [Item -> 0..MaxTime]
    /\ fresh \subseteq Item /\ lastSync \in -1..MaxTime
    /\ cached \in BOOLEAN /\ passDone \in 0..NumItems /\ trusted \in BOOLEAN
    /\ pc \in Asking \cup {"down", "collect", "save", "date"}
    /\ limited \in BOOLEAN
    /\ restarts \in [{"category", "incremental"} -> 0..MaxFailureRestarts]
    /\ dateTo \in 0..MaxTime /\ fetched \in [Item -> -1..MaxTime]
    /\ failed \in {"no", "failure", "rate"} /\ cutShort \in BOOLEAN
    /\ attempt \in 0..MaxAttempts /\ replayed \in BOOLEAN /\ minimal \in BOOLEAN

\* What the next sync will not ask for has been saved in its latest version.
DateBehindSaves ==
    lastSync # Never
        => \A i \in Item : updated[i] < lastSync - Overlap => i \in fresh

\* The same for syncs that began with a date and went to the end of their list:
\* then neither failures, crashes, late changes nor restarts let a change go.
NothingSkipped == trusted => DateBehindSaves

\* However many requests fail, as long as rate limits are finitely many main.run
\* comes back: the restarts after failures of either stage do not feed each
\* other.
RunReturns == []<>(pc = "down")
=============================================================================
