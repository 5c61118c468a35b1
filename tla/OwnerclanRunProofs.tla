--------------------------- MODULE OwnerclanRunProofs ---------------------------
(* Proofs about OwnerclanRun, for every number of items, every clock, overlap *)
(* and lag within it, and every limit on attempts, restarts and faults.       *)
EXTENDS OwnerclanRun, TLAPS

-----------------------------------------------------------------------------
(* Type correctness. *)

Restarts == [{"category", "incremental"} -> 0..MaxFailureRestarts]

LEMMA NoRestarts == [category |-> 0, incremental |-> 0] \in Restarts
  BY RunAssumption DEF Restarts

LEMMA OneMoreRestart ==
  ASSUME NEW r \in Restarts, NEW stage \in {"category", "incremental"}
  PROVE  /\ [r EXCEPT !.category = 0] \in Restarts
         /\ r[stage] < MaxFailureRestarts => [r EXCEPT ![stage] = @ + 1] \in Restarts
  BY RunAssumption DEF Restarts

LEMMA NothingType == Nothing \in [Item -> -1..MaxTime]
  BY RunAssumption DEF Nothing, Never

\* What a run, its sync and its request remember.
SyncType ==
    /\ dateTo \in 0..MaxTime /\ fetched \in [Item -> -1..MaxTime]
    /\ failed \in {"no", "failure", "rate"} /\ cutShort \in BOOLEAN

RunType ==
    /\ pc \in Asking \cup {"down", "collect", "save", "date"}
    /\ limited \in BOOLEAN
    /\ restarts \in Restarts

CallType ==
    attempt \in 0..MaxAttempts /\ replayed \in BOOLEAN /\ minimal \in BOOLEAN

DiskType ==
    /\ fresh \subseteq Item /\ lastSync \in -1..MaxTime
    /\ cached \in BOOLEAN /\ passDone \in 0..NumItems /\ trusted \in BOOLEAN

ServerType == now \in 0..MaxTime /\ updated \in [Item -> 0..MaxTime]

LEMMA TypeParts == TypeOK <=> ServerType /\ DiskType /\ RunType /\ SyncType /\ CallType
  BY DEF TypeOK, ServerType, DiskType, RunType, SyncType, CallType, Restarts

LEMMA KeptTypes ==
  /\ ServerType /\ UNCHANGED serverVars => ServerType'
  /\ DiskType /\ UNCHANGED diskVars => DiskType'
  /\ RunType /\ UNCHANGED <<pc, runVars>> => RunType'
  /\ SyncType /\ UNCHANGED syncVars => SyncType'
  /\ CallType /\ UNCHANGED callVars => CallType'
  BY DEF ServerType, DiskType, RunType, SyncType, CallType, serverVars, diskVars, runVars,
         syncVars, callVars

LEMMA ForgottenTypes ==
  /\ EndRun => RunType' /\ SyncType'
  /\ ForgetSync => SyncType'
  /\ ForgetCall => CallType'
<1>1. ASSUME ForgetSync PROVE SyncType'
  <2>1. 0 \in 0..MaxTime
    BY RunAssumption
  <2>2. QED
    BY <1>1, <2>1, NothingType, Zenon DEF ForgetSync, SyncType
<1>2. ASSUME ForgetCall PROVE CallType'
  <2>1. 0 \in 0..MaxAttempts
    BY RunAssumption
  <2>2. QED
    BY <1>2, <2>1, Zenon DEF ForgetCall, CallType
<1>3. ASSUME EndRun PROVE RunType'
  BY <1>3, NoRestarts DEF EndRun, RunType
<1>4. QED
  BY <1>1, <1>2, <1>3 DEF EndRun

LEMMA RestartType ==
  ASSUME RunType, NEW stage \in {"category", "incremental"}, NEW kind,
         Restart(stage, kind)
  PROVE  RunType'
<1>1. pc' \in {"collect", "list"} /\ limited' = limited
  BY DEF Restart, LoadCategories
<1>2. restarts' \in Restarts
  BY OneMoreRestart DEF Restart, RunType
<1>3. QED
  BY <1>1, <1>2 DEF RunType, Asking

LEMMA FailingType ==
  ASSUME TypeOK, NEW kind \in {"failure", "rate"}, Failing(kind)
  PROVE  TypeOK'
<1> USE TypeParts
<1>1. ServerType' /\ DiskType' /\ CallType'
  BY KeptTypes, ForgottenTypes DEF Failing
<1>2. RunType' /\ SyncType'
  <2>1. CASE pc = "list"
    BY <2>1, ForgottenTypes DEF Failing
  <2>2. CASE pc # "list"
    <3>1. /\ pc' = "save" /\ failed' \in {"failure", "rate"}
          /\ UNCHANGED <<limited, restarts, dateTo, fetched, cutShort>>
      BY <2>2 DEF Failing, runVars
    <3>2. QED
      BY <3>1 DEF RunType, SyncType
  <2>3. QED
    BY <2>1, <2>2
<1>3. (TypeOK <=> ServerType /\ DiskType /\ RunType /\ SyncType /\ CallType)'
  BY TypeParts, PTL
<1>4. QED
  BY <1>1, <1>2, <1>3

LEMMA TypeInit == Init => TypeOK
<1> SUFFICES ASSUME Init PROVE TypeOK
  OBVIOUS
<1>1. ServerType
  BY RunAssumption DEF Init, ServerType
<1>2. DiskType
  <2>1. lastSync \in -1..MaxTime /\ 0 \in 0..NumItems
    BY RunAssumption DEF Init, Never
  <2>2. fresh \subseteq Item
    BY DEF Init
  <2>3. QED
    BY <2>1, <2>2, Zenon DEF Init, DiskType
<1>3. RunType
  BY NoRestarts DEF Init, RunType
<1>4. SyncType /\ CallType
  <2>1. 0 \in 0..MaxTime /\ 0 \in 0..MaxAttempts
    BY RunAssumption
  <2>2. QED
    BY <2>1, NothingType, Zenon DEF Init, SyncType, CallType
<1>5. QED
  BY <1>1, <1>2, <1>3, <1>4, TypeParts

LEMMA TypeNext == TypeOK /\ [Next]_vars => TypeOK'
<1> SUFFICES ASSUME TypeOK, [Next]_vars PROVE TypeOK'
  OBVIOUS
<1>t. ServerType /\ DiskType /\ RunType /\ SyncType /\ CallType
  BY TypeParts
<1>p. ServerType' /\ DiskType' /\ RunType' /\ SyncType' /\ CallType' => TypeOK'
  <2>1. (TypeOK <=> ServerType /\ DiskType /\ RunType /\ SyncType /\ CallType)'
    BY TypeParts, PTL
  <2>2. QED
    BY <2>1
<1> USE <1>t, <1>p, KeptTypes, ForgottenTypes
<1>1. CASE UNCHANGED vars
  BY <1>1 DEF vars
<1>2. CASE Tick
  <2>1. ServerType'
    BY <1>2, RunAssumption DEF Tick, ServerType
  <2>2. QED
    BY <1>2, <2>1 DEF Tick
<1>3. ASSUME NEW i \in Item, Change(i) PROVE TypeOK'
  <2>1. ServerType'
    <3>1. PICK s \in (now - Lag)..now : s > updated[i] /\ updated' = [updated EXCEPT ![i] = s]
      BY <1>3 DEF Change
    <3>2. s \in 0..MaxTime
      BY <3>1, RunAssumption DEF ServerType
    <3>3. QED
      BY <1>3, <3>1, <3>2 DEF Change, ServerType
  <2>2. DiskType'
    BY <1>3 DEF Change, DiskType
  <2>3. QED
    BY <1>3, <2>1, <2>2 DEF Change
<1>4. CASE StartRun
  <2>1. RunType'
    BY <1>4 DEF StartRun, LoadCategories, RunType, Asking
  <2>2. QED
    BY <1>4, <2>1 DEF StartRun
<1>5. CASE Crash
  BY <1>5 DEF Crash
<1>6. CASE Send \/ TryAgain \/ Unauthorized \/ AskMinimal
  <2>1. CallType'
    <3>1. attempt' \in 0..MaxAttempts
      BY <1>6, RunAssumption DEF Send, TryAgain, Unauthorized, AskMinimal, CallType, Trying
    <3>2. replayed' \in BOOLEAN /\ minimal' \in BOOLEAN
      BY <1>6, Zenon DEF Send, TryAgain, Unauthorized, AskMinimal, CallType
    <3>3. QED
      BY <3>1, <3>2 DEF CallType
  <2>2. QED
    BY <1>6, <2>1 DEF Send, TryAgain, Unauthorized, AskMinimal, runVars
<1>7. CASE ReceiveCategories
  <2>1. RunType'
    BY <1>7 DEF ReceiveCategories, RunType, runVars
  <2>2. DiskType'
    BY <1>7 DEF ReceiveCategories, DiskType
  <2>3. QED
    BY <1>7, <2>1, <2>2 DEF ReceiveCategories
<1>8. CASE CollectItem
  <2>1. DiskType'
    BY <1>8, RunAssumption DEF CollectItem, DiskType, Item
  <2>2. QED
    BY <1>8, <2>1 DEF CollectItem
<1>9. CASE CategoriesEndWell
  <2>1. RunType'
    BY <1>9, OneMoreRestart DEF CategoriesEndWell, BeginSync, RunType, Asking
  <2>2. DiskType'
    BY <1>9, RunAssumption DEF CategoriesEndWell, DiskType
  <2>3. SyncType'
    BY <1>9 DEF CategoriesEndWell, BeginSync, SyncType, ServerType
  <2>4. QED
    BY <1>9, <2>1, <2>2, <2>3 DEF CategoriesEndWell
<1>10. CASE ReceivePage
  <2>1. RunType'
    BY <1>10 DEF ReceivePage, LeavePages, RunType, Asking, runVars
  <2>2. fetched' \in [Item -> -1..MaxTime]
    <3>1. \A i \in Item : updated[i] \in -1..MaxTime
      BY RunAssumption DEF ServerType
    <3>2. QED
      BY <1>10, <3>1 DEF ReceivePage, SyncType, Listed
  <2>3. cutShort' \in BOOLEAN
    BY <1>10 DEF ReceivePage, LeavePages, SyncType
  <2>4. QED
    BY <1>10, <2>1, <2>2, <2>3 DEF ReceivePage, SyncType
<1>11. CASE ReceiveHistories
  <2>1. RunType'
    BY <1>11 DEF ReceiveHistories, RunType, Asking, runVars
  <2>2. QED
    BY <1>11, <2>1 DEF ReceiveHistories
<1>12. CASE SaveSync
  <2>1. RunType' /\ DiskType'
    BY <1>12 DEF SaveSync, RunType, DiskType, runVars
  <2>2. QED
    BY <1>12, <2>1 DEF SaveSync
<1>13. CASE EndSync
  <2>1. RunType' /\ SyncType'
    BY <1>13, RestartType DEF EndSync
  <2>2. lastSync' \in -1..MaxTime /\ trusted' \in BOOLEAN
    <3>1. CASE failed = "no"
      <4>1. lastSync' = dateTo /\ trusted' = (trusted /\ lastSync # Never /\ ~cutShort)
        BY <1>13, <3>1 DEF EndSync, MoveDate
      <4>2. trusted' \in BOOLEAN
        BY <4>1, Zenon
      <4>3. lastSync' \in -1..MaxTime
        BY <4>1, RunAssumption DEF SyncType
      <4>4. QED
        BY <4>2, <4>3
    <3>2. CASE failed # "no"
      BY <1>13, <3>2 DEF EndSync, MoveDate, DiskType
    <3>3. QED
      BY <3>1, <3>2
  <2>3. DiskType'
    BY <1>13, <2>2 DEF EndSync, DiskType
  <2>4. QED
    BY <1>13, <2>1, <2>3 DEF EndSync
<1>14. CASE FailureStep
  <2>1. PICK kind \in {"failure", "rate"} :
          AuthFails(kind) \/ GiveUp(kind) \/ CategoriesFail(kind)
    BY <1>14 DEF FailureStep
  <2>2. CASE AuthFails(kind) \/ GiveUp(kind)
    BY <2>2, FailingType DEF AuthFails, GiveUp
  <2>3. CASE CategoriesFail(kind)
    BY <2>3, RestartType DEF CategoriesFail
  <2>4. QED
    BY <2>1, <2>2, <2>3
<1>15. QED
  BY <1>1, <1>2, <1>3, <1>4, <1>5, <1>6, <1>7, <1>8, <1>9, <1>10, <1>11, <1>12, <1>13,
     <1>14 DEF Next, Step

\* The variables have their types: no stage is started over more often than
\* --max-failure-restarts says, and no request is sent more often than
\* request.max_retries does.
THEOREM TypeCorrect == Spec => []TypeOK
  BY TypeInit, TypeNext, PTL DEF Spec

-----------------------------------------------------------------------------
(* Nothing is skipped.  A change appears at most Lag after its updatedAt, so *)
(* none that appears during a sync is older than the sync's end less the     *)
(* overlap; of what is older, everything since the date the sync asked from  *)
(* is in the store, has been fetched or is still to be listed.               *)

ClockInv == lastSync <= now /\ dateTo <= now

NothingFetchedYet == pc \in {"down", "list", "collect"} => fetched = Nothing

\* What a sync that moves the date has to see to.
Due(i) == DateFrom <= updated[i] /\ updated[i] < dateTo - Overlap

\* The sync has gone through to its end.
Complete == failed = "no" /\ ~cutShort

ListInv ==
    pc = "page" =>
        \A i \in Item : Due(i) => i \in fresh \/ fetched[i] = updated[i] \/ i \in Listed

FetchedInv ==
    pc \in {"histories", "save"} /\ Complete =>
        \A i \in Item : Due(i) => i \in fresh \/ fetched[i] = updated[i]

SavedInv == pc = "date" /\ Complete => \A i \in Item : Due(i) => i \in fresh

SkippedInv ==
    /\ ClockInv
    /\ NothingFetchedYet
    /\ ListInv
    /\ FetchedInv
    /\ SavedInv
    /\ NothingSkipped

LEMMA Numbers ==
  ASSUME TypeOK
  PROVE  /\ now \in Nat /\ dateTo \in Nat /\ lastSync \in Int /\ DateFrom \in Int
         /\ \A i \in Item : updated[i] \in Nat /\ i \in Nat /\ i >= 1 /\ i <= NumItems
         /\ Overlap \in Nat /\ Lag \in Nat /\ Lag <= Overlap /\ NumItems \in Nat
<1>1. Overlap \in Nat /\ Lag \in Nat /\ Lag <= Overlap /\ NumItems \in Nat
  BY RunAssumption
<1>2. now \in Nat /\ dateTo \in Nat /\ lastSync \in Int
  BY RunAssumption DEF TypeOK
<1>3. \A i \in Item : updated[i] \in Nat /\ i \in Nat /\ i >= 1 /\ i <= NumItems
  BY <1>1, RunAssumption DEF TypeOK, Item
<1>4. DateFrom \in Int
  BY <1>1, <1>2 DEF DateFrom
<1>5. QED
  BY <1>1, <1>2, <1>3, <1>4

\* No two items have the same position.
LEMMA PositionsDiffer ==
  ASSUME NEW n \in Nat, n = NumItems, NEW i \in 1..n, NEW j \in 1..n, i # j,
         NEW a \in Nat, NEW b \in Nat
  PROVE  Position(i, a) # Position(j, b)
<1>1. ASSUME NEW x \in Nat, NEW y \in Nat, x < y
      PROVE  x * (n + 1) + n < y * (n + 1)
  <2>1. PICK d \in Nat : y = x + 1 + d
    <3>1. y - x - 1 \in Nat /\ y = x + 1 + (y - x - 1)
      BY <1>1
    <3>2. QED
      BY <3>1
  <2>2. y * (n + 1) = x * (n + 1) + (n + 1) + d * (n + 1)
    BY <2>1
  <2>3. d * (n + 1) >= 0
    BY <2>1
  <2>4. x * (n + 1) \in Nat /\ d * (n + 1) \in Nat
    BY <2>1
  <2>5. QED
    BY <2>2, <2>3, <2>4
<1>2. a * (n + 1) \in Nat /\ b * (n + 1) \in Nat
  OBVIOUS
<1>3. CASE a < b
  BY <1>1, <1>2, <1>3 DEF Position
<1>4. CASE b < a
  BY <1>1, <1>2, <1>4 DEF Position
<1>5. CASE a = b
  BY <1>2, <1>5 DEF Position
<1>6. QED
  BY <1>3, <1>4, <1>5

LEMMA SkippedInit == Init => SkippedInv
<1> SUFFICES ASSUME Init PROVE SkippedInv
  OBVIOUS
<1>1. ClockInv /\ NothingFetchedYet /\ ListInv /\ FetchedInv /\ SavedInv
  BY DEF Init, ClockInv, NothingFetchedYet, ListInv, FetchedInv, SavedInv, Never
<1>2. NothingSkipped
  BY DEF Init, NothingSkipped, DateBehindSaves
<1>3. QED
  BY <1>1, <1>2 DEF SkippedInv

\* Requests are made, or the run goes on to what has no sync in hand.
LEMMA SkippedFrame ==
  ASSUME SkippedInv,
         UNCHANGED <<now, updated, fresh, lastSync, trusted, dateTo, fetched, failed,
                     cutShort>>,
         \/ pc' = pc
         \/ pc \in {"down", "list", "collect"} /\ pc' \in {"down", "list", "collect"}
  PROVE  SkippedInv'
<1>1. ClockInv' /\ NothingFetchedYet' /\ NothingSkipped'
  BY DEF SkippedInv, ClockInv, NothingFetchedYet, NothingSkipped, DateBehindSaves
<1>2. DateFrom' = DateFrom /\ Listed' = Listed
  BY DEF DateFrom, Listed
<1>3. ListInv' /\ FetchedInv' /\ SavedInv'
  BY <1>2 DEF SkippedInv, ListInv, FetchedInv, SavedInv, Due, Complete
<1>4. QED
  BY <1>1, <1>3 DEF SkippedInv

\* A sync is forgotten.
LEMMA SkippedForget ==
  ASSUME TypeOK, ForgetSync, pc' \in {"down", "list", "collect"},
         lastSync' <= now', NothingSkipped', now' = now
  PROVE  SkippedInv'
<1>1. ClockInv' /\ NothingFetchedYet'
  BY Numbers DEF ForgetSync, ClockInv, NothingFetchedYet
<1>2. ListInv' /\ FetchedInv' /\ SavedInv'
  BY DEF ListInv, FetchedInv, SavedInv
<1>3. QED
  BY <1>1, <1>2 DEF SkippedInv

\* Once the pages are left, another item is in the store or fetched.
LEMMA SkippedPage ==
  ASSUME TypeOK, TypeOK', SkippedInv, ReceivePage
  PROVE  SkippedInv'
<1>1. /\ pc = "page"
      /\ UNCHANGED <<now, updated, fresh, lastSync, trusted, dateTo, failed>>
  BY DEF ReceivePage, serverVars, diskVars
<1>2. ClockInv' /\ NothingSkipped' /\ DateFrom' = DateFrom /\ pc' \in {"page", "histories", "save"}
  BY <1>1 DEF SkippedInv, ClockInv, NothingSkipped, DateBehindSaves, DateFrom, ReceivePage,
              LeavePages
<1>3. \A i \in Item : Due(i)' <=> Due(i)
  BY <1>1, <1>2 DEF Due
<1>4. \A i \in Item : Due(i) => i \in fresh \/ fetched[i] = updated[i] \/ i \in Listed
  BY <1>1 DEF SkippedInv, ListInv
<1>5. CASE Listed = {} /\ LeavePages({}) /\ UNCHANGED fetched
  <2>1. \A i \in Item : Due(i)' => i \in fresh' \/ fetched'[i] = updated'[i]
    BY <1>1, <1>3, <1>4, <1>5
  <2>2. pc' # "page" /\ pc' # "date"
    BY <1>5 DEF LeavePages
  <2>3. QED
    BY <1>2, <2>1, <2>2 DEF SkippedInv, NothingFetchedYet, ListInv, FetchedInv, SavedInv
<1>6. ASSUME NEW i \in Listed,
             \A j \in Listed : Position(i, updated[i]) <= Position(j, updated[j]),
             fetched' = [fetched EXCEPT ![i] = updated[i]],
             \/ Listed # {i} /\ UNCHANGED pc
             \/ LeavePages(Listed \ {i})
      PROVE  SkippedInv'
  <2>1. i \in Item /\ fetched'[i] = updated[i]
    BY <1>6 DEF Listed, TypeOK
  <2>2. \A j \in Item \ {i} : fetched'[j] = fetched[j]
    BY <1>6 DEF TypeOK
  <2>3. ASSUME NEW j \in Listed, j # i
        PROVE  j \in Listed'
    <3>1. j \in Item /\ updated[j] \in DateFrom..dateTo
      BY DEF Listed
    <3>2. Position(j, updated[j]) > Position(i, updated[i])
      <4>1. Position(j, updated[j]) # Position(i, updated[i])
        BY <2>1, <2>3, <3>1, Numbers, PositionsDiffer DEF Item
      <4>2. Position(j, updated[j]) \in Int /\ Position(i, updated[i]) \in Int
        BY <2>1, <3>1, Numbers DEF Position
      <4>3. QED
        BY <1>6, <4>1, <4>2
    <3>3. \A k \in Item : fetched'[k] # Never =>
            Position(j, updated[j]) > Position(k, fetched'[k])
      BY <2>1, <2>2, <3>2 DEF Listed
    <3>4. QED
      BY <1>1, <1>2, <3>1, <3>3 DEF Listed
  <2>4. \A j \in Item : Due(j)' => j \in fresh' \/ fetched'[j] = updated'[j] \/ j \in Listed'
    BY <1>1, <1>3, <1>4, <2>1, <2>2, <2>3
  <2>5. CASE pc' = "page"
    BY <1>2, <2>4, <2>5 DEF SkippedInv, NothingFetchedYet, ListInv, FetchedInv, SavedInv
  <2>6. CASE pc' # "page"
    <3>1. cutShort' = (Listed \ {i} # {}) /\ pc' \in {"histories", "save"}
      BY <1>1, <1>6, <2>6 DEF LeavePages
    <3>2. Complete' => Listed = {i}
      BY <1>6, <3>1 DEF Complete
    <3>3. Complete' => \A j \in Item : Due(j)' => j \in fresh' \/ fetched'[j] = updated'[j]
      BY <1>1, <1>3, <1>4, <2>1, <2>2, <3>2
    <3>4. QED
      BY <1>2, <3>1, <3>3 DEF SkippedInv, NothingFetchedYet, ListInv, FetchedInv, SavedInv
  <2>7. QED
    BY <2>5, <2>6
<1>7. QED
  BY <1>5, <1>6 DEF ReceivePage

LEMMA SkippedChange ==
  ASSUME TypeOK, TypeOK', SkippedInv, NEW i \in Item, Change(i)
  PROVE  SkippedInv'
<1>1. /\ UNCHANGED <<now, lastSync, trusted, pc, dateTo, fetched, failed, cutShort>>
      /\ pc \in {"collect", "page"} /\ fresh' = fresh \ {i}
  BY DEF Change, Listing, syncVars
<1>2. PICK t \in (now - Lag)..now : t > updated[i] /\ updated' = [updated EXCEPT ![i] = t]
  BY DEF Change
<1>3. updated'[i] = t /\ \A j \in Item \ {i} : updated'[j] = updated[j]
  BY <1>2 DEF TypeOK
<1>4. DateFrom' = DateFrom
  BY <1>1 DEF DateFrom
<1>5. updated'[i] >= lastSync - Overlap /\ updated'[i] >= dateTo - Overlap
  <2>1. t >= now - Lag /\ t \in Int
    BY <1>2, Numbers
  <2>2. lastSync <= now /\ dateTo <= now
    BY DEF SkippedInv, ClockInv
  <2>3. QED
    BY <1>3, <2>1, <2>2, Numbers
<1>6. ClockInv' /\ NothingFetchedYet' /\ FetchedInv' /\ SavedInv'
  BY <1>1 DEF SkippedInv, ClockInv, NothingFetchedYet, FetchedInv, SavedInv
<1>7. NothingSkipped'
  <2>1. SUFFICES ASSUME trusted, lastSync # Never, NEW j \in Item,
                        updated'[j] < lastSync - Overlap
                 PROVE  j \in fresh'
    BY <1>1 DEF NothingSkipped, DateBehindSaves
  <2>2. updated'[i] \in Nat /\ lastSync - Overlap \in Int
    BY <1>1, <1>2, <1>3, Numbers
  <2>3. j # i
    BY <1>5, <2>1, <2>2
  <2>4. QED
    BY <1>1, <1>3, <2>1, <2>3 DEF SkippedInv, NothingSkipped, DateBehindSaves
<1>8. ListInv'
  <2>1. SUFFICES ASSUME pc = "page", NEW j \in Item, Due(j)'
                 PROVE  j \in fresh' \/ fetched'[j] = updated'[j] \/ j \in Listed'
    BY <1>1 DEF ListInv
  <2>2. updated'[i] \in Nat /\ dateTo - Overlap \in Int
    BY <1>1, <1>2, <1>3, Numbers
  <2>3. j # i
    BY <1>1, <1>5, <2>1, <2>2 DEF Due
  <2>4. Due(j) /\ updated'[j] = updated[j]
    BY <1>1, <1>3, <1>4, <2>1, <2>3 DEF Due
  <2>5. j \in fresh \/ fetched[j] = updated[j] \/ j \in Listed
    BY <2>1, <2>4 DEF SkippedInv, ListInv
  <2>6. j \in Listed => j \in Listed'
    BY <1>1, <1>4, <2>4 DEF Listed
  <2>7. QED
    BY <1>1, <2>3, <2>4, <2>5, <2>6
<1>9. QED
  BY <1>6, <1>7, <1>8 DEF SkippedInv

\* The date moves to the end of a sync that has saved what was due.
LEMMA SkippedEndSync ==
  ASSUME TypeOK, SkippedInv, EndSync
  PROVE  SkippedInv'
<1>1. /\ pc = "date" /\ UNCHANGED <<now, updated, fresh>>
      /\ pc' \in {"down", "list", "collect"} /\ ForgetSync
  BY DEF EndSync, EndRun, Restart, LoadCategories, serverVars
<1>2. CASE failed = "no"
  <2>1. lastSync' = dateTo /\ trusted' = (trusted /\ lastSync # Never /\ ~cutShort)
    BY <1>2 DEF EndSync, MoveDate
  <2>2. lastSync' <= now'
    BY <1>1, <2>1 DEF SkippedInv, ClockInv
  <2>3. NothingSkipped'
    <3>1. SUFFICES ASSUME trusted, lastSync # Never, ~cutShort,
                          NEW j \in Item, updated[j] < dateTo - Overlap
                   PROVE  j \in fresh
      BY <1>1, <2>1 DEF NothingSkipped, DateBehindSaves
    <3>2. DateFrom = lastSync - Overlap
      BY <3>1 DEF DateFrom
    <3>3. CASE updated[j] < lastSync - Overlap
      BY <3>1, <3>3 DEF SkippedInv, NothingSkipped, DateBehindSaves
    <3>4. CASE ~(updated[j] < lastSync - Overlap)
      <4>1. Due(j)
        BY <3>1, <3>2, <3>4, Numbers DEF Due
      <4>2. QED
        BY <1>1, <1>2, <3>1, <4>1 DEF SkippedInv, SavedInv, Complete
    <3>5. QED
      BY <3>3, <3>4
  <2>4. QED
    BY <1>1, <2>2, <2>3, SkippedForget
<1>3. CASE failed # "no"
  <2>1. UNCHANGED <<lastSync, trusted>>
    BY <1>3 DEF EndSync, MoveDate
  <2>2. NothingSkipped' /\ lastSync' <= now'
    BY <1>1, <2>1 DEF SkippedInv, ClockInv, NothingSkipped, DateBehindSaves
  <2>3. QED
    BY <1>1, <2>2, SkippedForget
<1>4. QED
  BY <1>2, <1>3

LEMMA SkippedNext == TypeOK /\ TypeOK' /\ SkippedInv /\ [Next]_vars => SkippedInv'
<1> SUFFICES ASSUME TypeOK, TypeOK', SkippedInv, [Next]_vars PROVE SkippedInv'
  OBVIOUS
<1> USE DEF serverVars, diskVars, syncVars
<1>1. CASE UNCHANGED vars
  BY <1>1, SkippedFrame DEF vars
<1>2. ASSUME UNCHANGED <<now, updated, fresh, lastSync, trusted>>,
             ForgetSync, pc' \in {"down", "list", "collect"}
      PROVE  SkippedInv'
  BY <1>2, SkippedForget DEF SkippedInv, ClockInv, NothingSkipped, DateBehindSaves
<1>3. CASE Tick
  <2>1. DateFrom' = DateFrom /\ Listed' = Listed /\ now' = now + 1
    BY <1>3 DEF Tick, DateFrom, Listed
  <2>2. ClockInv'
    BY <1>3, <2>1, Numbers DEF Tick, SkippedInv, ClockInv
  <2>3. QED
    BY <1>3, <2>1, <2>2
    DEF Tick, SkippedInv, NothingFetchedYet, ListInv, FetchedInv, SavedInv, Due, Complete,
        NothingSkipped, DateBehindSaves
<1>4. ASSUME NEW i \in Item, Change(i) PROVE SkippedInv'
  BY <1>4, SkippedChange
<1>5. CASE StartRun
  BY <1>5, SkippedFrame DEF StartRun, LoadCategories
<1>6. CASE Crash
  BY <1>2, <1>6 DEF Crash, EndRun
<1>7. CASE Send \/ TryAgain \/ Unauthorized \/ AskMinimal
  BY <1>7, SkippedFrame DEF Send, TryAgain, Unauthorized, AskMinimal
<1>8. CASE ReceiveCategories
  BY <1>8, SkippedFrame DEF ReceiveCategories
<1>9. CASE CollectItem
  <2>1. /\ pc = "collect" /\ fresh \subseteq fresh'
        /\ UNCHANGED <<now, updated, lastSync, trusted, pc, dateTo, fetched>>
    BY <1>9 DEF CollectItem
  <2>2. ClockInv' /\ NothingFetchedYet' /\ NothingSkipped'
    BY <2>1 DEF SkippedInv, ClockInv, NothingFetchedYet, NothingSkipped, DateBehindSaves
  <2>3. ListInv' /\ FetchedInv' /\ SavedInv'
    BY <2>1 DEF ListInv, FetchedInv, SavedInv
  <2>4. QED
    BY <2>2, <2>3 DEF SkippedInv
<1>10. CASE CategoriesEndWell
  <2>1. /\ pc' = "page" /\ dateTo' = now /\ fetched = Nothing /\ fetched' = fetched
        /\ UNCHANGED <<now, updated, fresh, lastSync, trusted>>
    BY <1>10 DEF CategoriesEndWell, BeginSync, SkippedInv, NothingFetchedYet
  <2>2. ClockInv' /\ NothingSkipped'
    BY <2>1, Numbers DEF SkippedInv, ClockInv, NothingSkipped, DateBehindSaves
  <2>3. ListInv'
    <3>1. SUFFICES ASSUME NEW i \in Item, Due(i)' PROVE i \in Listed'
      BY DEF ListInv
    <3>2. updated'[i] \in Nat /\ DateFrom' \in Int /\ dateTo' \in Nat /\ Overlap \in Nat
      <4>1. dateTo' \in Nat /\ updated'[i] \in Nat /\ Overlap \in Nat /\ lastSync' \in Int
        BY <2>1, Numbers
      <4>2. QED
        BY <4>1 DEF DateFrom
    <3>3. updated'[i] \in DateFrom'..dateTo'
      BY <3>1, <3>2 DEF Due
    <3>4. \A j \in Item : fetched'[j] = Never
      BY <2>1 DEF Nothing
    <3>5. QED
      BY <3>3, <3>4 DEF Listed
  <2>4. NothingFetchedYet' /\ FetchedInv' /\ SavedInv'
    BY <2>1 DEF NothingFetchedYet, FetchedInv, SavedInv
  <2>5. QED
    BY <2>2, <2>3, <2>4 DEF SkippedInv
<1>11. CASE ReceivePage
  BY <1>11, SkippedPage
<1>12. CASE ReceiveHistories
  <2>1. /\ pc = "histories" /\ pc' \in {"histories", "save"}
        /\ UNCHANGED <<now, updated, fresh, lastSync, trusted, dateTo, fetched, failed,
                       cutShort>>
    BY <1>12 DEF ReceiveHistories
  <2>2. DateFrom' = DateFrom
    BY <2>1 DEF DateFrom
  <2>3. QED
    BY <2>1, <2>2
    DEF SkippedInv, ClockInv, NothingFetchedYet, ListInv, FetchedInv, SavedInv, Due,
        Complete, NothingSkipped, DateBehindSaves
<1>13. CASE SaveSync
  <2>1. /\ pc = "save" /\ pc' = "date"
        /\ fresh' = fresh \cup {i \in Item : fetched[i] = updated[i]}
        /\ UNCHANGED <<now, updated, lastSync, trusted, dateTo, fetched, failed, cutShort>>
    BY <1>13 DEF SaveSync
  <2>2. DateFrom' = DateFrom
    BY <2>1 DEF DateFrom
  <2>3. SavedInv'
    BY <2>1, <2>2 DEF SkippedInv, FetchedInv, SavedInv, Due, Complete
  <2>4. ClockInv' /\ NothingSkipped'
    BY <2>1 DEF SkippedInv, ClockInv, NothingSkipped, DateBehindSaves
  <2>5. NothingFetchedYet' /\ ListInv' /\ FetchedInv'
    BY <2>1 DEF NothingFetchedYet, ListInv, FetchedInv
  <2>6. QED
    BY <2>3, <2>4, <2>5 DEF SkippedInv
<1>14. CASE EndSync
  BY <1>14, SkippedEndSync
\* A sync that has failed moves no date.
<1>15. ASSUME NEW kind \in {"failure", "rate"}, Failing(kind) PROVE SkippedInv'
  <2>1. CASE pc = "list"
    BY <1>2, <1>15, <2>1 DEF Failing, EndRun
  <2>2. CASE pc # "list"
    <3>1. /\ pc' = "save" /\ failed' # "no"
          /\ UNCHANGED <<now, updated, fresh, lastSync, trusted, dateTo>>
      BY <1>15, <2>2 DEF Failing
    <3>2. QED
      BY <3>1
      DEF SkippedInv, ClockInv, NothingFetchedYet, ListInv, FetchedInv, SavedInv, Complete,
          NothingSkipped, DateBehindSaves
  <2>3. QED
    BY <2>1, <2>2
<1>16. ASSUME NEW kind \in {"failure", "rate"}, CategoriesFail(kind) PROVE SkippedInv'
  <2>1. CASE Restart("category", kind) /\ UNCHANGED syncVars
    BY <1>16, <2>1, SkippedFrame DEF CategoriesFail, Restart, LoadCategories
  <2>2. CASE EndRun
    BY <1>2, <1>16, <2>2 DEF CategoriesFail, EndRun
  <2>3. QED
    BY <1>16, <2>1, <2>2 DEF CategoriesFail
<1>17. CASE FailureStep
  BY <1>15, <1>16, <1>17 DEF FailureStep, AuthFails, GiveUp
<1>18. QED
  BY <1>1, <1>3, <1>4, <1>5, <1>6, <1>7, <1>8, <1>9, <1>10, <1>11, <1>12, <1>13, <1>14,
     <1>17 DEF Next, Step

\* What the next sync will not ask for is in the store in its latest version, as
\* long as syncs began with a date and went to the end of their list.
THEOREM SyncsSkipNothing == Spec => []NothingSkipped
<1>1. TypeOK /\ TypeOK' /\ SkippedInv /\ [Next]_vars => SkippedInv'
  BY SkippedNext
<1>2. SkippedInv => NothingSkipped
  BY DEF SkippedInv
<1>3. QED
  BY <1>1, <1>2, SkippedInit, TypeCorrect, PTL DEF Spec
=============================================================================
