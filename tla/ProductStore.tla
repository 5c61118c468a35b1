----------------------------- MODULE ProductStore -----------------------------
(***************************************************************************)
(* The products and product_history tables and the transactions that write *)
(* them (_save_products_with_raw_samples and what it calls): a saver reads *)
(* what is known of a batch's products, decides which of them have         *)
(* changed, upserts the products one by one and inserts the history rows.  *)
(*                                                                         *)
(* PostgreSQL runs the transactions at READ COMMITTED: the read sees what  *)
(* is committed, an upsert waits for the transaction that holds its row,   *)
(* and a deadlock makes one of its transactions fail.  A history row is    *)
(* inserted while its product's row is locked, so for one product the      *)
(* order of ids is the order of commits.                                   *)
(***************************************************************************)
EXTENDS Integers, Sequences, FiniteSets

CONSTANTS
    Saver,          \* savers at work at once: threads, or collectors
    Product,
    Reports,        \* product -> what the API may report of it: the leaves of
                    \* prices, inventory, shipping and status, each with a value
    Volatile,       \* leaves under a key of VOLATILE_KEYS
    Supply,         \* saver -> the products it meets
    MaxBatches,     \* bound: batches saved by all savers together
    MaxRuns,        \* bound: runs begun after the first ones
    MaxFaults       \* bound: failed statements and broken connections

ASSUME StoreAssumption ==
    /\ DOMAIN Reports = Product
    /\ Supply \in [Saver -> SUBSET Product]
    /\ MaxBatches \in Nat /\ MaxRuns \in Nat /\ MaxFaults \in Nat

Attempts == 2  \* _save_product_batch_with_retry

Time == 0..MaxRuns

Batches(s) ==
    {b \in UNION {[1..n -> Supply[s]] : n \in 1..Cardinality(Supply[s])} :
        \A i, j \in DOMAIN b : b[i] = b[j] => i = j}

NotSeen == [firstSeen |-> 0, lastCollected |-> -1]

NoState == [nothing |-> TRUE]  \* nothing saved yet

\* canonicalize: what changes from one answer to the next without being a
\* change is left out.
Canonicalize(report) == [leaf \in DOMAIN report \ Volatile |-> report[leaf]]

\* changed_leaf_paths: a leaf that only one of them has is MISSING in the other.
ChangedLeaves(before, after) ==
    {leaf \in DOMAIN before \cup DOMAIN after :
        \/ leaf \notin DOMAIN before \cap DOMAIN after
        \/ before[leaf] # after[leaf]}

AnyReport == UNION {Reports[p] : p \in Product}

States(p) == {Canonicalize(report) : report \in Reports[p]}

ASSUME ReportAssumption == \A p \in Product : NoState \notin Reports[p] \cup States(p)

VARIABLES
    products,   \* product -> its row; NotSeen: no row
    history,    \* product -> its product_history rows, by id
    saved,      \* product -> the state saved for it last, canonicalized (history)
    contended,  \* products whose saves overlapped: two savers had them in
                \* hand at once, or an older run came after a newer one
                \* (history)
    runAt,      \* saver -> collected_at of its run
    pc,
    batch,      \* saver -> the rows' products, in the order of the upserts
    observed,   \* saver -> product -> what the API has reported
    plans,      \* saver -> history_plans: product -> change_type
    upserted,   \* saver -> rows upserted so far
    attempt,    \* saver -> attempt of _save_product_batch_with_retry
    batches,    \* batches begun
    faults      \* faults so far

tables == <<products, history, saved, contended>>
work == <<batch, observed, plans, upserted, attempt>>
vars == <<tables, runAt, pc, work, batches, faults>>

Rows(s) == {batch[s][i] : i \in DOMAIN batch[s]}

\* The rows a transaction has locked, until it ends.
Locked(s) == {batch[s][i] : i \in 1..upserted[s]}

NextRow(s) == batch[s][upserted[s] + 1]

WaitsFor(s, t) ==
    /\ pc[s] = "upsert" /\ upserted[s] < Len(batch[s])
    /\ t # s /\ NextRow(s) \in Locked(t)

\* Earlier collections have left some products, each in the state it was
\* first seen in.
Init ==
    /\ \E known \in [Product -> AnyReport \cup {NoState}] :
        /\ \A p \in Product : known[p] \in Reports[p] \cup {NoState}
        /\ saved = [p \in Product |->
                IF known[p] = NoState THEN NoState ELSE Canonicalize(known[p])]
        /\ history = [p \in Product |->
                IF known[p] = NoState THEN <<>>
                ELSE <<[observedAt |-> 0, type |-> "initial", state |-> known[p]]>>]
    /\ products = [p \in Product |->
            IF saved[p] = NoState THEN NotSeen ELSE [firstSeen |-> 0, lastCollected |-> 0]]
    /\ contended = {}
    /\ runAt = [s \in Saver |-> 0]
    /\ pc = [s \in Saver |-> "idle"]
    /\ batch = [s \in Saver |-> <<>>]
    /\ observed = [s \in Saver |-> <<>>]
    /\ plans = [s \in Saver |-> <<>>]
    /\ upserted = [s \in Saver |-> 0]
    /\ attempt = [s \in Saver |-> 1]
    /\ batches = 0
    /\ faults = 0

GoTo(s, location) == pc' = [pc EXCEPT ![s] = location]

\* A collector begins a new run.  A run taken up again keeps the runCollectedAt
\* of its state file.
NewRun(s) ==
    /\ pc[s] = "idle"
    /\ \E now \in Time :
        /\ \A r \in Saver : runAt[r] < now
        /\ runAt' = [runAt EXCEPT ![s] = now]
    /\ UNCHANGED <<tables, pc, work, batches, faults>>

\* A batch of distinct products (_dedupe_product_rows) comes in.
Begin(s) ==
    /\ pc[s] = "idle"
    /\ batches < MaxBatches
    /\ batches' = batches + 1
    /\ \E b \in Batches(s) :
        /\ batch' = [batch EXCEPT ![s] = b]
        /\ contended' = contended \cup
                {p \in Product : \E t \in Saver \ {s} : p \in Rows(s)' \cap Rows(t)}
        /\ \E reports \in [Rows(s)' -> UNION {Reports[p] : p \in Rows(s)'}] :
             /\ \A p \in Rows(s)' : reports[p] \in Reports[p]
             /\ observed' = [observed EXCEPT ![s] = reports]
    /\ GoTo(s, "read")
    /\ UNCHANGED <<products, history, saved, runAt, plans, upserted, attempt,
                   faults>>

\* ORDER BY observed_at DESC, id DESC LIMIT 1.
LatestRow(rows) ==
    rows[CHOOSE i \in DOMAIN rows : \A j \in DOMAIN rows :
            \/ rows[j].observedAt < rows[i].observedAt
            \/ rows[j].observedAt = rows[i].observedAt /\ j <= i]

HasChanged(p, report) ==
    ChangedLeaves(Canonicalize(LatestRow(history[p]).state), Canonicalize(report)) # {}

\* Mutant: only what changes is recorded, not what is new.
ChangeOfKnown(p, report) ==
    IF products[p] # NotSeen /\ HasChanged(p, report) THEN "update" ELSE "none"

\* Mutant: only what is new is recorded.
ChangeOfNew(p, report) == IF products[p] = NotSeen THEN "initial" ELSE "none"

\* Mutant: reports are compared as they come.
ChangeOfReport(p, report) ==
    IF products[p] = NotSeen \/ history[p] = <<>> THEN "initial"
    ELSE IF ChangedLeaves(LatestRow(history[p]).state, report) # {} THEN "update"
    ELSE "none"

\* _history_insert_plans for one row: its change_type, if it has changed.
Change(p, report) ==
    IF products[p] = NotSeen \/ history[p] = <<>> THEN "initial"
    ELSE IF HasChanged(p, report) THEN "update"
    ELSE "none"

\* _existing_product_states and _history_insert_plans.
Read(s) ==
    /\ pc[s] = "read"
    /\ plans' = [plans EXCEPT ![s] = [p \in Rows(s) |-> Change(p, observed[s][p])]]
    /\ GoTo(s, "upsert")
    /\ UNCHANGED <<tables, runAt, batch, observed, upserted, attempt, batches, faults>>

\* _bulk_upsert_products, one row.
Upsert(s) ==
    /\ pc[s] = "upsert"
    /\ upserted[s] < Len(batch[s])
    /\ \A t \in Saver : ~WaitsFor(s, t)
    /\ upserted' = [upserted EXCEPT ![s] = @ + 1]
    /\ UNCHANGED <<tables, runAt, pc, batch, observed, plans, attempt, batches, faults>>

\* The row of a product after its upsert: first_seen_at is kept.
UpsertedRow(s, p) ==
    IF products[p] = NotSeen
      THEN [firstSeen |-> runAt[s], lastCollected |-> runAt[s]]
      ELSE [products[p] EXCEPT !.lastCollected = runAt[s]]

\* _bulk_insert_history: a row for each plan.
InsertHistory(s) ==
    history' = [p \in Product |->
            IF p \notin Rows(s) \/ plans[s][p] = "none" THEN history[p]
            ELSE Append(history[p], [observedAt |-> runAt[s], type |-> plans[s][p],
                                     state |-> observed[s][p]])]

\* What the transaction leaves in the tables.
Write(s) ==
    /\ products' = [p \in Product |->
            IF p \in Rows(s) THEN UpsertedRow(s, p) ELSE products[p]]
    /\ InsertHistory(s)
    /\ saved' = [p \in Product |->
            IF p \in Rows(s) THEN Canonicalize(observed[s][p]) ELSE saved[p]]
    /\ contended' = contended \cup
            {p \in Rows(s) : products[p].lastCollected > runAt[s]}

\* The batch is done with, saved or given up.
EndBatch(s) ==
    /\ GoTo(s, "idle")
    /\ batch' = [batch EXCEPT ![s] = <<>>]
    /\ observed' = [observed EXCEPT ![s] = <<>>]
    /\ plans' = [plans EXCEPT ![s] = <<>>]
    /\ upserted' = [upserted EXCEPT ![s] = 0]
    /\ attempt' = [attempt EXCEPT ![s] = 1]

AllUpserted(s) == pc[s] = "upsert" /\ upserted[s] = Len(batch[s])

Commit(s) ==
    /\ AllUpserted(s)
    /\ Write(s)
    /\ EndBatch(s)
    /\ UNCHANGED <<runAt, batches, faults>>

\* Mutant: attempts without end.
RetryUncounted(s) ==
    /\ upserted' = [upserted EXCEPT ![s] = 0]
    /\ plans' = [plans EXCEPT ![s] = <<>>]
    /\ GoTo(s, "read")
    /\ UNCHANGED <<batch, observed, attempt>>

\* The except block: rollback, and another attempt, or the batch is given up
\* and logged.
Retry(s) ==
    IF attempt[s] < Attempts
      THEN /\ attempt' = [attempt EXCEPT ![s] = @ + 1]
           /\ upserted' = [upserted EXCEPT ![s] = 0]
           /\ plans' = [plans EXCEPT ![s] = <<>>]
           /\ GoTo(s, "read")
           /\ UNCHANGED <<batch, observed>>
      ELSE EndBatch(s)

\* PostgreSQL's deadlock detector cancels a transaction of a circle of waiting
\* ones.
DeadlockVictim(s) ==
    /\ \E circle \in SUBSET Saver :
        /\ s \in circle
        /\ \A t \in circle : \E u \in circle : WaitsFor(t, u)
    /\ Retry(s)
    /\ UNCHANGED <<tables, runAt, batches, faults>>

Fault ==
    /\ faults < MaxFaults
    /\ faults' = faults + 1

StatementFails(s) ==
    /\ pc[s] # "idle"
    /\ Fault
    /\ Retry(s)
    /\ UNCHANGED <<tables, runAt, batches>>

\* The transaction is committed but the connection breaks before the answer:
\* rollback raises as well, so there is no second attempt.
CommitUnconfirmed(s) ==
    /\ AllUpserted(s)
    /\ Fault
    /\ Write(s)
    /\ EndBatch(s)
    /\ UNCHANGED <<runAt, batches>>

\* The saver is killed or its connection breaks; PostgreSQL rolls back.
Disconnect(s) ==
    /\ pc[s] # "idle"
    /\ Fault
    /\ EndBatch(s)
    /\ UNCHANGED <<tables, runAt, batches>>

\* Everything has been saved.
Rest ==
    /\ \A s \in Saver : pc[s] = "idle"
    /\ batches = MaxBatches
    /\ UNCHANGED vars

Step(s) == Read(s) \/ Upsert(s) \/ Commit(s) \/ DeadlockVictim(s)

Next ==
    \/ Rest
    \/ \E s \in Saver :
        \/ NewRun(s)
        \/ Begin(s)
        \/ Step(s)
        \/ StatementFails(s)
        \/ CommitUnconfirmed(s)
        \/ Disconnect(s)

Spec == Init /\ [][Next]_vars

\* Savers run and PostgreSQL answers.
Fairness == \A s \in Saver : WF_vars(Step(s))

FairSpec == Spec /\ Fairness

-----------------------------------------------------------------------------
(* Properties. *)

HistoryRow == [observedAt : Time, type : {"initial", "update"}, state : AnyReport]

TypeOK ==
    /\ products \in [Product -> [firstSeen : Time, lastCollected : Time] \cup {NotSeen}]
    /\ history \in [Product -> Seq(HistoryRow)]
    /\ \A p \in Product : \A i \in DOMAIN history[p] : history[p][i].state \in Reports[p]
    /\ saved = [p \in Product |-> saved[p]]
    /\ \A p \in Product : saved[p] \in States(p) \cup {NoState}
    /\ contended \in SUBSET Product
    /\ runAt \in [Saver -> Time]
    /\ pc \in [Saver -> {"idle", "read", "upsert"}]
    /\ batch = [s \in Saver |-> batch[s]]
    /\ observed = [s \in Saver |-> observed[s]]
    /\ plans = [s \in Saver |-> plans[s]]
    /\ upserted \in [Saver -> Nat]
    /\ attempt \in [Saver -> 1..Attempts]
    /\ \A s \in Saver :
        /\ IF pc[s] = "idle" THEN batch[s] = <<>> ELSE batch[s] \in Batches(s)
        /\ \A p \in Rows(s) : observed[s][p] \in Reports[p]
        /\ pc[s] = "upsert" => plans[s] \in [Rows(s) -> {"none", "initial", "update"}]
        /\ upserted[s] <= Len(batch[s])
    /\ batches \in 0..MaxBatches
    /\ faults \in 0..MaxFaults

\* A product and its history are stored together: whatever fails and is tried
\* again, a product has a history, which begins with the time the product was
\* first seen.
HistoryWithProduct ==
    \A p \in Product :
        IF products[p] = NotSeen THEN history[p] = <<>>
        ELSE /\ history[p] # <<>>
             /\ history[p][1].observedAt = products[p].firstSeen

\* A history row is stored only when something has changed: the first one is
\* the initial one, and no two that follow each other differ in volatile leaves
\* only.  Savers that have a product in hand at once can break it: nothing is
\* locked between the read and the upsert.
ChangesOnly ==
    \A p \in Product \ contended : \A i \in DOMAIN history[p] :
        /\ history[p][i].type = "initial" <=> i = 1
        /\ i > 1 => Canonicalize(history[p][i].state)
                        # Canonicalize(history[p][i - 1].state)

\* What the next save compares with is what was saved last, unless saves of the
\* product overlapped.
LatestIsSaved ==
    \A p \in Product \ contended : saved[p] # NoState =>
        Canonicalize(LatestRow(history[p]).state) = saved[p]

\* Every batch comes to an end, savers that wait for each other included.
BatchEnds == \A s \in Saver : pc[s] # "idle" ~> pc[s] = "idle"
=============================================================================
