--------------------------- MODULE ProductStoreProofs ---------------------------
(* Proofs about ProductStore, for every number of savers, products, runs,    *)
(* batches and faults, whatever the API reports.                             *)
EXTENDS ProductStore, TLAPS

-----------------------------------------------------------------------------
(* Operators. *)

\* Where the rows were observed in the order of their ids, the row that ORDER
\* BY observed_at DESC, id DESC finds is the last one.
LEMMA LatestIsLast ==
  ASSUME NEW rows \in Seq(HistoryRow), rows # <<>>,
         \A i, j \in DOMAIN rows : i <= j => rows[i].observedAt <= rows[j].observedAt
  PROVE  LatestRow(rows) = rows[Len(rows)]
<1> DEFINE Latest(i) == \A j \in DOMAIN rows :
                            \/ rows[j].observedAt < rows[i].observedAt
                            \/ rows[j].observedAt = rows[i].observedAt /\ j <= i
<1>1. /\ Len(rows) \in DOMAIN rows
      /\ \A i \in DOMAIN rows : i \in Nat /\ i <= Len(rows)
      /\ \A i \in DOMAIN rows : rows[i].observedAt \in Nat
  <2>1. /\ DOMAIN rows = 1..Len(rows) /\ Len(rows) \in Nat /\ Len(rows) # 0
        /\ \A i \in DOMAIN rows : rows[i] \in HistoryRow
    OBVIOUS
  <2>2. \A row \in HistoryRow : row.observedAt \in Nat
    BY StoreAssumption DEF HistoryRow, Time
  <2>3. QED
    BY <2>1, <2>2
<1>2. Latest(Len(rows))
  BY <1>1
<1>3. \A i \in DOMAIN rows : Latest(i) => i = Len(rows)
  BY <1>1
<1>4. (CHOOSE i \in DOMAIN rows : Latest(i)) = Len(rows)
  BY <1>1, <1>2, <1>3
<1>5. QED
  BY <1>4 DEF LatestRow

\* changed_leaf_paths finds nothing exactly where nothing differs.
LEMMA NothingChanged ==
  ASSUME NEW before, NEW after,
         before = [leaf \in DOMAIN before |-> before[leaf]],
         after = [leaf \in DOMAIN after |-> after[leaf]]
  PROVE  ChangedLeaves(before, after) = {} <=> before = after
<1>1. ASSUME ChangedLeaves(before, after) = {}
      PROVE  before = after
  <2>1. DOMAIN before = DOMAIN after
    BY <1>1 DEF ChangedLeaves
  <2>2. \A leaf \in DOMAIN before : before[leaf] = after[leaf]
    BY <1>1, <2>1 DEF ChangedLeaves
  <2>3. QED
    BY <2>1, <2>2
<1>2. ASSUME before = after
      PROVE  ChangedLeaves(before, after) = {}
  BY <1>2 DEF ChangedLeaves
<1>3. QED
  BY <1>1, <1>2

LEMMA CanonicalForm ==
  ASSUME NEW report
  PROVE  Canonicalize(report) =
           [leaf \in DOMAIN Canonicalize(report) |-> Canonicalize(report)[leaf]]
  BY DEF Canonicalize

-----------------------------------------------------------------------------
(* Type correctness. *)

LEMMA TypeInit == Init => TypeOK
<1> SUFFICES ASSUME Init PROVE TypeOK
  OBVIOUS
<1>1. PICK known \in [Product -> AnyReport \cup {NoState}] :
        /\ \A p \in Product : known[p] \in Reports[p] \cup {NoState}
        /\ saved = [p \in Product |->
                IF known[p] = NoState THEN NoState ELSE Canonicalize(known[p])]
        /\ history = [p \in Product |->
                IF known[p] = NoState THEN <<>>
                ELSE <<[observedAt |-> 0, type |-> "initial", state |-> known[p]]>>]
  BY DEF Init
<1>2. 0 \in Time
  BY StoreAssumption DEF Time
<1>3. products \in [Product -> [firstSeen : Time, lastCollected : Time] \cup {NotSeen}]
  BY <1>2 DEF Init
<1>4. /\ history \in [Product -> Seq(HistoryRow)]
      /\ \A p \in Product : \A i \in DOMAIN history[p] : history[p][i].state \in Reports[p]
  <2>1. ASSUME NEW p \in Product
        PROVE  /\ history[p] \in Seq(HistoryRow)
               /\ \A i \in DOMAIN history[p] : history[p][i].state \in Reports[p]
    <3>1. CASE known[p] = NoState
      BY <1>1, <3>1
    <3>2. CASE known[p] # NoState
      <4>1. known[p] \in Reports[p] /\ known[p] \in AnyReport
        BY <1>1, <3>2 DEF AnyReport
      <4>2. [observedAt |-> 0, type |-> "initial", state |-> known[p]] \in HistoryRow
        BY <1>2, <4>1 DEF HistoryRow
      <4>3. history[p] = <<[observedAt |-> 0, type |-> "initial", state |-> known[p]]>>
        BY <1>1, <3>2
      <4>4. QED
        BY <4>1, <4>2, <4>3
    <3>3. QED
      BY <3>1, <3>2
  <2>2. history = [p \in Product |-> history[p]]
    BY <1>1
  <2>3. QED
    BY <2>1, <2>2
<1>5. /\ saved = [p \in Product |-> saved[p]]
      /\ \A p \in Product : saved[p] \in States(p) \cup {NoState}
  BY <1>1 DEF States
<1>6. /\ runAt \in [Saver -> Time] /\ contended \in SUBSET Product
      /\ pc \in [Saver -> {"idle", "read", "upsert"}]
      /\ batch = [s \in Saver |-> batch[s]]
      /\ observed = [s \in Saver |-> observed[s]]
      /\ plans = [s \in Saver |-> plans[s]]
      /\ upserted \in [Saver -> Nat]
      /\ attempt \in [Saver -> 1..Attempts]
      /\ batches \in 0..MaxBatches /\ faults \in 0..MaxFaults
  BY <1>2, StoreAssumption DEF Init, Attempts
<1>7. \A s \in Saver : /\ pc[s] = "idle" /\ batch[s] = <<>> /\ Rows(s) = {}
                        /\ upserted[s] <= Len(batch[s])
  BY DEF Init, Rows
<1>8. QED
  BY <1>3, <1>4, <1>5, <1>6, <1>7 DEF TypeOK

\* A batch is a sequence of the products its saver meets.
LEMMA BatchType ==
  ASSUME NEW s \in Saver, NEW b \in Batches(s)
  PROVE  /\ b \in Seq(Product) /\ b # <<>>
         /\ \A i \in DOMAIN b : b[i] \in Product
<1>1. PICK n \in 1..Cardinality(Supply[s]) : b \in [1..n -> Supply[s]]
  BY DEF Batches
<1>2. Supply[s] \subseteq Product
  BY StoreAssumption
<1>3. n \in Nat /\ n > 0
  BY <1>1
<1>4. b \in [1..n -> Product] /\ b \in Seq(Product) /\ 1 \in DOMAIN b
  BY <1>1, <1>2, <1>3
<1>5. QED
  BY <1>4

LEMMA RowsType ==
  ASSUME TypeOK, NEW s \in Saver
  PROVE  Rows(s) \subseteq Product /\ (pc[s] = "idle" => Rows(s) = {})
<1>1. CASE pc[s] = "idle"
  <2>1. batch[s] = <<>>
    BY <1>1 DEF TypeOK
  <2>2. QED
    BY <2>1 DEF Rows
<1>2. CASE pc[s] # "idle"
  <2>1. batch[s] \in Batches(s)
    BY <1>2 DEF TypeOK
  <2>2. \A i \in DOMAIN batch[s] : batch[s][i] \in Product
    BY <2>1, BatchType
  <2>3. QED
    BY <1>2, <2>2 DEF Rows
<1>3. QED
  BY <1>1, <1>2

LEMMA ChangeType ==
  ASSUME NEW p, NEW report
  PROVE  Change(p, report) \in {"none", "initial", "update"}
  BY DEF Change

\* What is to be shown of a saver's own variables after a step of it.
OwnType(s) ==
    /\ IF pc[s] = "idle" THEN batch[s] = <<>> ELSE batch[s] \in Batches(s)
    /\ \A p \in Rows(s) : observed[s][p] \in Reports[p]
    /\ pc[s] = "upsert" => plans[s] \in [Rows(s) -> {"none", "initial", "update"}]
    /\ upserted[s] <= Len(batch[s])

Others(s) == \A t \in Saver \ {s} :
    /\ pc'[t] = pc[t] /\ batch'[t] = batch[t] /\ observed'[t] = observed[t]
    /\ plans'[t] = plans[t] /\ upserted'[t] = upserted[t]

\* A saver's step concerns no other saver's work.
LEMMA WorkType ==
  ASSUME TypeOK, NEW s \in Saver, Others(s), OwnType(s)'
  PROVE  \A t \in Saver : OwnType(t)'
<1>1. SUFFICES ASSUME NEW t \in Saver \ {s} PROVE OwnType(t)'
  OBVIOUS
<1>2. OwnType(t)
  BY DEF TypeOK, OwnType
<1>3. Rows(t)' = Rows(t)
  BY DEF Others, Rows
<1>4. QED
  BY <1>2, <1>3 DEF Others, OwnType

LEMMA IdleType ==
  ASSUME TypeOK, NEW s \in Saver, EndBatch(s)
  PROVE  /\ pc' \in [Saver -> {"idle", "read", "upsert"}]
         /\ batch' = [t \in Saver |-> batch'[t]]
         /\ observed' = [t \in Saver |-> observed'[t]]
         /\ plans' = [t \in Saver |-> plans'[t]]
         /\ upserted' \in [Saver -> Nat]
         /\ attempt' \in [Saver -> 1..Attempts]
         /\ Others(s) /\ OwnType(s)' /\ Rows(s)' = {}
<1>1. /\ pc'[s] = "idle" /\ batch'[s] = <<>> /\ upserted'[s] = 0
      /\ Others(s)
  BY DEF TypeOK, EndBatch, GoTo, Others
<1>2. Rows(s)' = {}
  BY <1>1 DEF Rows
<1>3. OwnType(s)'
  BY <1>1, <1>2 DEF OwnType
<1>4. /\ batch' = [t \in Saver |-> batch'[t]]
      /\ observed' = [t \in Saver |-> observed'[t]]
      /\ plans' = [t \in Saver |-> plans'[t]]
  BY DEF TypeOK, EndBatch
<1>5. /\ pc' \in [Saver -> {"idle", "read", "upsert"}]
      /\ upserted' \in [Saver -> Nat]
      /\ attempt' \in [Saver -> 1..Attempts]
  BY DEF TypeOK, EndBatch, GoTo, Attempts
<1>6. QED
  BY <1>1, <1>2, <1>3, <1>4, <1>5

LEMMA RetryType ==
  ASSUME TypeOK, NEW s \in Saver, Retry(s), pc[s] # "idle"
  PROVE  /\ pc' \in [Saver -> {"idle", "read", "upsert"}]
         /\ batch' = [t \in Saver |-> batch'[t]]
         /\ observed' = [t \in Saver |-> observed'[t]]
         /\ plans' = [t \in Saver |-> plans'[t]]
         /\ upserted' \in [Saver -> Nat]
         /\ attempt' \in [Saver -> 1..Attempts]
         /\ Others(s) /\ OwnType(s)'
         /\ pc'[s] # "upsert" /\ Rows(s)' \subseteq Rows(s)
<1>1. CASE attempt[s] < Attempts
  <2>1. /\ pc'[s] = "read" /\ upserted'[s] = 0 /\ Others(s)
        /\ batch' = batch /\ observed' = observed
    BY <1>1 DEF TypeOK, Retry, GoTo, Others
  <2>2. Rows(s)' = Rows(s)
    BY <2>1 DEF Rows
  <2>3. batch[s] \in Batches(s) /\ Len(batch[s]) \in Nat
    BY BatchType DEF TypeOK
  <2>4. \A p \in Rows(s) : observed[s][p] \in Reports[p]
    BY DEF TypeOK
  <2>5. OwnType(s)'
    BY <2>1, <2>2, <2>3, <2>4 DEF OwnType
  <2>6. /\ pc' \in [Saver -> {"idle", "read", "upsert"}]
        /\ upserted' \in [Saver -> Nat]
        /\ attempt' \in [Saver -> 1..Attempts]
    <3>1. /\ pc \in [Saver -> {"idle", "read", "upsert"}]
          /\ upserted \in [Saver -> Nat]
          /\ attempt \in [Saver -> 1..2]
      BY DEF TypeOK, Attempts
    <3>2. /\ attempt[s] < 2 /\ attempt' = [attempt EXCEPT ![s] = attempt[s] + 1]
          /\ upserted' = [upserted EXCEPT ![s] = 0]
          /\ pc' = [pc EXCEPT ![s] = "read"]
      BY <1>1 DEF Retry, GoTo, Attempts
    <3>3. QED
      BY <3>1, <3>2 DEF Attempts
  <2>7. plans' = [t \in Saver |-> plans'[t]]
    BY <1>1 DEF TypeOK, Retry
  <2>8. /\ batch' = [t \in Saver |-> batch'[t]]
        /\ observed' = [t \in Saver |-> observed'[t]]
    BY <2>1 DEF TypeOK
  <2>9. Others(s) /\ pc'[s] # "upsert" /\ Rows(s)' \subseteq Rows(s)
    BY <2>1, <2>2
  <2>10. QED
    BY <2>5, <2>6, <2>7, <2>8, <2>9, Zenon
<1>2. CASE ~(attempt[s] < Attempts)
  <2>1. EndBatch(s)
    BY <1>2 DEF Retry
  <2>2. pc'[s] # "upsert"
    BY <2>1 DEF EndBatch, GoTo, TypeOK
  <2>3. Rows(s)' = {} => Rows(s)' \subseteq Rows(s)
    OBVIOUS
  <2>4. QED
    BY <2>1, <2>2, <2>3, IdleType, Zenon
<1>3. QED
  BY <1>1, <1>2

\* What the tables hold after a commit.
LEMMA WriteType ==
  ASSUME TypeOK, NEW s \in Saver, pc[s] = "upsert", Write(s)
  PROVE  /\ products' \in [Product -> [firstSeen : Time, lastCollected : Time]
                                        \cup {NotSeen}]
         /\ history' \in [Product -> Seq(HistoryRow)]
         /\ \A p \in Product : \A i \in DOMAIN history'[p] :
                history'[p][i].state \in Reports[p]
         /\ saved' = [p \in Product |-> saved'[p]]
         /\ \A p \in Product : saved'[p] \in States(p) \cup {NoState}
         /\ contended' \in SUBSET Product
<1>1. /\ Rows(s) \subseteq Product
      /\ \A p \in Rows(s) : observed[s][p] \in Reports[p]
      /\ plans[s] \in [Rows(s) -> {"none", "initial", "update"}]
      /\ runAt[s] \in Time
  BY RowsType DEF TypeOK
<1>2. products' \in [Product -> [firstSeen : Time, lastCollected : Time] \cup {NotSeen}]
  <2>1. \A p \in Product : products[p] \in [firstSeen : Time, lastCollected : Time]
                                            \cup {NotSeen}
    BY DEF TypeOK
  <2>2. \A p \in Product : UpsertedRow(s, p) \in [firstSeen : Time, lastCollected : Time]
    BY <1>1, <2>1 DEF UpsertedRow
  <2>3. QED
    BY <2>1, <2>2 DEF Write
<1>3. ASSUME NEW p \in Product
      PROVE  /\ history'[p] \in Seq(HistoryRow)
             /\ \A i \in DOMAIN history'[p] : history'[p][i].state \in Reports[p]
  <2> DEFINE row == [observedAt |-> runAt[s], type |-> plans[s][p], state |-> observed[s][p]]
  <2>1. /\ history[p] \in Seq(HistoryRow)
        /\ \A i \in DOMAIN history[p] : history[p][i].state \in Reports[p]
    BY DEF TypeOK
  <2>2. CASE p \notin Rows(s) \/ plans[s][p] = "none"
    BY <2>1, <2>2 DEF Write, InsertHistory
  <2>3. CASE ~(p \notin Rows(s) \/ plans[s][p] = "none")
    <3>1. row \in HistoryRow /\ row.state \in Reports[p]
      BY <1>1, <2>3 DEF HistoryRow, AnyReport
    <3>2. history'[p] = Append(history[p], row)
      BY <2>3 DEF Write, InsertHistory
    <3> HIDE DEF row
    <3>3. QED
      BY <2>1, <3>1, <3>2
  <2>4. QED
    BY <2>2, <2>3
<1>4. history' \in [Product -> Seq(HistoryRow)]
  BY <1>3 DEF Write, InsertHistory
<1>5. /\ saved' = [p \in Product |-> saved'[p]]
      /\ \A p \in Product : saved'[p] \in States(p) \cup {NoState}
  <2>1. \A p \in Product : saved[p] \in States(p) \cup {NoState}
    BY DEF TypeOK
  <2>2. QED
    BY <1>1, <2>1 DEF Write, States
<1>6. contended' \in SUBSET Product
  BY <1>1 DEF Write, TypeOK
<1>7. QED
  BY <1>2, <1>3, <1>4, <1>5, <1>6

LEMMA BeginType ==
  ASSUME TypeOK, NEW s \in Saver, Begin(s)
  PROVE  /\ pc[s] = "idle" /\ pc'[s] = "read"
         /\ batch'[s] \in Batches(s) /\ Rows(s)' \subseteq Product
         /\ Others(s) /\ OwnType(s)'
         /\ batch' = [t \in Saver |-> batch'[t]]
         /\ observed' = [t \in Saver |-> observed'[t]]
         /\ contended \subseteq contended' /\ contended' \subseteq Product
         /\ \A t \in Saver \ {s} : Rows(s)' \cap Rows(t) \subseteq contended'
<1>1. PICK b \in Batches(s) :
        /\ batch' = [batch EXCEPT ![s] = b]
        /\ contended' = contended \cup
                {p \in Product : \E t \in Saver \ {s} : p \in Rows(s)' \cap Rows(t)}
        /\ \E reports \in [Rows(s)' -> UNION {Reports[p] : p \in Rows(s)'}] :
             /\ \A p \in Rows(s)' : reports[p] \in Reports[p]
             /\ observed' = [observed EXCEPT ![s] = reports]
  BY DEF Begin
<1>2. /\ pc[s] = "idle" /\ pc'[s] = "read" /\ upserted[s] <= Len(batch[s])
      /\ UNCHANGED <<plans, upserted>>
      /\ batch[s] = <<>> /\ batch'[s] = b
  BY <1>1 DEF TypeOK, Begin, GoTo
<1>3. upserted'[s] = 0
  BY <1>2 DEF TypeOK
<1>4. /\ \A p \in Rows(s)' : observed'[s][p] \in Reports[p]
      /\ observed' = [t \in Saver |-> observed'[t]]
      /\ \A t \in Saver \ {s} : observed'[t] = observed[t]
  BY <1>1 DEF TypeOK
<1>5. /\ batch' = [t \in Saver |-> batch'[t]]
      /\ \A t \in Saver \ {s} : batch'[t] = batch[t] /\ pc'[t] = pc[t]
  BY <1>1 DEF TypeOK, Begin, GoTo
<1>6. Others(s)
  BY <1>2, <1>4, <1>5 DEF Others
<1>7. Len(b) \in Nat /\ \A i \in DOMAIN b : b[i] \in Product
  BY BatchType
<1>8. Rows(s)' \subseteq Product
  BY <1>2, <1>7 DEF Rows
<1>9. OwnType(s)'
  BY <1>2, <1>3, <1>4, <1>7 DEF OwnType
<1>10. /\ contended \subseteq contended' /\ contended' \subseteq Product
       /\ \A t \in Saver \ {s} : Rows(s)' \cap Rows(t) \subseteq contended'
  BY <1>1, <1>8 DEF TypeOK
<1>11. QED
  BY <1>2, <1>4, <1>5, <1>6, <1>8, <1>9, <1>10

LEMMA TypeNext == TypeOK /\ [Next]_vars => TypeOK'
<1> SUFFICES ASSUME TypeOK, [Next]_vars PROVE TypeOK'
  OBVIOUS
<1>1. CASE UNCHANGED vars
  <2>1. /\ UNCHANGED <<products, history, saved, contended, runAt, pc, batch, observed>>
        /\ UNCHANGED <<plans, upserted, attempt, batches, faults>>
    BY <1>1 DEF vars, tables, work
  <2>2. \A s \in Saver : Rows(s)' = Rows(s)
    BY <2>1 DEF Rows
  <2>3. QED
    BY <2>1, <2>2 DEF TypeOK
<1>2. ASSUME NEW s \in Saver, Others(s), OwnType(s)',
             UNCHANGED <<tables, runAt>>,
             pc' \in [Saver -> {"idle", "read", "upsert"}],
             batch' = [t \in Saver |-> batch'[t]],
             observed' = [t \in Saver |-> observed'[t]],
             plans' = [t \in Saver |-> plans'[t]],
             upserted' \in [Saver -> Nat],
             attempt' \in [Saver -> 1..Attempts],
             batches' \in 0..MaxBatches, faults' \in 0..MaxFaults
      PROVE  TypeOK'
  <2>1. \A t \in Saver : OwnType(t)'
    BY <1>2, WorkType
  <2>2. QED
    BY <1>2, <2>1 DEF TypeOK, OwnType, tables
<1>3. ASSUME NEW s \in Saver, NewRun(s) PROVE TypeOK'
  <2>1. runAt' \in [Saver -> Time]
    BY <1>3 DEF NewRun, TypeOK
  <2>2. \A t \in Saver : Rows(t)' = Rows(t)
    BY <1>3 DEF NewRun, work, Rows
  <2>3. QED
    BY <1>3, <2>1, <2>2 DEF NewRun, TypeOK, tables, work
<1>4. ASSUME NEW s \in Saver, Begin(s) PROVE TypeOK'
  <2>1. \A t \in Saver : OwnType(t)'
    BY <1>4, BeginType, WorkType
  <2>2. batches' \in 0..MaxBatches
    BY <1>4, StoreAssumption DEF Begin, TypeOK
  <2>3. /\ pc' \in [Saver -> {"idle", "read", "upsert"}] /\ contended' \in SUBSET Product
        /\ batch' = [t \in Saver |-> batch'[t]]
        /\ observed' = [t \in Saver |-> observed'[t]]
    BY <1>4, BeginType DEF Begin, GoTo, TypeOK
  <2>4. QED
    BY <1>4, <2>1, <2>2, <2>3 DEF Begin, TypeOK, OwnType
<1>5. ASSUME NEW s \in Saver, Read(s) PROVE TypeOK'
  <2>1. /\ pc[s] = "read" /\ pc'[s] = "upsert" /\ UNCHANGED <<batch, observed, upserted>>
        /\ plans'[s] = [p \in Rows(s) |-> Change(p, observed[s][p])]
        /\ plans' = [t \in Saver |-> plans'[t]]
        /\ Others(s)
    BY <1>5 DEF Read, GoTo, TypeOK, Others
  <2>2. Rows(s)' = Rows(s)
    BY <2>1 DEF Rows
  <2>3. plans'[s] \in [Rows(s) -> {"none", "initial", "update"}]
    BY <2>1, ChangeType
  <2>4. OwnType(s)
    BY DEF TypeOK, OwnType
  <2>5. OwnType(s)'
    BY <2>1, <2>2, <2>3, <2>4 DEF OwnType
  <2>6. /\ pc' \in [Saver -> {"idle", "read", "upsert"}]
        /\ upserted' \in [Saver -> Nat] /\ attempt' \in [Saver -> 1..Attempts]
        /\ batches' \in 0..MaxBatches /\ faults' \in 0..MaxFaults
    BY <1>5 DEF Read, GoTo, TypeOK
  <2>7. batch' = [t \in Saver |-> batch'[t]] /\ observed' = [t \in Saver |-> observed'[t]]
    BY <2>1 DEF TypeOK
  <2>8. UNCHANGED <<tables, runAt>>
    BY <1>5 DEF Read
  <2>9. QED
    BY <1>2, <2>1, <2>5, <2>6, <2>7, <2>8
<1>6. ASSUME NEW s \in Saver, Upsert(s) PROVE TypeOK'
  <2>1. /\ pc[s] = "upsert" /\ UNCHANGED <<pc, batch, observed, plans>>
        /\ upserted'[s] = upserted[s] + 1 /\ upserted[s] < Len(batch[s])
        /\ upserted' \in [Saver -> Nat]
        /\ Others(s)
    BY <1>6 DEF Upsert, TypeOK, Others
  <2>2. Rows(s)' = Rows(s)
    BY <2>1 DEF Rows
  <2>3. OwnType(s) /\ upserted[s] \in Nat
    BY DEF TypeOK, OwnType
  <2>4. Len(batch[s]) \in Nat
    BY <2>1, BatchType DEF TypeOK
  <2>5. OwnType(s)'
    BY <2>1, <2>2, <2>3, <2>4 DEF OwnType
  <2>6. UNCHANGED <<tables, runAt, batches, faults, attempt>>
    BY <1>6 DEF Upsert
  <2>7. QED
    BY <1>2, <2>1, <2>5, <2>6 DEF TypeOK, Attempts
<1>7. ASSUME NEW s \in Saver, pc[s] = "upsert", Write(s), EndBatch(s),
             UNCHANGED <<runAt, batches>>, faults' \in 0..MaxFaults
      PROVE  TypeOK'
  <2>1. \A t \in Saver : OwnType(t)'
    BY <1>7, IdleType, WorkType
  <2>2. QED
    BY <1>7, <2>1, IdleType, WriteType DEF TypeOK, OwnType
<1>8. ASSUME Fault PROVE faults' \in 0..MaxFaults
  BY <1>8, StoreAssumption DEF Fault, TypeOK
<1>9. ASSUME NEW s \in Saver, Commit(s) \/ CommitUnconfirmed(s) PROVE TypeOK'
  BY <1>7, <1>8, <1>9 DEF Commit, CommitUnconfirmed, AllUpserted, TypeOK
<1>10. ASSUME NEW s \in Saver, Disconnect(s) PROVE TypeOK'
  BY <1>2, <1>8, <1>10, IdleType DEF Disconnect, TypeOK
<1>11. ASSUME NEW s \in Saver, pc[s] # "idle", Retry(s),
              UNCHANGED <<tables, runAt, batches>>, faults' \in 0..MaxFaults
       PROVE  TypeOK'
  BY <1>2, <1>11, RetryType DEF TypeOK
<1>12. ASSUME NEW s \in Saver, DeadlockVictim(s) \/ StatementFails(s) PROVE TypeOK'
  <2>1. pc[s] # "idle"
    BY <1>12 DEF DeadlockVictim, StatementFails, WaitsFor
  <2>2. QED
    BY <1>8, <1>11, <1>12, <2>1 DEF DeadlockVictim, StatementFails, TypeOK
<1>13. QED
  BY <1>1, <1>3, <1>4, <1>5, <1>6, <1>9, <1>10, <1>12 DEF Next, Step, Rest

\* The tables and every saver's work keep their types: a plan has an entry for
\* each row of its batch and nothing else.
THEOREM TypeCorrect == Spec => []TypeOK
  BY TypeInit, TypeNext, PTL DEF Spec

-----------------------------------------------------------------------------
(* What the tables hold.  A plan made before another saver's commit can be   *)
(* out of date, but never so that a new product gets no history; where no    *)
(* saves overlap it is what would be planned now.                            *)

PlannedIfNew ==
    \A s \in Saver : pc[s] = "upsert" =>
        \A p \in Rows(s) : plans[s][p] = "none" => products[p] # NotSeen

Overlaps == \A s, t \in Saver : s # t => Rows(s) \cap Rows(t) \subseteq contended

\* Change, of the product's row and its history rows.
ChangeOf(row, rows, report) ==
    IF row = NotSeen \/ rows = <<>> THEN "initial"
    ELSE IF ChangedLeaves(Canonicalize(LatestRow(rows).state), Canonicalize(report)) # {}
    THEN "update" ELSE "none"

PlanCurrent(s, p) == plans[s][p] = ChangeOf(products[p], history[p], observed[s][p])

PlansCurrent ==
    \A s \in Saver : pc[s] = "upsert" => \A p \in Rows(s) \ contended : PlanCurrent(s, p)

\* The order of ids is the order of observation.
InOrder(p) ==
    /\ \A i, j \in DOMAIN history[p] :
            i <= j => history[p][i].observedAt <= history[p][j].observedAt
    /\ \A i \in DOMAIN history[p] : history[p][i].observedAt <= products[p].lastCollected

HistoryInOrder == \A p \in Product \ contended : InOrder(p)

StoreInv ==
    /\ HistoryWithProduct
    /\ PlannedIfNew
    /\ Overlaps
    /\ PlansCurrent
    /\ HistoryInOrder
    /\ ChangesOnly
    /\ LatestIsSaved

\* A single row is the latest.
LEMMA OnlyRow ==
  ASSUME NEW row
  PROVE  LatestRow(<<row>>) = row
<1>1. DOMAIN <<row>> = {1} /\ <<row>>[1] = row
  OBVIOUS
<1>2. (CHOOSE i \in DOMAIN <<row>> : \A j \in DOMAIN <<row>> :
            \/ <<row>>[j].observedAt < <<row>>[i].observedAt
            \/ <<row>>[j].observedAt = <<row>>[i].observedAt /\ j <= i) = 1
  BY <1>1
<1>3. QED
  BY <1>1, <1>2 DEF LatestRow

LEMMA StoreInit == Init => StoreInv
<1> SUFFICES ASSUME Init PROVE StoreInv
  OBVIOUS
<1>1. \A s \in Saver : pc[s] = "idle" /\ Rows(s) = {}
  BY DEF Init, Rows
<1>2. PlannedIfNew /\ Overlaps /\ PlansCurrent
  BY <1>1 DEF PlannedIfNew, Overlaps, PlansCurrent
<1>3. ASSUME NEW p \in Product
      PROVE  \/ /\ saved[p] = NoState /\ history[p] = <<>> /\ products[p] = NotSeen
             \/ \E report \in Reports[p] :
                  /\ saved[p] = Canonicalize(report) /\ saved[p] # NoState
                  /\ history[p] = <<[observedAt |-> 0, type |-> "initial",
                                     state |-> report]>>
                  /\ products[p] = [firstSeen |-> 0, lastCollected |-> 0]
  <2>1. PICK known \in [Product -> AnyReport \cup {NoState}] :
          /\ \A q \in Product : known[q] \in Reports[q] \cup {NoState}
          /\ saved = [q \in Product |->
                  IF known[q] = NoState THEN NoState ELSE Canonicalize(known[q])]
          /\ history = [q \in Product |->
                  IF known[q] = NoState THEN <<>>
                  ELSE <<[observedAt |-> 0, type |-> "initial", state |-> known[q]]>>]
    BY DEF Init
  <2>2. products[p] = IF saved[p] = NoState THEN NotSeen
                      ELSE [firstSeen |-> 0, lastCollected |-> 0]
    BY DEF Init
  <2>3. \A report \in Reports[p] : Canonicalize(report) # NoState
    BY ReportAssumption DEF States
  <2>4. QED
    BY <2>1, <2>2, <2>3
<1>4. ASSUME NEW p \in Product
      PROVE  /\ IF products[p] = NotSeen THEN history[p] = <<>>
                ELSE /\ history[p] # <<>>
                     /\ history[p][1].observedAt = products[p].firstSeen
             /\ InOrder(p)
             /\ \A i \in DOMAIN history[p] : i = 1 /\ history[p][i].type = "initial"
             /\ saved[p] # NoState => Canonicalize(LatestRow(history[p]).state) = saved[p]
  <2>1. CASE saved[p] = NoState /\ history[p] = <<>> /\ products[p] = NotSeen
    BY <2>1 DEF InOrder
  <2>2. ASSUME NEW report \in Reports[p],
               saved[p] = Canonicalize(report), saved[p] # NoState,
               history[p] = <<[observedAt |-> 0, type |-> "initial", state |-> report]>>,
               products[p] = [firstSeen |-> 0, lastCollected |-> 0]
        PROVE  <1>4!2
    <3>1. LatestRow(history[p]) = [observedAt |-> 0, type |-> "initial", state |-> report]
      BY <2>2, OnlyRow
    <3>2. products[p] # NotSeen
      BY <2>2 DEF NotSeen
    <3>3. /\ history[p] # <<>> /\ DOMAIN history[p] = {1}
          /\ history[p][1] = [observedAt |-> 0, type |-> "initial", state |-> report]
      BY <2>2
    <3>4. QED
      BY <2>2, <3>1, <3>2, <3>3 DEF InOrder
  <2>3. QED
    BY <1>3, <2>1, <2>2
<1>5. HistoryWithProduct /\ HistoryInOrder /\ LatestIsSaved
  BY <1>4 DEF HistoryWithProduct, HistoryInOrder, LatestIsSaved
<1>6. ChangesOnly
  BY <1>4 DEF ChangesOnly
<1>7. QED
  BY <1>2, <1>5, <1>6 DEF StoreInv

\* Before the commit a saver disturbs nothing, whatever it plans anew.
LEMMA StoreUnwritten ==
  ASSUME TypeOK, StoreInv, UNCHANGED <<products, history, saved>>,
         contended \subseteq contended', Overlaps',
         \A s \in Saver : pc'[s] = "upsert" =>
            \/ /\ pc[s] = "upsert" /\ plans'[s] = plans[s] /\ Rows(s)' = Rows(s)
               /\ observed'[s] = observed[s]
            \/ plans'[s] = [p \in Rows(s)' |-> Change(p, observed'[s][p])]
  PROVE  StoreInv'
<1>1. \A p, report : Change(p, report) = "none" => products[p] # NotSeen
  BY DEF Change
<1>2. ASSUME NEW s \in Saver, pc'[s] = "upsert", NEW p \in Rows(s)'
      PROVE  /\ plans'[s][p] = "none" => products'[p] # NotSeen
             /\ p \notin contended' => PlanCurrent(s, p)'
  <2>1. CASE /\ pc[s] = "upsert" /\ plans'[s] = plans[s] /\ Rows(s)' = Rows(s)
             /\ observed'[s] = observed[s]
    BY <1>2, <2>1 DEF StoreInv, PlannedIfNew, PlansCurrent, PlanCurrent
  <2>2. CASE plans'[s] = [q \in Rows(s)' |-> Change(q, observed'[s][q])]
    <3>1. plans'[s][p] = Change(p, observed'[s][p])
      BY <1>2, <2>2
    <3>2. plans'[s][p] = ChangeOf(products[p], history[p], observed'[s][p])
      BY <3>1 DEF Change, HasChanged, ChangeOf
    <3>3. PlanCurrent(s, p)'
      BY <3>2 DEF PlanCurrent
    <3>4. QED
      BY <1>1, <3>1, <3>3
  <2>3. QED
    BY <1>2, <2>1, <2>2
<1>3. PlannedIfNew' /\ PlansCurrent'
  <2>1. PlannedIfNew'
    BY <1>2 DEF PlannedIfNew
  <2>2. PlansCurrent'
    BY <1>2 DEF PlansCurrent
  <2>3. QED
    BY <2>1, <2>2
<1>4. HistoryWithProduct' /\ HistoryInOrder' /\ ChangesOnly' /\ LatestIsSaved'
  <2>1. HistoryWithProduct'
    BY DEF StoreInv, HistoryWithProduct
  <2>2. HistoryInOrder'
    BY DEF StoreInv, HistoryInOrder, InOrder
  <2>3. ChangesOnly'
    BY DEF StoreInv, ChangesOnly
  <2>4. LatestIsSaved'
    BY DEF StoreInv, LatestIsSaved
  <2>5. QED
    BY <2>1, <2>2, <2>3, <2>4
<1>5. QED
  BY <1>3, <1>4 DEF StoreInv

LEMMA StoreWritten ==
  ASSUME TypeOK, TypeOK', StoreInv, NEW s \in Saver, pc[s] = "upsert",
         Write(s), EndBatch(s)
  PROVE  StoreInv'
<1>1. /\ Rows(s)' = {} /\ pc'[s] = "idle" /\ Others(s)
      /\ \A t \in Saver \ {s} : Rows(t)' = Rows(t)
  <2>1. Rows(s)' = {} /\ Others(s)
    BY IdleType
  <2>2. pc'[s] = "idle"
    BY DEF EndBatch, GoTo, TypeOK
  <2>3. \A t \in Saver \ {s} : Rows(t)' = Rows(t)
    BY <2>1 DEF Others, Rows
  <2>4. QED
    BY <2>1, <2>2, <2>3
<1>2. /\ contended \subseteq contended' /\ Rows(s) \subseteq Product
      /\ plans[s] \in [Rows(s) -> {"none", "initial", "update"}]
      /\ runAt[s] \in Nat
  <2>1. contended \subseteq contended'
    BY DEF Write
  <2>2. Rows(s) \subseteq Product
    BY RowsType
  <2>3. plans[s] \in [Rows(s) -> {"none", "initial", "update"}]
    BY DEF TypeOK
  <2>4. runAt[s] \in Nat
    BY StoreAssumption DEF TypeOK, Time
  <2>5. QED
    BY <2>1, <2>2, <2>3, <2>4
\* A product that is not in the batch.
<1>3. ASSUME NEW p \in Product, p \notin Rows(s)
      PROVE  products'[p] = products[p] /\ history'[p] = history[p] /\ saved'[p] = saved[p]
  BY <1>3 DEF Write, InsertHistory
\* A product that is.
<1>4. ASSUME NEW p \in Rows(s)
      PROVE  /\ p \in Product
             /\ products'[p] = UpsertedRow(s, p)
             /\ products'[p] # NotSeen /\ products'[p].lastCollected = runAt[s]
             /\ products'[p].firstSeen =
                  IF products[p] = NotSeen THEN runAt[s] ELSE products[p].firstSeen
             /\ saved'[p] = Canonicalize(observed[s][p])
             /\ \/ plans[s][p] = "none" /\ history'[p] = history[p]
                \/ /\ plans[s][p] # "none"
                   /\ history'[p] =
                        Append(history[p], [observedAt |-> runAt[s], type |-> plans[s][p],
                                            state |-> observed[s][p]])
  <2>1. p \in Product
    BY <1>2
  <2>2. products'[p] = UpsertedRow(s, p)
    BY <2>1 DEF Write
  <2>3. products[p] = NotSeen \/ products[p] \in [firstSeen : Time, lastCollected : Time]
    BY <2>1 DEF TypeOK
  <2>4. products'[p].lastCollected = runAt[s] /\ products'[p].firstSeen =
                  IF products[p] = NotSeen THEN runAt[s] ELSE products[p].firstSeen
    BY <2>2, <2>3 DEF UpsertedRow
  <2>5. products'[p] # NotSeen
    BY <1>2, <2>4 DEF NotSeen
  <2>6. QED
    BY <2>1, <2>2, <2>4, <2>5 DEF Write, InsertHistory
<1>5. \A p \in Product : history[p] \in Seq(HistoryRow) /\ history'[p] \in Seq(HistoryRow)
  BY DEF TypeOK
<1>6. HistoryWithProduct'
  <2>1. SUFFICES ASSUME NEW p \in Product
                 PROVE  IF products'[p] = NotSeen THEN history'[p] = <<>>
                        ELSE /\ history'[p] # <<>>
                             /\ history'[p][1].observedAt = products'[p].firstSeen
    BY DEF HistoryWithProduct
  <2>2. IF products[p] = NotSeen THEN history[p] = <<>>
        ELSE /\ history[p] # <<>>
             /\ history[p][1].observedAt = products[p].firstSeen
    BY DEF StoreInv, HistoryWithProduct
  <2>3. CASE p \notin Rows(s)
    BY <1>3, <2>2, <2>3
  <2>4. CASE p \in Rows(s)
    <3>1. CASE plans[s][p] = "none"
      <4>1. products[p] # NotSeen
        BY <2>4, <3>1 DEF StoreInv, PlannedIfNew
      <4>2. QED
        BY <1>4, <2>2, <2>4, <3>1, <4>1
    <3>2. CASE plans[s][p] # "none"
      <4> DEFINE row == [observedAt |-> runAt[s], type |-> plans[s][p],
                         state |-> observed[s][p]]
      <4>1. history'[p] = Append(history[p], row) /\ row.observedAt = runAt[s]
        BY <1>4, <2>4, <3>2
      <4> HIDE DEF row
      <4>2. /\ history'[p] # <<>>
            /\ history'[p][1] = IF history[p] = <<>> THEN row ELSE history[p][1]
        BY <1>5, <4>1
      <4>3. QED
        BY <1>4, <2>2, <2>4, <4>1, <4>2
    <3>3. QED
      BY <3>1, <3>2
  <2>5. QED
    BY <2>3, <2>4
<1>7. PlannedIfNew'
  <2>1. SUFFICES ASSUME NEW t \in Saver, pc'[t] = "upsert", NEW p \in Rows(t)',
                        plans'[t][p] = "none"
                 PROVE  products'[p] # NotSeen
    BY DEF PlannedIfNew
  <2>2. /\ t # s /\ pc[t] = "upsert" /\ plans[t][p] = "none" /\ p \in Rows(t)
        /\ p \in Product
    BY <1>1, <2>1, RowsType DEF Others
  <2>3. products[p] # NotSeen
    BY <2>2 DEF StoreInv, PlannedIfNew
  <2>4. QED
    BY <1>3, <1>4, <2>2, <2>3
<1>8. Overlaps'
  BY <1>1, <1>2 DEF StoreInv, Overlaps
<1>9. PlansCurrent'
  <2>1. SUFFICES ASSUME NEW t \in Saver, pc'[t] = "upsert",
                        NEW p \in Rows(t)', p \notin contended'
                 PROVE  PlanCurrent(t, p)'
    BY DEF PlansCurrent
  <2>2. /\ t # s /\ pc[t] = "upsert" /\ p \in Rows(t) /\ p \notin contended
        /\ plans'[t] = plans[t] /\ observed'[t] = observed[t] /\ p \in Product
    BY <1>1, <1>2, <2>1, RowsType DEF Others
  <2>3. p \notin Rows(s)
    BY <2>2 DEF StoreInv, Overlaps
  <2>4. PlanCurrent(t, p)
    BY <2>2 DEF StoreInv, PlansCurrent
  <2>5. QED
    BY <1>3, <2>2, <2>3, <2>4 DEF PlanCurrent
\* A product of the batch that no other save has come across.
<1>10. ASSUME NEW p \in Rows(s), p \notin contended'
       PROVE  /\ InOrder(p) /\ p \in Product \ contended
              /\ PlanCurrent(s, p)
              /\ products[p].lastCollected <= runAt[s]
  <2>1. p \in Product \ contended
    BY <1>2, <1>10
  <2>2. InOrder(p) /\ PlanCurrent(s, p)
    BY <2>1 DEF StoreInv, HistoryInOrder, PlansCurrent
  <2>3. ~(products[p].lastCollected > runAt[s])
    BY <1>10 DEF Write
  <2>4. products[p].lastCollected \in Int
    <3>1. products[p] \in [firstSeen : Time, lastCollected : Time] \cup {NotSeen}
      BY <2>1 DEF TypeOK
    <3>2. QED
      BY <3>1, StoreAssumption DEF Time, NotSeen
  <2>5. QED
    BY <1>2, <2>1, <2>2, <2>3, <2>4
<1>11. HistoryInOrder'
  <2>1. SUFFICES ASSUME NEW p \in Product, p \notin contended' PROVE InOrder(p)'
    BY DEF HistoryInOrder
  <2>2. CASE p \notin Rows(s)
    <3>1. InOrder(p)
      BY <1>2, <2>1 DEF StoreInv, HistoryInOrder
    <3>2. QED
      BY <1>3, <2>2, <3>1 DEF InOrder
  <2>3. CASE p \in Rows(s)
    <3>1. /\ InOrder(p) /\ products[p].lastCollected <= runAt[s]
          /\ products'[p].lastCollected = runAt[s]
      BY <1>4, <1>10, <2>1, <2>3
    <3>2. products[p].lastCollected \in Int
      <4>1. products[p] \in [firstSeen : Time, lastCollected : Time] \cup {NotSeen}
        BY DEF TypeOK
      <4>2. QED
        BY <4>1, StoreAssumption DEF Time, NotSeen
    <3>3. \A i \in DOMAIN history[p] : history[p][i].observedAt \in Int
      <4>1. \A i \in DOMAIN history[p] : history[p][i] \in HistoryRow
        BY <1>5
      <4>2. \A row \in HistoryRow : row.observedAt \in Int
        BY StoreAssumption DEF HistoryRow, Time
      <4>3. QED
        BY <4>1, <4>2
    <3>4. \A i \in DOMAIN history[p] : history[p][i].observedAt <= runAt[s]
      BY <1>2, <3>1, <3>2, <3>3 DEF InOrder
    <3>5. CASE plans[s][p] = "none"
      <4>1. history'[p] = history[p]
        BY <1>4, <2>3, <3>5
      <4>2. QED
        BY <3>1, <3>4, <4>1 DEF InOrder
    <3>6. CASE plans[s][p] # "none"
      <4> DEFINE row == [observedAt |-> runAt[s], type |-> plans[s][p],
                         state |-> observed[s][p]]
                 n == Len(history[p])
      <4>1. history'[p] = Append(history[p], row) /\ row.observedAt = runAt[s]
        BY <1>4, <2>3, <3>6
      <4> HIDE DEF row
      <4>2. /\ DOMAIN history'[p] = 1..(n + 1) /\ DOMAIN history[p] = 1..n /\ n \in Nat
            /\ history'[p][n + 1] = row
            /\ \A i \in 1..n : history'[p][i] = history[p][i]
        BY <1>5, <4>1
      <4> HIDE DEF n
      <4>3. \A i \in DOMAIN history'[p] : history'[p][i].observedAt <= runAt[s]
        BY <1>2, <3>4, <4>1, <4>2
      <4>4. ASSUME NEW i \in DOMAIN history'[p], NEW j \in DOMAIN history'[p], i <= j
            PROVE  history'[p][i].observedAt <= history'[p][j].observedAt
        <5>1. CASE j = n + 1
          BY <4>1, <4>2, <4>3, <5>1
        <5>2. CASE j # n + 1
          <6>1. i \in 1..n /\ j \in 1..n
            BY <4>2, <4>4, <5>2
          <6>2. QED
            BY <3>1, <4>2, <4>4, <6>1 DEF InOrder
        <5>3. QED
          BY <5>1, <5>2
      <4>5. QED
        BY <3>1, <4>3, <4>4 DEF InOrder
    <3>7. QED
      BY <3>5, <3>6
  <2>4. QED
    BY <2>2, <2>3
\* What the plan said of it, in terms of what its history ends with.
<1>12. ASSUME NEW p \in Rows(s), p \notin contended'
       PROVE  /\ plans[s][p] = "initial" <=> history[p] = <<>>
              /\ history[p] # <<>> =>
                   (plans[s][p] = "none" <=>
                      Canonicalize(history[p][Len(history[p])].state) =
                        Canonicalize(observed[s][p]))
  <2>1. /\ InOrder(p) /\ p \in Product
        /\ PlanCurrent(s, p)
    BY <1>10, <1>12
  <2>2. products[p] = NotSeen => history[p] = <<>>
    BY <2>1 DEF StoreInv, HistoryWithProduct
  <2>3. history[p] # <<>> => LatestRow(history[p]) = history[p][Len(history[p])]
    BY <1>5, <2>1, LatestIsLast DEF InOrder
  <2>4. history[p] # <<>> =>
          (ChangedLeaves(Canonicalize(LatestRow(history[p]).state),
                         Canonicalize(observed[s][p])) = {} <=>
             Canonicalize(history[p][Len(history[p])].state) = Canonicalize(observed[s][p]))
    BY <2>3, NothingChanged, CanonicalForm
  <2>5. QED
    BY <2>1, <2>2, <2>4 DEF PlanCurrent, ChangeOf
<1>13. ChangesOnly'
  <2>1. SUFFICES ASSUME NEW p \in Product, p \notin contended',
                        NEW i \in DOMAIN history'[p]
                 PROVE  /\ history'[p][i].type = "initial" <=> i = 1
                        /\ i > 1 => Canonicalize(history'[p][i].state)
                                      # Canonicalize(history'[p][i - 1].state)
    BY DEF ChangesOnly
  <2>2. \A k \in DOMAIN history[p] :
          /\ history[p][k].type = "initial" <=> k = 1
          /\ k > 1 => Canonicalize(history[p][k].state)
                        # Canonicalize(history[p][k - 1].state)
    BY <1>2, <2>1 DEF StoreInv, ChangesOnly
  <2>3. CASE history'[p] = history[p]
    BY <2>1, <2>2, <2>3
  <2>4. CASE history'[p] # history[p]
    <3> DEFINE row == [observedAt |-> runAt[s], type |-> plans[s][p],
                       state |-> observed[s][p]]
               n == Len(history[p])
    <3>1. /\ p \in Rows(s) /\ plans[s][p] # "none"
          /\ history'[p] = Append(history[p], row)
          /\ row.type = plans[s][p] /\ row.state = observed[s][p]
      BY <1>3, <1>4, <2>4
    <3> HIDE DEF row
    <3>2. /\ DOMAIN history'[p] = 1..(n + 1) /\ DOMAIN history[p] = 1..n /\ n \in Nat
          /\ history'[p][n + 1] = row
          /\ \A k \in 1..n : history'[p][k] = history[p][k]
          /\ history[p] = <<>> <=> n = 0
      BY <1>5, <3>1
    <3>3. /\ plans[s][p] = "initial" <=> n = 0
          /\ n # 0 => Canonicalize(history[p][n].state) # Canonicalize(observed[s][p])
      BY <1>12, <2>1, <3>1, <3>2
    <3> HIDE DEF n
    <3>4. CASE i = n + 1
      <4>1. history'[p][i].type = "initial" <=> i = 1
        BY <3>1, <3>2, <3>3, <3>4
      <4>2. ASSUME i > 1
            PROVE  Canonicalize(history'[p][i].state) # Canonicalize(history'[p][i - 1].state)
        <5>1. n \in 1..n /\ i - 1 = n /\ n # 0
          BY <3>2, <3>4, <4>2
        <5>2. history'[p][i - 1] = history[p][n] /\ history'[p][i].state = observed[s][p]
          BY <3>1, <3>2, <3>4, <5>1
        <5>3. QED
          BY <3>3, <5>1, <5>2
      <4>3. QED
        BY <4>1, <4>2
    <3>5. CASE i # n + 1
      <4>1. i \in 1..n /\ (i > 1 => i - 1 \in 1..n)
        BY <2>1, <3>2, <3>5
      <4>2. QED
        BY <2>2, <3>2, <4>1
    <3>6. QED
      BY <3>4, <3>5
  <2>5. QED
    BY <2>3, <2>4
<1>14. LatestIsSaved'
  <2>1. SUFFICES ASSUME NEW p \in Product, p \notin contended', saved'[p] # NoState
                 PROVE  Canonicalize(LatestRow(history'[p]).state) = saved'[p]
    BY DEF LatestIsSaved
  <2>2. CASE p \notin Rows(s)
    <3>1. p \in Product \ contended /\ history'[p] = history[p] /\ saved'[p] = saved[p]
      BY <1>2, <1>3, <2>1, <2>2
    <3>2. QED
      BY <2>1, <3>1 DEF StoreInv, LatestIsSaved
  <2>3. CASE p \in Rows(s)
    <3>1. /\ history'[p] # <<>> /\ saved'[p] = Canonicalize(observed[s][p])
      BY <1>4, <1>6, <2>3 DEF HistoryWithProduct
    <3>2. InOrder(p)'
      BY <1>11, <2>1 DEF HistoryInOrder
    <3>3. LatestRow(history'[p]) = history'[p][Len(history'[p])]
      BY <1>5, <3>1, <3>2, LatestIsLast DEF InOrder
    <3>4. CASE plans[s][p] = "none"
      <4>1. history'[p] = history[p]
        BY <1>4, <2>3, <3>4
      <4>2. QED
        BY <1>12, <2>1, <2>3, <3>1, <3>3, <3>4, <4>1
    <3>5. CASE plans[s][p] # "none"
      <4> DEFINE row == [observedAt |-> runAt[s], type |-> plans[s][p],
                         state |-> observed[s][p]]
      <4>1. history'[p] = Append(history[p], row) /\ row.state = observed[s][p]
        BY <1>4, <2>3, <3>5
      <4> HIDE DEF row
      <4>2. history'[p][Len(history'[p])] = row
        BY <1>5, <4>1
      <4>3. QED
        BY <3>1, <3>3, <4>1, <4>2
    <3>6. QED
      BY <3>4, <3>5
  <2>4. QED
    BY <2>2, <2>3
<1>15. QED
  BY <1>6, <1>7, <1>8, <1>9, <1>11, <1>13, <1>14 DEF StoreInv

LEMMA StoreNext == TypeOK /\ TypeOK' /\ StoreInv /\ [Next]_vars => StoreInv'
<1> SUFFICES ASSUME TypeOK, TypeOK', StoreInv, [Next]_vars PROVE StoreInv'
  OBVIOUS
\* A step in which one saver's own work goes on.
<1>1. ASSUME NEW s \in Saver, Others(s), UNCHANGED tables,
             Rows(s)' \subseteq Rows(s), pc'[s] # "upsert"
      PROVE  StoreInv'
  <2>1. \A t \in Saver \ {s} : Rows(t)' = Rows(t)
    BY <1>1 DEF Others, Rows
  <2>2. Overlaps'
    BY <1>1, <2>1 DEF StoreInv, Overlaps, tables
  <2>3. QED
    BY <1>1, <2>1, <2>2, StoreUnwritten DEF Others, tables
\* A step that leaves the batches alone.
<1>2. ASSUME UNCHANGED <<tables, batch, observed>>,
             \A t \in Saver : pc'[t] = "upsert" =>
               \/ pc[t] = "upsert" /\ plans'[t] = plans[t]
               \/ plans'[t] = [p \in Rows(t) |-> Change(p, observed[t][p])]
      PROVE  StoreInv'
  <2>1. \A t \in Saver : Rows(t)' = Rows(t)
    BY <1>2 DEF Rows
  <2>2. Overlaps'
    BY <1>2, <2>1 DEF StoreInv, Overlaps, tables
  <2>3. QED
    BY <1>2, <2>1, <2>2, StoreUnwritten DEF tables
<1>3. CASE UNCHANGED vars
  BY <1>2, <1>3 DEF vars, work
<1>4. ASSUME NEW s \in Saver, NewRun(s) PROVE StoreInv'
  BY <1>2, <1>4 DEF NewRun, work
<1>5. ASSUME NEW s \in Saver, Begin(s) PROVE StoreInv'
  <2>1. /\ Others(s) /\ pc'[s] = "read" /\ contended \subseteq contended'
        /\ \A t \in Saver \ {s} : Rows(t)' = Rows(t)
        /\ \A t \in Saver \ {s} : Rows(s)' \cap Rows(t) \subseteq contended'
    BY <1>5, BeginType DEF Others, Rows
  <2>2. Overlaps'
    BY <2>1 DEF StoreInv, Overlaps
  <2>3. QED
    BY <1>5, <2>1, <2>2, StoreUnwritten DEF Begin, Others
<1>6. ASSUME NEW s \in Saver, Read(s) PROVE StoreInv'
  <2>1. /\ plans'[s] = [p \in Rows(s) |-> Change(p, observed[s][p])]
        /\ \A t \in Saver \ {s} : plans'[t] = plans[t] /\ pc'[t] = pc[t]
    BY <1>6 DEF Read, GoTo, TypeOK
  <2>2. QED
    BY <1>2, <1>6, <2>1 DEF Read
<1>7. ASSUME NEW s \in Saver, Upsert(s) PROVE StoreInv'
  BY <1>2, <1>7 DEF Upsert
<1>8. ASSUME NEW s \in Saver, Commit(s) \/ CommitUnconfirmed(s) PROVE StoreInv'
  BY <1>8, StoreWritten DEF Commit, CommitUnconfirmed, AllUpserted
<1>9. ASSUME NEW s \in Saver, DeadlockVictim(s) \/ StatementFails(s) PROVE StoreInv'
  <2>1. pc[s] # "idle" /\ Retry(s) /\ UNCHANGED tables
    BY <1>9 DEF DeadlockVictim, StatementFails, WaitsFor
  <2>2. QED
    BY <1>1, <2>1, RetryType
<1>10. ASSUME NEW s \in Saver, Disconnect(s) PROVE StoreInv'
  <2>1. EndBatch(s) /\ UNCHANGED tables /\ pc'[s] # "upsert"
    BY <1>10 DEF Disconnect, EndBatch, GoTo, TypeOK
  <2>2. QED
    BY <1>1, <2>1, IdleType
<1>11. QED
  BY <1>3, <1>4, <1>5, <1>6, <1>7, <1>8, <1>9, <1>10 DEF Next, Step, Rest

LEMMA StoreInvHolds == Spec => []StoreInv
<1>1. Init => StoreInv
  BY StoreInit
<1>2. TypeOK /\ TypeOK' /\ StoreInv /\ [Next]_vars => StoreInv'
  BY StoreNext
<1>3. QED
  BY <1>1, <1>2, TypeCorrect, PTL DEF Spec

\* Whatever fails and is tried again, and however savers get in each other's
\* way, a product is in the tables with a history that begins when it was first
\* seen, or not at all: HistoryWithProduct.
THEOREM ProductsHaveHistory == Spec => []HistoryWithProduct
<1>1. StoreInv => HistoryWithProduct
  BY DEF StoreInv
<1>2. QED
  BY <1>1, StoreInvHolds, PTL

\* Where no saves of a product overlapped, its history has one initial row, the
\* first, and no row that repeats the one before it: ChangesOnly.
THEOREM HistoryHoldsChanges == Spec => []ChangesOnly
<1>1. StoreInv => ChangesOnly
  BY DEF StoreInv
<1>2. QED
  BY <1>1, StoreInvHolds, PTL

\* ... and the row the next save will compare with is the state saved last:
\* LatestIsSaved.
THEOREM NextSaveComparesWithLast == Spec => []LatestIsSaved
<1>1. StoreInv => LatestIsSaved
  BY DEF StoreInv
<1>2. QED
  BY <1>1, StoreInvHolds, PTL
=============================================================================
