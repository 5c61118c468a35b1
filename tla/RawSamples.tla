------------------------------ MODULE RawSamples ------------------------------
(***************************************************************************)
(* The product_raw_samples of one platform, as passes of the domeggook     *)
(* details leave them: collect_details hands what remains of its budget of *)
(* samples to every save, and the save takes it for the configured limit.  *)
(***************************************************************************)
EXTENDS Integers, Sequences, SequencesExt

CONSTANTS
    Retention,   \* MAX_RAW_SAMPLE_RETENTION
    SampleLimit, \* details.raw_sample_limit
    NumProducts, \* products of a pass, one batch each
    MaxPasses,   \* bound: passes begun
    MaxFaults    \* bound: runs that stop after a save, before the state is written

VARIABLES
    samples,   \* the rows in the order of collected_at and id
    pass,      \* collected_at of the pass
    next,      \* the product whose batch is next
    remaining, \* raw_remaining
    file,      \* nextIndex and rawRemaining of the state file
    faults

vars == <<samples, pass, next, remaining, file, faults>>

NoState == [next |-> 1, remaining |-> SampleLimit]

Init ==
    /\ samples = <<>>
    /\ pass = 1
    /\ next = 1 /\ remaining = SampleLimit
    /\ file = NoState
    /\ faults = 0

\* _raw_sample_retention_limit.
RetentionLimit == IF remaining <= 0 THEN 0 ELSE Retention

\* _raw_sample_rows of a batch.
RawRows == IF RetentionLimit > 0 THEN <<[pass |-> pass, product |-> next]>> ELSE <<>>

\* _insert_raw_sample_rows: a row that is there already only gets a new payload.
Insert(old, rows) == old \o SelectSeq(rows, LAMBDA row : row \notin ToSet(old))

\* _prune_raw_sample_rows.
Prune(rows, limit) ==
    IF Len(rows) <= limit THEN rows
    ELSE SubSeq(rows, Len(rows) - limit + 1, Len(rows))

\* _save_products_with_raw_samples for the batch.
SaveBatch ==
    /\ next <= NumProducts
    /\ samples' = Prune(Insert(samples, RawRows), RetentionLimit)

\* The batch is saved, and so is the position behind it.
CollectBatch ==
    /\ SaveBatch
    /\ next' = next + 1
    /\ remaining' = IF remaining > 0 THEN remaining - 1 ELSE 0
    /\ file' = [next |-> next', remaining |-> remaining']
    /\ UNCHANGED <<pass, faults>>

\* The run dies before it has written the position; another one goes on from
\* the file.
StopAfterSave ==
    /\ SaveBatch
    /\ faults < MaxFaults
    /\ faults' = faults + 1
    /\ next' = file.next /\ remaining' = file.remaining
    /\ UNCHANGED <<pass, file>>

\* The pass is complete: the state is cleared, and a later run begins another.
NewPass ==
    /\ next > NumProducts
    /\ pass < MaxPasses
    /\ pass' = pass + 1
    /\ file' = NoState
    /\ next' = 1 /\ remaining' = SampleLimit
    /\ UNCHANGED <<samples, faults>>

Next == CollectBatch \/ StopAfterSave \/ NewPass

Spec == Init /\ [][Next]_vars

-----------------------------------------------------------------------------
(* Properties. *)

\* Saving removes no more than what exceeds the limit: "at most 100 per
\* platform; after new samples are saved, what exceeds it is deleted, the
\* newest collected_at first to stay" (docs/schema/DB_SCHEMA.md).  It does not
\* hold: the batch after the one that uses up the budget deletes them all.
OnlyExcessRemoved ==
    [][Len(samples') >= Len(samples) \/ Len(samples') >= Retention]_vars
=============================================================================
