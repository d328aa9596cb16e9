---------------------------- MODULE StreamIngest ----------------------------
(***************************************************************************)
(* MicroBatchRunner over KafkaConnector, and IngestController with its     *)
(* control totals (ingest.py).  The consumer of the kafka package is       *)
(* modelled from how the connector uses it: poll moves its position,       *)
(* commit makes the position durable.  The tables are not durable.         *)
(***************************************************************************)
EXTENDS Integers, Sequences, FiniteSets, SequencesExt

CONSTANTS
    Key,                \* the key a record or row holds
    Poison,             \* a record that is not JSON
    MaxRecords,         \* max_records of a poll
    MaxLog, MaxLoads, MaxFailures, MaxRestarts      \* bounds of the model

VARIABLES
    log,        \* records of the topic
    position,   \* of the consumer: offset of the next record it fetches
    committed,  \* offset of the group
    batch,      \* what process() is ingesting
    phase,      \* of process()
    table,      \* keys in the table
    metrics,    \* counters of ingest and batch errors and of breaches
    control,    \* the last control total, and what was found
    loads, failures, restarts

vars == <<log, position, committed, batch, phase, table, metrics, control,
          loads, failures, restarts>>

NoControl == [kind |-> "none", status |-> "none"]

Init ==
    /\ log = <<>> /\ position = 0 /\ committed = 0
    /\ batch = {} /\ phase = "idle"
    /\ table = {}
    /\ metrics = [batch_errors |-> 0, errors |-> 0, row_breach |-> 0, metric_breach |-> 0]
    /\ control = NoControl
    /\ loads = 0 /\ failures = 0 /\ restarts = 0


Produce(value) ==
    /\ Len(log) < MaxLog
    /\ log' = Append(log, value)
    /\ UNCHANGED <<position, committed, batch, phase, table, metrics, control,
                   loads, failures, restarts>>

Fetched == SubSeq(log, position + 1,
                  IF Len(log) < position + MaxRecords THEN Len(log) ELSE position + MaxRecords)

(* Mutant: what was polled is committed with it. *)
Poll_Commits ==
    /\ phase = "idle" /\ position < Len(log)
    /\ position' = position + Len(Fetched) /\ committed' = position'
    /\ batch' = ToSet(Fetched) /\ phase' = "ingest"
    /\ UNCHANGED <<log, table, metrics, control, loads, failures, restarts>>

(* poll(): the position is past the records whether or not they can be read;
   one that is not JSON raises before anything is ingested. *)
Poll ==
    /\ phase = "idle" /\ position < Len(log)
    /\ position' = position + Len(Fetched)
    /\ IF Poison \in ToSet(Fetched)
       THEN UNCHANGED <<batch, phase>>
       ELSE batch' = ToSet(Fetched) /\ phase' = "ingest"
    /\ UNCHANGED <<log, committed, table, metrics, control, loads, failures, restarts>>

(* toolset.ingest: the upsert, by key. *)
Ingest ==
    /\ phase = "ingest"
    /\ table' = table \cup batch
    /\ phase' = "commit" /\ batch' = {}
    /\ control' = NoControl
    /\ UNCHANGED <<log, position, committed, metrics, loads, failures, restarts>>

(* It raises: counted twice, by the controller and by the runner. *)
IngestBreaks ==
    /\ phase = "ingest"
    /\ failures < MaxFailures /\ failures' = failures + 1
    /\ phase' = "idle" /\ batch' = {}
    /\ metrics' = [metrics EXCEPT !.batch_errors = @ + 1, !.errors = @ + 1]
    /\ UNCHANGED <<log, position, committed, table, control, loads, restarts>>

(* commit(), or the freshness gate raises before it. *)
Commit ==
    /\ phase = "commit"
    /\ phase' = "idle"
    /\ \/ committed' = position /\ UNCHANGED failures
       \/ failures < MaxFailures /\ failures' = failures + 1 /\ UNCHANGED committed
    /\ UNCHANGED <<log, position, batch, table, metrics, control, loads, restarts>>

(* The process starts again: from the committed offset, with empty tables. *)
Restart ==
    /\ restarts < MaxRestarts /\ restarts' = restarts + 1
    /\ position' = committed
    /\ batch' = {} /\ phase' = "idle" /\ table' = {}
    /\ metrics' = [name \in DOMAIN metrics |-> 0]
    /\ control' = NoControl
    /\ UNCHANGED <<log, committed, loads, failures>>

(* reconcile(): MATCH or MISMATCH; a total of 0 is never met. *)
Status(computed, expected) ==
    IF expected # 0 /\ computed = expected THEN "MATCH" ELSE "MISMATCH"

(* Mutant: a breach is counted when the rows agree. *)
RowBreach_Swapped(written, expected) == written = expected

RowBreach(written, expected) == written # expected

(* The test on the result of reconcile() in _reconcile. *)
MetricBreach(status) == status = "fail"

(* IngestController.ingest of a batch of rows with a row count to check. *)
LoadCounted(rows, expected) ==
    /\ phase = "idle" /\ loads < MaxLoads /\ loads' = loads + 1
    /\ table' = table \cup rows
    /\ LET breach == RowBreach(Cardinality(rows), expected)
       IN  /\ metrics' = [metrics EXCEPT !.row_breach = @ + (IF breach THEN 1 ELSE 0)]
           /\ control' = [kind |-> "rows", status |-> IF Cardinality(rows) = expected
                                                      THEN "met" ELSE "missed"]
    /\ UNCHANGED <<log, position, committed, batch, phase, failures, restarts>>

(* The same with a control total of a metric, here the number of keys. *)
LoadReconciled(rows, expected) ==
    /\ phase = "idle" /\ loads < MaxLoads /\ loads' = loads + 1
    /\ table' = table \cup rows
    /\ LET status == Status(Cardinality(table'), expected)
       IN  /\ metrics' = [metrics EXCEPT !.metric_breach =
                             @ + (IF MetricBreach(status) THEN 1 ELSE 0)]
           /\ control' = [kind |-> "metric", status |-> status]
    /\ UNCHANGED <<log, position, committed, batch, phase, failures, restarts>>

Next ==
    \/ \E value \in Key \cup {Poison} : Produce(value)
    \/ Poll \/ Ingest \/ IngestBreaks \/ Commit \/ Restart
    \/ \E rows \in SUBSET Key, expected \in 0 .. Cardinality(Key) :
          LoadCounted(rows, expected) \/ LoadReconciled(rows, expected)

Spec == Init /\ [][Next]_vars

------------------------------------------------------------------------------
(* A record of the topic is in the table once it was committed, unless its cycle
   failed, its poll met a record that is not JSON, or the process was restarted:
   then the offset is durable and the table is not.  What is committed was
   fetched, and what was fetched and not committed is fetched again. *)
CommittedIsServed ==
    /\ committed <= position /\ position <= Len(log)
    /\ failures = 0 /\ restarts = 0 =>
          LET done == SubSeq(log, 1, committed)
          IN  Poison \notin ToSet(done) => ToSet(done) \subseteq table

(* A load whose row count is not the control total is a breach, and no other
   is; errors of the runner and of the controller agree. *)
BreachesCounted ==
    /\ control'.kind = "rows" /\ loads' # loads =>
          metrics'.row_breach - metrics.row_breach =
             IF control'.status = "missed" THEN 1 ELSE 0
    /\ metrics'.errors = metrics'.batch_errors

(* "emits a reconcile diff + breach counter": so does a load that misses the
   control total of a metric. *)
MetricBreachCounted ==
    control.kind = "metric" /\ control.status = "MISMATCH" => metrics.metric_breach > 0

(* The inductive invariant: while nothing failed, what was fetched is in the table
   or in the batch, unless a record could not be read. *)
Upto(n) == {log[i] : i \in 1 .. n}

IInv ==
    /\ log \in Seq(Key \cup {Poison})
    /\ position \in Nat /\ committed \in Nat
    /\ committed <= position /\ position <= Len(log)
    /\ failures \in Nat /\ restarts \in Nat /\ loads \in Nat
    /\ metrics \in [batch_errors : Nat, errors : Nat, row_breach : Nat, metric_breach : Nat]
    /\ metrics.errors = metrics.batch_errors
    /\ phase # "ingest" => batch = {}
    /\ failures = 0 /\ restarts = 0 =>
          /\ Poison \notin Upto(position) => Upto(position) \subseteq table \cup batch
          /\ Poison \notin Upto(committed) => Upto(committed) \subseteq table

==============================================================================
