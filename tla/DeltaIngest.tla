---------------------------- MODULE DeltaIngest ----------------------------
(***************************************************************************)
(* MicroBatchRunner over FileDeltaConnector (ingest.py): poll the delta    *)
(* directory, upsert each file into the table it is named after, commit.   *)
(* Any step can raise: the exception leaves process() and the runner is    *)
(* called again later.  A new connector or a new process starts over.      *)
(***************************************************************************)
EXTENDS CsvRows, Sequences, Functions

CONSTANTS
    File,         \* delta files, numbered in the order of their names
    Delta,        \* what a file can hold: sequences of rows
    Base,         \* every table as loaded at the start
    Overwrites,   \* a file can be written again under the same name
    MaxDrops, MaxFailures, MaxRestarts   \* bounds of the model

ASSUME FileAssumption  == File \subseteq Nat /\ IsFiniteSet(File)
ASSUME BaseAssumption  == Base \subseteq Row
ASSUME DeltaAssumption == Delta \subseteq Seq(BatchRow) \ {<<>>}
ASSUME BoundAssumption ==
    Overwrites \in BOOLEAN /\ MaxDrops \in Nat /\ MaxFailures \in Nat /\ MaxRestarts \in Nat

VARIABLES
    disk,       \* the directory: what each file holds
    processed,  \* _processed of the connector
    pending,    \* _pending of the connector
    queue,      \* batches of the running process() call still to ingest
    busy,       \* process() is running
    table,      \* the table of each file
    count,      \* upserts so far
    fresh,      \* files this connector has not read as they are now
    ingested,   \* files this connector's batches were fully upserted of
    drops, failures, restarts

connector == <<processed, pending, ingested, fresh>>
vars == <<disk, connector, queue, busy, table, count, drops, failures, restarts>>

NoFile == <<>>

Init ==
    /\ disk = [f \in File |-> NoFile]
    /\ processed = {} /\ pending = {}
    /\ queue = <<>> /\ busy = FALSE
    /\ table = [f \in File |-> Base]
    /\ count = 0
    /\ fresh = {} /\ ingested = {}
    /\ drops = 0 /\ failures = 0 /\ restarts = 0

(* A delta file is written. *)
Drop(f) ==
    /\ drops < MaxDrops
    /\ disk[f] = NoFile \/ Overwrites
    /\ \E batch \in Delta : disk' = [disk EXCEPT ![f] = batch]
    /\ fresh' = fresh \cup {f}
    /\ drops' = drops + 1
    /\ UNCHANGED <<processed, pending, ingested, queue, busy, table, count, failures, restarts>>

(* Mutant: nothing new once something is pending. *)
Unread_Waits == {f \in File : disk[f] # NoFile /\ f \notin processed /\ pending = {}}

(* The files that poll reads. *)
Unread == {f \in File : disk[f] # NoFile /\ f \notin processed \cup pending}

(* sorted(self._dir.glob(...)), as the set of that one sequence. *)
Sorted(files) ==
    {s \in [1 .. Cardinality(files) -> files] :
        Range(s) = files /\ \A i, j \in DOMAIN s : i < j => s[i] < s[j]}

Poll ==
    /\ ~busy
    /\ Unread # {}
    /\ pending' = pending \cup Unread
    /\ fresh' = fresh \ Unread
    /\ \E s \in Sorted(Unread) :
          queue' = [i \in DOMAIN s |-> [file |-> s[i], rows |-> disk[s[i]]]]
    /\ busy' = TRUE
    /\ UNCHANGED <<disk, processed, ingested, table, count, drops, failures, restarts>>

Failure == failures < MaxFailures /\ failures' = failures + 1

(* Reading f raises: the files before it are pending, and their batches lost. *)
PollBreaks(f) ==
    /\ ~busy
    /\ Failure
    /\ f \in Unread
    /\ pending' = pending \cup {g \in Unread : g < f}
    /\ fresh' = fresh \ {g \in Unread : g < f}
    /\ UNCHANGED <<disk, processed, ingested, queue, busy, table, count, drops, restarts>>

(* toolset.ingest of the next batch. *)
Merge(f, rows) ==
    \E pick \in Picks(table[f], rows) :
        table' = [table EXCEPT ![f] = Updated(@, rows, pick) \cup Inserted(@, rows, count')]

Ingest ==
    /\ busy /\ queue # <<>>
    /\ count' = count + 1
    /\ Merge(Head(queue).file, Head(queue).rows)
    /\ ingested' = ingested \cup {Head(queue).file}
    /\ queue' = Tail(queue)
    /\ UNCHANGED <<disk, processed, pending, fresh, busy, drops, failures, restarts>>

(* Mutant: the rest of the queue survives the exception. *)
Abandon_KeepsQueue == busy' = FALSE /\ UNCHANGED queue

(* The exception leaves process(): what is left of the queue is forgotten. *)
Abandon == busy' = FALSE /\ queue' = <<>>

(* The upsert raises, before its first statement or after the UPDATE. *)
IngestBreaks ==
    /\ busy /\ queue # <<>>
    /\ Failure
    /\ Abandon
    /\ LET f == Head(queue).file
           rows == Head(queue).rows
       IN  \/ UNCHANGED table
           \/ \E pick \in Picks(table[f], rows) :
                 table' = [table EXCEPT ![f] = Updated(@, rows, pick)]
    /\ UNCHANGED <<disk, connector, count, drops, restarts>>

(* The upsert is done, and the refresh of the model or the freshness gate
   raises. *)
GateBreaks ==
    /\ busy /\ queue # <<>>
    /\ Failure
    /\ Abandon
    /\ count' = count + 1
    /\ Merge(Head(queue).file, Head(queue).rows)
    /\ ingested' = ingested \cup {Head(queue).file}
    /\ UNCHANGED <<disk, processed, pending, fresh, drops, restarts>>

(* Mutant: the files that are waiting in the directory are marked as well. *)
Commit_AllFiles ==
    /\ busy /\ queue = <<>>
    /\ processed' = processed \cup {f \in File : disk[f] # NoFile}
    /\ pending' = {}
    /\ busy' = FALSE
    /\ UNCHANGED <<disk, queue, ingested, fresh, table, count, drops, failures, restarts>>

(* Mutant: the pending files are cleared and not marked. *)
Commit_Forgets ==
    /\ busy /\ queue = <<>>
    /\ pending' = {}
    /\ busy' = FALSE
    /\ UNCHANGED <<disk, processed, queue, ingested, fresh, table, count, drops, failures, restarts>>

(* Every batch is ingested: connector.commit(). *)
Commit ==
    /\ busy /\ queue = <<>>
    /\ processed' = processed \cup pending
    /\ pending' = {}
    /\ busy' = FALSE
    /\ UNCHANGED <<disk, queue, ingested, fresh, table, count, drops, failures, restarts>>

StartOver ==
    /\ restarts < MaxRestarts
    /\ restarts' = restarts + 1
    /\ processed' = {} /\ pending' = {} /\ ingested' = {}
    /\ fresh' = {f \in File : disk[f] # NoFile}
    /\ UNCHANGED <<disk, count, drops, failures>>

(* A replay: a new connector over the same directory and the same tables. *)
NewConnector ==
    /\ StartOver
    /\ ~busy
    /\ UNCHANGED <<queue, busy, table>>

(* The process dies and starts again; CsvSource loads its tables anew. *)
Restart ==
    /\ StartOver
    /\ Abandon
    /\ table' = [f \in File |-> Base]

Runner == Poll \/ Ingest \/ Commit

Next ==
    \/ Runner \/ IngestBreaks \/ GateBreaks \/ NewConnector \/ Restart
    \/ \E f \in File : Drop(f) \/ PollBreaks(f)

Spec == Init /\ [][Next]_vars

(* process() is called again and again. *)
FairSpec == Spec /\ WF_vars(Runner)

------------------------------------------------------------------------------
(* Every variable has its type; outside process() the queue is empty. *)
TypeOK ==
    /\ \A f \in File : disk[f] \in Delta \cup {NoFile}
    /\ processed \subseteq File /\ pending \subseteq File
    /\ fresh \subseteq File /\ ingested \subseteq File
    /\ \A i \in DOMAIN queue : queue[i].file \in File /\ queue[i].rows \in Delta
    /\ busy \in BOOLEAN
    /\ ~busy => queue = <<>>
    /\ \A f \in File : \A row \in table[f] : row \in Row

(* Whatever fails, is replayed or restarts, no table has a key twice. *)
TablesKeyed == \A f \in File : KeyedRows(table[f])

(* "so a later poll (or a replay) does not reprocess them": whatever fails, one
   connector ingests a file at most once. *)
AtMostOnce == [][count' # count => Head(queue).file \notin ingested]_vars

(* A file that is marked as processed was ingested. *)
CommittedWasIngested == processed \subseteq ingested

(* Nothing but a failure makes a connector mark a file it did not ingest: not
   the files that are written or written again while it runs, no replay, and no
   restart. *)
CommittedUnlessFailed == failures = 0 => CommittedWasIngested

(* The table loaded at the start and the deltas have a key in each row. *)
DeltasKeyed == KeyedRows(Base) /\ \A rows \in Delta : KeyedBatch(rows)

(* What holds of every connector, and of the tables when no delta repeats a key. *)
DeltaSafe == TypeOK /\ CommittedUnlessFailed /\ (DeltasKeyed => TablesKeyed)

(* A file that is written under a name this connector has not polled is read by
   a later poll, in spite of failures, replays and restarts. *)
EveryNewDeltaRead ==
    \A f \in File : f \in fresh \ (processed \cup pending) ~> f \notin fresh

==============================================================================
