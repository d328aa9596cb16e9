------------------------------ MODULE CsvUpsert ------------------------------
(***************************************************************************)
(* IngestController.ingest over CsvSource.upsert and append_rows for one   *)
(* table: resolve the key, merge a batch into the table, move the          *)
(* watermark.  Each SQL statement commits by itself, so a batch whose      *)
(* INSERT raises has already been updated.                                 *)
(***************************************************************************)
EXTENDS CsvRows, Sequences

CONSTANTS
    Feed,       \* who may deliver rows to a table; of each:
    Batch,      \* the batches it delivers, sequences of rows
    KeysGiven,  \* whether it or the model names the key: a set of BOOLEAN
    Modes,      \* the modes it uses: "upsert", "append"
    Base,       \* the table as loaded from its CSV file
    MaxBatches  \* bound of the model on deliveries

ASSUME BatchAssumption == Batch \in [Feed -> SUBSET Seq(BatchRow)]
ASSUME BaseAssumption  ==
    /\ Base \subseteq Row /\ IsFiniteSet(Base)
    /\ \A row, other \in Base : row.id[1] = 0 /\ (row.id = other.id => row = other)
ASSUME ModeAssumption  ==
    /\ KeysGiven \in [Feed -> SUBSET BOOLEAN]
    /\ Modes \in [Feed -> SUBSET {"upsert", "append"}]
ASSUME BoundAssumption == MaxBatches \in Nat

VARIABLES
    feed,       \* the feed of this table
    table,      \* the rows
    watermark,  \* _watermarks[table]
    last,       \* the last delivery and its UpsertResult
    applied,    \* batches upserted so far
    count       \* deliveries so far

vars == <<feed, table, watermark, last, applied, count>>

NoResult == [batch |-> <<>>, outcome |-> "none", inserted |-> 0, updated |-> 0,
             rejected |-> 0, from |-> {}]

Init ==
    /\ feed \in Feed
    /\ table = Base
    /\ watermark = NoTime
    /\ last = NoResult
    /\ applied = {}
    /\ count = 0

(* The next delivery is `batch`, in mode `mode`. *)
Deliver(batch, mode) ==
    /\ mode \in Modes[feed]
    /\ count < MaxBatches
    /\ count' = count + 1
    /\ UNCHANGED feed

Result(batch, outcome) == [NoResult EXCEPT !.batch = batch, !.outcome = outcome]

(* The first upsert reads the watermark from the table. *)
KnownWatermark == IF watermark = NoTime THEN MaxTime(table) ELSE watermark

(* upsert needs a key: given, or detected in the table as it is now. *)
Keyed == TRUE \in KeysGiven[feed] \/ KeysDetected(table)

Refuse(batch) ==
    /\ Deliver(batch, "upsert")
    /\ FALSE \in KeysGiven[feed] /\ ~KeysDetected(table)
    /\ last' = Result(batch, "refused")
    /\ UNCHANGED <<table, watermark, applied>>

UpsertNothing ==
    /\ Deliver(<<>>, "upsert")
    /\ Keyed
    /\ <<>> \in Batch[feed]
    /\ watermark' = KnownWatermark
    /\ last' = Result(<<>>, "ok")
    /\ UNCHANGED <<table, applied>>

(* SELECT MAX(time) after the merge. *)
NextWatermark(rows, batch) == MaxTime(rows)

Upsert(batch) ==
    /\ Deliver(batch, "upsert")
    /\ Keyed /\ batch # <<>>
    /\ LET new == Inserted(table, batch, count')
           hit == UpdatedCount(table, batch)
           in  == Cardinality(Accepted(table, batch))
       IN  /\ \E pick \in Picks(table, batch) :
                 table' = Updated(table, batch, pick) \cup new
           /\ watermark' = NextWatermark(table', batch)
           /\ last' = [Result(batch, "ok") EXCEPT
                         !.inserted = in - hit, !.updated = hit,
                         !.rejected = Len(batch) - in]
    /\ applied' = applied \cup {batch}

(* Mutant: the merge deletes the matching rows before it inserts. *)
UpsertBreaks_Deleted(batch) ==
    /\ Deliver(batch, "upsert")
    /\ Keyed /\ batch # <<>>
    /\ table' = {row \in table : Matches(table, batch, row) = {}}
    /\ watermark' = KnownWatermark
    /\ last' = [Result(batch, "failed") EXCEPT !.from = table]
    /\ UNCHANGED applied

(* The INSERT raises after the UPDATE. *)
UpsertBreaks(batch) ==
    /\ Deliver(batch, "upsert")
    /\ Keyed /\ batch # <<>>
    /\ \E pick \in Picks(table, batch) : table' = Updated(table, batch, pick)
    /\ watermark' = KnownWatermark
    /\ last' = [Result(batch, "failed") EXCEPT !.from = table]
    /\ UNCHANGED applied

(* append_rows: every row is inserted and the watermark is left alone. *)
AppendRows(batch) ==
    /\ Deliver(batch, "append")
    /\ table' = table \cup {NewRow(batch[i], count', i) : i \in DOMAIN batch}
    /\ last' = [Result(batch, "ok") EXCEPT !.inserted = Len(batch)]
    /\ UNCHANGED <<watermark, applied>>

Next ==
    \/ UpsertNothing
    \/ \E batch \in Batch[feed] :
          Refuse(batch) \/ Upsert(batch) \/ UpsertBreaks(batch) \/ AppendRows(batch)

Spec == Init /\ [][Next]_vars

------------------------------------------------------------------------------
(* Every variable has its type, and no two rows share an id. *)
TypeOK ==
    /\ feed \in Feed
    /\ \A row \in table : row \in Row
    /\ \A row, other \in table : row.id = other.id => row = other
    /\ watermark \in Nat \cup {NoTime}
    /\ applied \subseteq Batch[feed]
    /\ last.outcome \in {"none", "ok", "failed", "refused"}
    /\ last.inserted \in Nat /\ last.updated \in Nat /\ last.rejected \in Nat
    /\ count \in 0 .. MaxBatches

(* A feed that upserts rows with a key of their own into a table that has a key. *)
KeyedFeed ==
    /\ Modes[feed] = {"upsert"} /\ KeyedRows(Base)
    /\ \A batch \in Batch[feed] : KeyedBatch(batch)

(* "Idempotent keyed merge": no two rows of the table have the same key, in any
   order of batches, late, repeated or broken in the middle. *)
KeysUnique == KeyedFeed => KeyedRows(table)

(* What the table of a feed keeps: its type, and the keys of its rows. *)
FeedKeysUnique == TypeOK /\ KeysUnique

(* A batch that was applied before, however many others came in between, adds
   no row when it is delivered again. *)
ReplayAddsNothing ==
    last'.outcome = "ok" /\ last'.batch \in applied /\ count' # count
        => Cardinality(table') = Cardinality(table)

Contents(rows) == {[key |-> row.key, time |-> row.time, value |-> row.value] : row \in rows}

(* A batch that broke in the middle and is delivered again leaves the table as
   if it had been applied at once. *)
RetryCompletes ==
    last.outcome = "failed" /\ last'.outcome = "ok" /\ last'.batch = last.batch
        => \E pick \in Picks(last.from, last.batch) :
              Contents(table') = Contents(Updated(last.from, last.batch, pick)
                                            \cup Inserted(last.from, last.batch, 0))

(* A row at most late_window older than the newest one is not lost. *)
InWindowKept ==
    last'.outcome = "ok" /\ count' # count =>
        \A i \in DOMAIN last'.batch :
            LET row == last'.batch[i]
            IN  row.key # Null /\ row.time >= MaxTime(table) - LateWindow
                    => HasKey(table', row.key)

(* The time of a key is the same in every row that has it. *)
SameTime(row, batch) == \A i \in DOMAIN batch : batch[i].key = row.key => batch[i].time = row.time

(* A feed of events: an event keeps its key and its time, and the late window is a
   number of days. *)
EventFeed ==
    /\ KeyedFeed
    /\ \A batch \in Batch[feed] :
          /\ \A row \in Base : SameTime(row, batch)
          /\ \A other \in Batch[feed] : \A i \in DOMAIN other : SameTime(other[i], batch)
    /\ LateWindow = (LateWindow \div Day) * Day

(* Deliveries that repeat, break and come late, as a caller may rely on. *)
FeedMerges ==
    [][EventFeed => ReplayAddsNothing /\ RetryCompletes /\ InWindowKept]_vars

(* The counts of the result are those of the rows, whatever the batch. *)
ResultAddsUp ==
    [][last'.outcome = "ok" /\ count' # count =>
        /\ Cardinality(table') = Cardinality(table) + last'.inserted
        /\ last'.inserted + last'.updated + last'.rejected = Len(last'.batch)]_vars

(* A table that lost its key never gets it back: no later batch removes the
   duplicate or the NULL, so every upsert that has to detect the key fails. *)
KeyLostForGood == [][~KeysDetected(table) => ~KeysDetected(table')]_vars
==============================================================================
