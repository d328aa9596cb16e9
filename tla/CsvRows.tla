------------------------------- MODULE CsvRows -------------------------------
(***************************************************************************)
(* One DuckDB table of CsvSource (demos/analytics, csv_source.py) and what *)
(* the statements of upsert do to it.  A table is a set of rows; `id`      *)
(* tells apart rows that agree in every column, as DuckDB's rowid does.    *)
(* The columns are one key, one event time and one value.                  *)
(***************************************************************************)
EXTENDS Integers, FiniteSets, FiniteSetsExt

CONSTANTS
    Key,         \* values of the key column
    Null,        \* the SQL NULL, not equal to any value, itself included
    Value,       \* values of the other columns
    LateWindow,  \* late_window, in units of time
    Day          \* units of time in a day

ASSUME NullAssumption   == Null \notin Key
ASSUME WindowAssumption == LateWindow \in Nat /\ Day \in Nat \ {0}

BatchRow == [key : Key \cup {Null}, time : Nat, value : Value]
Row      == [key : Key \cup {Null}, time : Nat, value : Value, id : Nat \X Nat]
NoTime   == -1   \* MAX over no row, and a watermark that was never set

HasKey(table, key) == key # Null /\ \E row \in table : row.key = key

(* No two rows have the same key. *)
KeyedRows(table) == \A row, other \in table : row.key = other.key => row = other

(* The rows of a batch have different keys, and all of them have one. *)
KeyedBatch(batch) ==
    \A i, j \in DOMAIN batch :
        /\ batch[i].key # Null
        /\ batch[i].key = batch[j].key => i = j

(* SELECT MAX(time) FROM table *)
MaxTime(table) == IF table = {} THEN NoTime ELSE Max({row.time : row \in table})

(* Mutant: the window is not subtracted. *)
Cutoff_NoWindow(table) == MaxTime(table)

(* MAX(time) - INTERVAL '{int(late)} days' *)
Cutoff(table) == MaxTime(table) - (LateWindow \div Day) * Day

(* The DELETE on the temporary table. *)
TooLate(table, row) ==
    table # {} /\ row.time < Cutoff(table) /\ ~HasKey(table, row.key)

Accepted(table, batch) == {i \in DOMAIN batch : ~TooLate(table, batch[i])}

(* UPDATE ... FROM the temporary table: each row with a matching key takes the
   columns of a match; which one, if there are several, is up to the database. *)
Matches(table, batch, row) ==
    {i \in Accepted(table, batch) : row.key # Null /\ batch[i].key = row.key}

(* Mutant: the matching rows are deleted and the match inserted once. *)
Updated_Replaces(table, batch, pick) ==
    {row \in table : Matches(table, batch, row) = {}}
      \cup {[key |-> batch[i].key, time |-> batch[i].time, value |-> batch[i].value,
             id |-> <<9, i>>] : i \in {j \in Accepted(table, batch) : HasKey(table, batch[j].key)}}

Updated(table, batch, pick) ==
    {IF Matches(table, batch, row) = {} THEN row
     ELSE [row EXCEPT !.time = batch[pick[row.id]].time,
                      !.value = batch[pick[row.id]].value] : row \in table}

Picks(table, batch) ==
    {pick \in [{row.id : row \in table} -> DOMAIN batch] :
        \A row \in table : Matches(table, batch, row) # {}
            => pick[row.id] \in Matches(table, batch, row)}

NewRow(row, n, i) ==
    [key |-> row.key, time |-> row.time, value |-> row.value, id |-> <<n, i>>]

(* Mutant: INSERT without NOT EXISTS. *)
Inserted_Always(table, batch, n) ==
    {NewRow(batch[i], n, i) : i \in Accepted(table, batch)}

(* Mutant: a row that failed to match a value, not a key, is inserted. *)
Inserted_ByRow(table, batch, n) ==
    {NewRow(batch[i], n, i) : i \in {j \in Accepted(table, batch) :
        ~\E row \in table : row.key = batch[j].key /\ row.value = batch[j].value}}

(* INSERT ... WHERE NOT EXISTS: the accepted rows of the n-th batch whose key
   the table does not have.  The update changes no key. *)
Inserted(table, batch, n) ==
    {NewRow(batch[i], n, i) : i \in {j \in Accepted(table, batch) : ~HasKey(table, batch[j].key)}}

(* Mutant: rejected rows are counted too. *)
UpdatedCount_All(table, batch) ==
    Cardinality(DOMAIN batch) - Cardinality(Inserted(table, batch, 0))

(* Rows of the temporary table whose key exists. *)
UpdatedCount(table, batch) ==
    Cardinality({i \in Accepted(table, batch) : HasKey(table, batch[i].key)})

(* _detect_keys: the key column qualifies while it has no duplicate or NULL. *)
KeysDetected(table) ==
    Cardinality(table) = Cardinality({row.key : row \in table} \ {Null})
==============================================================================
