--------------------------- MODULE Analytics_proof ---------------------------
(***************************************************************************)
(* Proofs about the parts of Analytics, for every value of the constants:  *)
(* for each part the lemmas that make its inductive invariant one, and at  *)
(* the end the theorems.                                                   *)
(***************************************************************************)
EXTENDS Analytics, Facts, FiniteSetTheorems, SequenceTheorems

-----------------------------------------------------------------------------
(* Upsert: what its statements keep of a table, whatever the batch. *)
LEMMA BatchRows ==
    ASSUME NEW batch \in Seq(BatchRow), NEW i \in DOMAIN batch
    PROVE  /\ batch[i] \in BatchRow
           /\ i \in Nat
OBVIOUS

(* A picked match is a row of the batch. *)
LEMMA PickedRow ==
    ASSUME NEW rows, NEW batch \in Seq(BatchRow), NEW pick \in Picks(rows, batch),
           NEW row \in rows, Matches(rows, batch, row) # {}
    PROVE  pick[row.id] \in DOMAIN batch
BY DEF Picks, Matches, Accepted

(* What UPDATE makes of one row. *)
NewVersion(rows, batch, pick, row) ==
    IF Matches(rows, batch, row) = {} THEN row
    ELSE [row EXCEPT !.time = batch[pick[row.id]].time,
                     !.value = batch[pick[row.id]].value]

(* UPDATE changes neither the key nor the identity of a row. *)
LEMMA UpdatedRow ==
    ASSUME NEW rows \in SUBSET Row, NEW batch \in Seq(BatchRow),
           NEW pick \in Picks(rows, batch), NEW row \in rows
    PROVE  LET new == NewVersion(rows, batch, pick, row)
           IN  new \in Row /\ new.key = row.key /\ new.id = row.id
<1>1. CASE Matches(rows, batch, row) = {}
  BY <1>1 DEF NewVersion
<1>2. CASE Matches(rows, batch, row) # {}
  <2>1. batch[pick[row.id]] \in BatchRow
    BY <1>2, PickedRow, BatchRows
  <2>2. /\ batch[pick[row.id]].time \in Nat
        /\ batch[pick[row.id]].value \in Value
    BY <2>1 DEF BatchRow
  <2>3. row \in Row
    OBVIOUS
  <2> QED
    BY <1>2, <2>2, <2>3 DEF NewVersion, Row
<1> QED
  BY <1>1, <1>2

LEMMA UpdatedRows ==
    ASSUME NEW rows, NEW batch, NEW pick
    PROVE  Updated(rows, batch, pick) = {NewVersion(rows, batch, pick, row) : row \in rows}
BY Zenon DEF Updated, NewVersion

LEMMA UpdatedKeepsKeys ==
    ASSUME NEW rows \in SUBSET Row, NEW batch \in Seq(BatchRow),
           NEW pick \in Picks(rows, batch), KeyedRows(rows)
    PROVE  /\ Updated(rows, batch, pick) \in SUBSET Row
           /\ KeyedRows(Updated(rows, batch, pick))
           /\ \A new \in Updated(rows, batch, pick) : \E row \in rows : row.key = new.key
<1> DEFINE V(row) == NewVersion(rows, batch, pick, row)
<1>1. Updated(rows, batch, pick) = {V(row) : row \in rows}
  BY UpdatedRows
<1>2. \A row \in rows : V(row) \in Row /\ V(row).key = row.key
  BY UpdatedRow
<1> HIDE DEF V
<1> QED
  BY <1>1, <1>2 DEF KeyedRows

(* The rows of the INSERT: each comes from a row of the batch whose key the
   table does not have. *)
LEMMA InsertedRow ==
    ASSUME NEW rows, NEW batch \in Seq(BatchRow), NEW n \in Nat,
           NEW new \in Inserted(rows, batch, n)
    PROVE  /\ new \in Row
           /\ \E i \in DOMAIN batch : new = NewRow(batch[i], n, i)
                                      /\ ~HasKey(rows, batch[i].key)
<1>1. PICK i \in DOMAIN batch : new = NewRow(batch[i], n, i) /\ ~HasKey(rows, batch[i].key)
  BY DEF Inserted, Accepted
<1>2. batch[i] \in BatchRow /\ i \in Nat
  BY BatchRows
<1>3. new \in Row
  BY <1>1, <1>2 DEF NewRow, BatchRow, Row
<1> QED
  BY <1>1, <1>3

(* Merging a batch whose rows have different keys keeps the key unique. *)
LEMMA MergeKeepsKeys ==
    ASSUME NEW rows \in SUBSET Row, NEW batch \in Seq(BatchRow), NEW n \in Nat,
           NEW pick \in Picks(rows, batch), KeyedRows(rows), KeyedBatch(batch)
    PROVE  KeyedRows(Updated(rows, batch, pick) \cup Inserted(rows, batch, n))
<1> DEFINE U == Updated(rows, batch, pick)
           I == Inserted(rows, batch, n)
<1>1. KeyedRows(U) /\ \A a \in U : \E row \in rows : row.key = a.key
  BY UpdatedKeepsKeys
<1>2. \A b \in I : \E i \in DOMAIN batch :
          /\ b = NewRow(batch[i], n, i) /\ b.key = batch[i].key
          /\ batch[i].key # Null /\ ~HasKey(rows, batch[i].key)
  BY InsertedRow DEF NewRow, KeyedBatch
<1>3. \A a \in U, b \in I : a.key # b.key
  BY <1>1, <1>2 DEF HasKey
<1>4. \A a, b \in I : a.key = b.key => a = b
  BY <1>2 DEF KeyedBatch
<1> HIDE DEF U, I
<1>5. \A a, b \in U \cup I : a.key = b.key => a = b
  BY <1>1, <1>3, <1>4 DEF KeyedRows
<1> QED
  BY <1>5 DEF KeyedRows, U, I

-----------------------------------------------------------------------------
(* Upsert. *)

(* A table with finitely many rows, each with an identity of its own, none of
   a delivery after the n-th. *)
Sound(rows, n) ==
    /\ rows \in SUBSET Row /\ IsFiniteSet(rows)
    /\ \A row, other \in rows : row.id = other.id => row = other
    /\ \A row \in rows : row.id[1] <= n

IInv == feed \in Feed /\ count \in Nat /\ Sound(table, count)

------------------------------------------------------------------------------
(* A key is detected exactly if no two rows share it and no row misses it. *)
LEMMA DetectedKeys ==
    ASSUME NEW rows \in SUBSET Row, IsFiniteSet(rows)
    PROVE  KeysDetected(rows) <=> KeyedRows(rows) /\ \A row \in rows : row.key # Null
<1> DEFINE keys == {row.key : row \in rows}
           f == [row \in rows |-> row.key]
<1>1. f \in Surjection(rows, keys)
  BY DEF Surjection
<1>2. /\ IsFiniteSet(keys)
      /\ Cardinality(keys) <= Cardinality(rows)
      /\ Cardinality(keys) = Cardinality(rows) <=> f \in Injection(rows, keys)
  BY <1>1, FS_Surjection
<1>3. f \in Injection(rows, keys) <=> KeyedRows(rows)
  BY DEF Injection, IsInjective, KeyedRows
<1>4. Null \in keys <=> \E row \in rows : row.key = Null
  OBVIOUS
<1>5. Cardinality(keys \ {Null}) = IF Null \in keys THEN Cardinality(keys) - 1
                                   ELSE Cardinality(keys)
  BY <1>2, FS_RemoveElement
<1>6. Cardinality(rows) \in Nat /\ Cardinality(keys) \in Nat
  BY <1>2, FS_CardinalityType
<1>7. KeysDetected(rows) <=> Cardinality(rows) = Cardinality(keys \ {Null})
  BY DEF KeysDetected
<1> HIDE DEF keys, f
<1> QED
  BY <1>2, <1>3, <1>4, <1>5, <1>6, <1>7

(* UPDATE keeps the number of rows, and every row its key and identity. *)
LEMMA UpdatedTable ==
    ASSUME NEW rows, NEW n \in Nat, Sound(rows, n),
           NEW batch \in Seq(BatchRow), NEW pick \in Picks(rows, batch)
    PROVE  /\ Sound(Updated(rows, batch, pick), n)
           /\ Cardinality(Updated(rows, batch, pick)) = Cardinality(rows)
           /\ \A row \in rows : \E new \in Updated(rows, batch, pick) :
                 new.key = row.key /\ new.id = row.id
<1> DEFINE V(row) == NewVersion(rows, batch, pick, row)
           U == Updated(rows, batch, pick)
           f == [row \in rows |-> V(row)]
<1>1. U = {V(row) : row \in rows}
  BY UpdatedRows
<1>2. \A row \in rows : V(row) \in Row /\ V(row).key = row.key /\ V(row).id = row.id
  BY UpdatedRow DEF Sound
<1> HIDE DEF V, U
<1>3. f \in Bijection(rows, U)
  BY <1>1, <1>2 DEF Bijection, Surjection, Injection, IsInjective, Sound
<1>4. IsFiniteSet(U) /\ Cardinality(U) = Cardinality(rows)
  BY <1>3, FS_Bijection DEF ExistsBijection, Sound
<1>5. Sound(U, n)
  BY <1>1, <1>2, <1>4 DEF Sound
<1> QED
  BY <1>1, <1>2, <1>4, <1>5 DEF U

(* Inserting new rows, one for each index of a set of indices. *)
LEMMA InsertedTable ==
    ASSUME NEW rows, NEW n \in Nat, Sound(rows, n), NEW batch \in Seq(BatchRow),
           NEW I \in SUBSET DOMAIN batch
    PROVE  LET new == {NewRow(batch[i], n + 1, i) : i \in I}
           IN  /\ Sound(rows \cup new, n + 1)
               /\ Cardinality(rows \cup new) = Cardinality(rows) + Cardinality(I)
<1> DEFINE R(i) == NewRow(batch[i], n + 1, i)
           new == {R(i) : i \in I}
           f == [i \in I |-> R(i)]
<1>1. I \subseteq Nat /\ IsFiniteSet(I)
  <2>1. DOMAIN batch = 1 .. Len(batch) /\ Len(batch) \in Nat
    OBVIOUS
  <2>2. IsFiniteSet(1 .. Len(batch))
    BY <2>1, FS_Interval
  <2> QED
    BY <2>1, <2>2, FS_Subset
<1>2. \A i \in I : R(i) \in Row /\ R(i).id = <<n + 1, i>> /\ R(i).id[1] = n + 1
  <2> TAKE i \in I
  <2>1. batch[i] \in BatchRow /\ i \in Nat
    BY BatchRows
  <2> QED
    BY <2>1 DEF NewRow, BatchRow, Row
<1>3. \A i, j \in I : R(i).id = R(j).id => i = j
  BY <1>2
<1> HIDE DEF R
<1>4. f \in Bijection(I, new)
  BY <1>3 DEF Bijection, Surjection, Injection, IsInjective
<1>5. IsFiniteSet(new) /\ Cardinality(new) = Cardinality(I)
  BY <1>1, <1>4, FS_Bijection DEF ExistsBijection
<1>6. \A row \in rows : row \in Row /\ row.id[1] \in Nat /\ row.id[1] <= n
  BY DEF Sound, Row
<1>7. \A row \in rows, i \in I : row.id # R(i).id
  BY <1>2, <1>6
<1>8. rows \cap new = {}
  BY <1>7
<1>9. /\ IsFiniteSet(rows \cup new)
      /\ Cardinality(rows \cup new) = Cardinality(rows) + Cardinality(I)
  <2>1. Cardinality(rows \cap new) = 0
    BY <1>8, FS_EmptySet
  <2>2. Cardinality(rows) \in Nat /\ Cardinality(new) \in Nat
    BY <1>5, FS_CardinalityType DEF Sound
  <2>3. /\ IsFiniteSet(rows \cup new)
        /\ Cardinality(rows \cup new) =
              Cardinality(rows) + Cardinality(new) - Cardinality(rows \cap new)
    BY <1>5, FS_Union DEF Sound
  <2> QED
    BY <1>5, <2>1, <2>2, <2>3
<1>10. \A row, other \in rows \cup new : row.id = other.id => row = other
  BY <1>3, <1>7 DEF Sound
<1>11. \A row \in rows \cup new : row \in Row /\ row.id[1] <= n + 1
  BY <1>2, <1>6
<1> QED
  BY <1>9, <1>10, <1>11 DEF Sound, R

------------------------------------------------------------------------------
(* What a delivery makes of the table. *)

(* The rows that are accepted and whose key is missing. *)
Missing(rows, batch) == {i \in Accepted(rows, batch) : ~HasKey(rows, batch[i].key)}

LEMMA UpsertedTable ==
    ASSUME NEW rows, NEW n \in Nat, Sound(rows, n),
           NEW batch \in Seq(BatchRow), NEW pick \in Picks(rows, batch)
    PROVE  LET new == Updated(rows, batch, pick) \cup Inserted(rows, batch, n + 1)
           IN  /\ Sound(new, n + 1)
               /\ Cardinality(new) = Cardinality(rows) + Cardinality(Missing(rows, batch))
<1>1. Missing(rows, batch) \in SUBSET DOMAIN batch
  BY DEF Missing, Accepted
<1>2. Inserted(rows, batch, n + 1) =
          {NewRow(batch[i], n + 1, i) : i \in Missing(rows, batch)}
  BY DEF Inserted, Missing
<1> DEFINE U == Updated(rows, batch, pick)
           new == {NewRow(batch[i], n + 1, i) : i \in Missing(rows, batch)}
<1>3. Sound(U, n) /\ Cardinality(U) = Cardinality(rows)
  BY UpdatedTable
<1> HIDE DEF U
<1>4. /\ Sound(U \cup new, n + 1)
      /\ Cardinality(U \cup new) = Cardinality(U) + Cardinality(Missing(rows, batch))
  BY <1>1, <1>3, InsertedTable
<1> QED
  BY <1>2, <1>3, <1>4 DEF U

(* The accepted rows either hit a row of the table or are inserted. *)
LEMMA AcceptedCount ==
    ASSUME NEW rows, NEW batch \in Seq(BatchRow)
    PROVE  LET in == Cardinality(Accepted(rows, batch))
           IN  /\ in \in Nat /\ UpdatedCount(rows, batch) \in Nat
               /\ Cardinality(Missing(rows, batch)) = in - UpdatedCount(rows, batch)
<1> DEFINE A == Accepted(rows, batch)
           H == {i \in A : HasKey(rows, batch[i].key)}
<1>1. DOMAIN batch = 1 .. Len(batch) /\ Len(batch) \in Nat /\ A \in SUBSET DOMAIN batch
  BY DEF Accepted
<1>2. IsFiniteSet(A)
  <2>1. IsFiniteSet(1 .. Len(batch))
    BY <1>1, FS_Interval
  <2> QED
    BY <1>1, <2>1, FS_Subset
<1>3. H \in SUBSET A /\ Missing(rows, batch) = A \ H /\ A \cap H = H
  BY DEF Missing
<1>4. IsFiniteSet(H) /\ Cardinality(A \ H) = Cardinality(A) - Cardinality(H)
  <2>1. IsFiniteSet(H)
    BY <1>2, <1>3, FS_Subset
  <2>2. Cardinality(A \ H) = Cardinality(A) - Cardinality(A \cap H)
    BY <1>2, FS_Difference
  <2> QED
    BY <1>3, <2>1, <2>2
<1>5. Cardinality(A) \in Nat /\ Cardinality(H) \in Nat
  BY <1>2, <1>4, FS_CardinalityType
<1> QED
  BY <1>3, <1>4, <1>5 DEF UpdatedCount

LEMMA IInvInit == Init => IInv
BY BaseAssumption DEF Init, IInv, Sound, Row

LEMMA SoundLater ==
    ASSUME NEW rows, NEW n \in Nat, Sound(rows, n) PROVE Sound(rows, n + 1)
<1>1. \A row \in rows : row.id[1] \in Nat
  BY DEF Sound, Row
<1> QED
  BY <1>1 DEF Sound

LEMMA BatchRead ==
    ASSUME feed \in Feed, NEW batch \in Batch[feed] PROVE batch \in Seq(BatchRow)
<1>1. Batch[feed] \in SUBSET Seq(BatchRow)
  BY BatchAssumption
<1> QED
  BY <1>1

LEMMA UpsertStep ==
    ASSUME IInv, NEW batch \in Batch[feed], Upsert(batch)
    PROVE  /\ IInv'
           /\ Cardinality(table') = Cardinality(table) + last'.inserted
           /\ last'.inserted + last'.updated + last'.rejected = Len(batch)
           /\ last'.batch = batch
           /\ \E pick \in Picks(table, batch) : Updated(table, batch, pick) \subseteq table'
<1> DEFINE in == Cardinality(Accepted(table, batch))
           hit == UpdatedCount(table, batch)
<1>1. /\ count' = count + 1 /\ count \in Nat /\ Sound(table, count) /\ batch \in Seq(BatchRow)
      /\ feed' = feed /\ feed \in Feed
  BY BatchRead DEF Upsert, Deliver, IInv
<1>2. PICK pick \in Picks(table, batch) :
          table' = Updated(table, batch, pick) \cup Inserted(table, batch, count + 1)
  BY <1>1 DEF Upsert
<1>3. /\ Sound(table', count + 1)
      /\ Cardinality(table') = Cardinality(table) + Cardinality(Missing(table, batch))
  BY <1>1, <1>2, UpsertedTable
<1>4. /\ in \in Nat /\ hit \in Nat
      /\ Cardinality(Missing(table, batch)) = in - hit
  BY <1>1, AcceptedCount
<1>5. /\ last'.batch = batch
      /\ last'.inserted = in - hit
      /\ last'.updated = hit
      /\ last'.rejected = Len(batch) - in
  BY DEF Upsert, Result, NoResult
<1>6. Len(batch) \in Nat
  BY <1>1
<1> HIDE DEF in, hit
<1>7. last'.inserted + last'.updated + last'.rejected = Len(batch)
  BY <1>4, <1>5, <1>6
<1>8. IInv'
  BY <1>1, <1>3 DEF IInv
<1> QED
  BY <1>2, <1>3, <1>4, <1>5, <1>7, <1>8

LEMMA UpsertBreaksStep ==
    ASSUME IInv, NEW batch \in Batch[feed], UpsertBreaks(batch)
    PROVE  /\ IInv'
           /\ last'.outcome = "failed"
           /\ \E pick \in Picks(table, batch) : table' = Updated(table, batch, pick)
<1>1. /\ count' = count + 1 /\ count \in Nat /\ Sound(table, count) /\ batch \in Seq(BatchRow)
      /\ feed' = feed /\ feed \in Feed
  BY BatchRead DEF UpsertBreaks, Deliver, IInv
<1>2. PICK pick \in Picks(table, batch) : table' = Updated(table, batch, pick)
  BY DEF UpsertBreaks
<1>3. Sound(table', count + 1)
  BY <1>1, <1>2, UpdatedTable, SoundLater
<1>4. last'.outcome = "failed"
  BY DEF UpsertBreaks, Result, NoResult
<1> QED
  BY <1>1, <1>2, <1>3, <1>4 DEF IInv

LEMMA AppendStep ==
    ASSUME IInv, NEW batch \in Batch[feed], AppendRows(batch)
    PROVE  /\ IInv'
           /\ Cardinality(table') = Cardinality(table) + last'.inserted
           /\ last'.inserted + last'.updated + last'.rejected = Len(batch)
           /\ last'.batch = batch
           /\ table \subseteq table'
<1>1. /\ count' = count + 1 /\ count \in Nat /\ Sound(table, count) /\ batch \in Seq(BatchRow)
      /\ feed' = feed /\ feed \in Feed
  BY BatchRead DEF AppendRows, Deliver, IInv
<1>2. table' = table \cup {NewRow(batch[i], count + 1, i) : i \in DOMAIN batch}
  BY <1>1 DEF AppendRows
<1>3. DOMAIN batch = 1 .. Len(batch) /\ Len(batch) \in Nat
  BY <1>1
<1>4. Cardinality(DOMAIN batch) = Len(batch)
  <2>1. Cardinality(1 .. Len(batch)) = IF 1 > Len(batch) THEN 0 ELSE Len(batch) - 1 + 1
    BY <1>3, FS_Interval
  <2> QED
    BY <1>3, <2>1
<1>5. Sound(table', count + 1) /\ Cardinality(table') = Cardinality(table) + Len(batch)
  <2>1. DOMAIN batch \in SUBSET DOMAIN batch
    OBVIOUS
  <2> DEFINE new == {NewRow(batch[i], count + 1, i) : i \in DOMAIN batch}
  <2>2. /\ Sound(table \cup new, count + 1)
        /\ Cardinality(table \cup new) = Cardinality(table) + Cardinality(DOMAIN batch)
    BY <1>1, <2>1, InsertedTable
  <2> QED
    BY <1>2, <1>4, <2>2
<1>6. /\ last'.batch = batch /\ last'.inserted = Len(batch)
      /\ last'.updated = 0 /\ last'.rejected = 0
  BY DEF AppendRows, Result, NoResult
<1> QED
  BY <1>1, <1>2, <1>3, <1>5, <1>6 DEF IInv

(* The deliveries that leave the table alone. *)
LEMMA NothingStep ==
    ASSUME IInv, UpsertNothing \/ (\E batch \in Batch[feed] : Refuse(batch)) \/ UNCHANGED vars
    PROVE  IInv' /\ UNCHANGED table
<1>1. feed \in Feed /\ count \in Nat /\ Sound(table, count)
  BY DEF IInv
<1>2. UNCHANGED <<feed, table>> /\ count' \in {count, count + 1}
  BY DEF UpsertNothing, Refuse, Deliver, vars
<1> QED
  BY <1>1, <1>2, SoundLater DEF IInv

LEMMA IInvStep == IInv /\ [Next]_vars => IInv'
BY UpsertStep, UpsertBreaksStep, AppendStep, NothingStep DEF Next

(* No other part touches the table of CsvUpsert. *)
LEMMA TableAlone == AnalyticsSpec => Spec
<1>1. AnalyticsInit => Init
  BY DEF AnalyticsInit
<1>2. [AnalyticsNext]_all => [Next]_vars
  BY DEF AnalyticsNext, all
<1> QED
  BY <1>1, <1>2, PTL DEF AnalyticsSpec, Spec

LEMMA IInvariant == Spec => []IInv
BY IInvInit, IInvStep, PTL DEF Spec

(* Whatever a batch repeats, omits or moves, the inserted rows of the result are
   those the table grew by, and every row of the batch is counted once. *)
THEOREM ResultAddsUpAlways == AnalyticsSpec => ResultAddsUp
<1> DEFINE AddsUp ==
        last'.outcome = "ok" /\ count' # count =>
            /\ Cardinality(table') = Cardinality(table) + last'.inserted
            /\ last'.inserted + last'.updated + last'.rejected = Len(last'.batch)
<1>1. ASSUME IInv, Next PROVE AddsUp
  <2>1. CASE UpsertNothing
    <3>1. /\ last'.batch = <<>> /\ last'.inserted = 0
          /\ last'.updated = 0 /\ last'.rejected = 0
      BY <2>1 DEF UpsertNothing, Result, NoResult
    <3>2. table' = table /\ Cardinality(table) \in Nat
      BY <1>1, <2>1, FS_CardinalityType DEF UpsertNothing, IInv, Sound
    <3> QED
      BY <3>1, <3>2
  <2>2. ASSUME NEW batch \in Batch[feed], Refuse(batch) PROVE AddsUp
    BY <2>2 DEF Refuse, Result, NoResult
  <2>3. ASSUME NEW batch \in Batch[feed], Upsert(batch) PROVE AddsUp
    BY <1>1, <2>3, UpsertStep
  <2>4. ASSUME NEW batch \in Batch[feed], UpsertBreaks(batch) PROVE AddsUp
    BY <1>1, <2>4, UpsertBreaksStep
  <2>5. ASSUME NEW batch \in Batch[feed], AppendRows(batch) PROVE AddsUp
    BY <1>1, <2>5, AppendStep
  <2> HIDE DEF AddsUp
  <2> QED
    BY <1>1, <2>1, <2>2, <2>3, <2>4, <2>5 DEF Next
<1>2. IInv /\ [Next]_vars => [AddsUp]_vars
  <2> HIDE DEF AddsUp
  <2> QED
    BY <1>1
<1> QED
  BY <1>2, IInvariant, TableAlone, PTL DEF Spec, ResultAddsUp

(* A table all whose rows are still there under their key and identity has a
   key if the later one has. *)
LEMMA KeyWasThere ==
    ASSUME NEW rows, NEW n \in Nat, Sound(rows, n), NEW later, NEW m \in Nat, Sound(later, m),
           \A row \in rows : \E new \in later : new.key = row.key /\ new.id = row.id,
           KeysDetected(later)
    PROVE  KeysDetected(rows)
<1>1. KeyedRows(later) /\ \A row \in later : row.key # Null
  BY DetectedKeys DEF Sound
<1>2. KeyedRows(rows) /\ \A row \in rows : row.key # Null
  BY <1>1 DEF KeyedRows, Sound
<1> QED
  BY <1>2, DetectedKeys DEF Sound

(* No delivery, not even one that breaks, removes a duplicate or a NULL from the
   key column: upserts that have to detect the key fail for ever after. *)
THEOREM KeyLostForGoodAlways == AnalyticsSpec => KeyLostForGood
<1>1. ASSUME IInv, [Next]_vars PROVE ~KeysDetected(table) => ~KeysDetected(table')
  <2>1. IInv'
    BY <1>1, IInvStep
  <2>2. \A row \in table : \E new \in table' : new.key = row.key /\ new.id = row.id
    <3>1. ASSUME NEW batch \in Batch[feed], Upsert(batch) \/ UpsertBreaks(batch)
          PROVE  \A row \in table : \E new \in table' : new.key = row.key /\ new.id = row.id
      <4>1. PICK pick \in Picks(table, batch) : Updated(table, batch, pick) \subseteq table'
        BY <1>1, <3>1, UpsertStep, UpsertBreaksStep
      <4> QED
        BY <1>1, <4>1, BatchRead, UpdatedTable DEF IInv
    <3>2. ASSUME NEW batch \in Batch[feed], AppendRows(batch) PROVE table \subseteq table'
      BY <1>1, <3>2, AppendStep
    <3>3. ASSUME UpsertNothing \/ (\E batch \in Batch[feed] : Refuse(batch)) \/ UNCHANGED vars
          PROVE  table' = table
      BY <1>1, <3>3, NothingStep
    <3> QED
      BY <1>1, <3>1, <3>2, <3>3 DEF Next
  <2> QED
    BY <1>1, <2>1, <2>2, KeyWasThere DEF IInv
<1>2. IInv /\ [Next]_vars => [~KeysDetected(table) => ~KeysDetected(table')]_vars
  BY <1>1
<1> QED
  BY <1>2, IInvariant, TableAlone, PTL DEF Spec, KeyLostForGood

------------------------------------------------------------------------------
(* The newest time of a table, and what a merge makes of it. *)
LEMMA MaxTimeIs ==
    ASSUME NEW rows \in SUBSET Row, IsFiniteSet(rows)
    PROVE  /\ rows = {} => MaxTime(rows) = NoTime
           /\ rows # {} => /\ MaxTime(rows) \in Nat
                           /\ \E row \in rows : row.time = MaxTime(rows)
                           /\ \A row \in rows : row.time <= MaxTime(rows)
           /\ MaxTime(rows) \in Int
<1>1. CASE rows = {}
  BY <1>1 DEF MaxTime, NoTime
<1>2. CASE rows # {}
  <2> DEFINE times == {row.time : row \in rows}
  <2>1. times \subseteq Nat /\ times # {}
    BY <1>2 DEF Row
  <2>2. IsFiniteSet(times)
    <3> DEFINE f == [row \in rows |-> row.time]
    <3>1. f \in Surjection(rows, times)
      BY DEF Surjection
    <3> HIDE DEF f, times
    <3> QED
      BY <3>1, FS_Surjection
  <2> HIDE DEF times
  <2>3. PICK m \in times : \A y \in times : y <= m
    <3>1. times \subseteq Int
      BY <2>1
    <3> QED
      BY <2>1, <2>2, <3>1, FiniteMax
  <2>4. Max(times) \in times /\ \A y \in times : y <= Max(times)
    <3> DEFINE P(x) == \A y \in times : x >= y
    <3>1. P(m)
      BY <2>1, <2>3
    <3>2. Max(times) = CHOOSE x \in times : P(x)
      BY DEF Max
    <3> HIDE DEF P
    <3>3. Max(times) \in times /\ P(Max(times))
      BY <2>3, <3>1, <3>2
    <3> QED
      BY <2>1, <3>3 DEF P
  <2>5. MaxTime(rows) = Max(times)
    BY <1>2 DEF MaxTime, times
  <2>6. MaxTime(rows) \in Nat
    BY <2>1, <2>4, <2>5
  <2>7. \A row \in rows : row.time \in times
    BY DEF times
  <2>8. \A y \in times : \E row \in rows : row.time = y
    BY DEF times
  <2>9. MaxTime(rows) \in Int
    BY <2>6
  <2> QED
    BY <1>2, <2>4, <2>5, <2>6, <2>7, <2>8, <2>9
<1> QED
  BY <1>1, <1>2

(* Rejected rows are rows of the batch. *)
LEMMA AcceptedAtMost ==
    ASSUME NEW rows, NEW batch \in Seq(BatchRow)
    PROVE  /\ Cardinality(Accepted(rows, batch)) \in Nat
           /\ Cardinality(Accepted(rows, batch)) <= Len(batch)
<1>1. DOMAIN batch = 1 .. Len(batch) /\ Len(batch) \in Nat
  OBVIOUS
<1>2. Accepted(rows, batch) \subseteq 1 .. Len(batch)
  BY <1>1 DEF Accepted
<1>3. IsFiniteSet(1 .. Len(batch)) /\ Cardinality(1 .. Len(batch)) = Len(batch)
  <2>1. Cardinality(1 .. Len(batch)) = IF 1 > Len(batch) THEN 0 ELSE Len(batch) - 1 + 1
    BY <1>1, FS_Interval
  <2> QED
    BY <1>1, <2>1, FS_Interval
<1>4. /\ Cardinality(Accepted(rows, batch)) <= Cardinality(1 .. Len(batch))
      /\ IsFiniteSet(Accepted(rows, batch))
  BY <1>2, <1>3, FS_Subset
<1> QED
  BY <1>3, <1>4, FS_CardinalityType

(* What is recorded of the deliveries, besides the rows. *)
Recorded ==
    /\ watermark \in Nat \cup {NoTime}
    /\ applied \subseteq Batch[feed]
    /\ last.outcome \in {"none", "ok", "failed", "refused"}
    /\ last.inserted \in Nat /\ last.updated \in Nat /\ last.rejected \in Nat
    /\ count \in 0 .. MaxBatches

LEMMA RecordedInit == Init => Recorded
BY BoundAssumption DEF Init, Recorded, NoResult

LEMMA RecordedStep == IInv /\ Recorded /\ [Next]_vars => Recorded'
<1> SUFFICES ASSUME IInv, Recorded, [Next]_vars PROVE Recorded'
  OBVIOUS
<1>1. /\ count \in Nat /\ MaxBatches \in Nat /\ table \in SUBSET Row /\ IsFiniteSet(table)
      /\ count <= MaxBatches
  BY BoundAssumption DEF IInv, Sound, Recorded
<1>2. KnownWatermark \in Nat \cup {NoTime}
  BY <1>1, MaxTimeIs DEF KnownWatermark, Recorded, NoTime
<1>3. ASSUME NEW batch, NEW mode, Deliver(batch, mode)
      PROVE  count' \in 0 .. MaxBatches /\ feed' = feed
  BY <1>1, <1>3 DEF Deliver
<1>4. CASE UpsertNothing
  BY <1>2, <1>3, <1>4 DEF UpsertNothing, Recorded, Result, NoResult
<1>5. ASSUME NEW batch \in Batch[feed], Refuse(batch) PROVE Recorded'
  BY <1>3, <1>5 DEF Refuse, Recorded, Result, NoResult
<1>6. ASSUME NEW batch \in Batch[feed], Upsert(batch) PROVE Recorded'
  <2> DEFINE in == Cardinality(Accepted(table, batch))
             hit == UpdatedCount(table, batch)
  <2>1. batch \in Seq(BatchRow)
    BY BatchRead DEF IInv
  <2>2. IInv'
    BY <1>6, UpsertStep
  <2>3. watermark' \in Nat \cup {NoTime}
    <3>1. watermark' = MaxTime(table')
      BY <1>6 DEF Upsert, NextWatermark
    <3>2. table' \in SUBSET Row /\ IsFiniteSet(table')
      BY <2>2 DEF IInv, Sound
    <3> QED
      BY <3>1, <3>2, MaxTimeIs
  <2>4. /\ in \in Nat /\ hit \in Nat /\ in - hit \in Nat
        /\ Len(batch) - in \in Nat
    <3>1. in \in Nat /\ hit \in Nat /\ Cardinality(Missing(table, batch)) = in - hit
      BY <2>1, AcceptedCount
    <3>2. IsFiniteSet(Missing(table, batch))
      <4>1. Missing(table, batch) \subseteq 1 .. Len(batch) /\ Len(batch) \in Nat
        BY <2>1 DEF Missing, Accepted
      <4>2. IsFiniteSet(1 .. Len(batch))
        BY <4>1, FS_Interval
      <4> QED
        BY <4>1, <4>2, FS_Subset
    <3>3. Len(batch) - in \in Nat
      <4>1. in \in Nat /\ in <= Len(batch) /\ Len(batch) \in Nat
        BY <2>1, AcceptedAtMost
      <4> HIDE DEF in
      <4> QED
        BY <4>1
    <3> HIDE DEF in, hit
    <3> QED
      BY <3>1, <3>2, <3>3, FS_CardinalityType
  <2>5. /\ last'.outcome = "ok" /\ last'.inserted = in - hit
        /\ last'.updated = hit /\ last'.rejected = Len(batch) - in
    BY <1>6 DEF Upsert, Result, NoResult
  <2> HIDE DEF in, hit
  <2>6. applied' \subseteq Batch[feed] /\ Deliver(batch, "upsert")
    BY <1>6 DEF Upsert, Recorded
  <2> QED
    BY <1>3, <2>3, <2>4, <2>5, <2>6 DEF Recorded
<1>7. ASSUME NEW batch \in Batch[feed], UpsertBreaks(batch) PROVE Recorded'
  BY <1>2, <1>3, <1>7 DEF UpsertBreaks, Recorded, Result, NoResult
<1>8. ASSUME NEW batch \in Batch[feed], AppendRows(batch) PROVE Recorded'
  <2>1. Len(batch) \in Nat
    BY BatchRead DEF IInv
  <2> QED
    BY <1>3, <1>8, <2>1 DEF AppendRows, Recorded, Result, NoResult
<1>9. CASE UNCHANGED vars
  BY <1>9 DEF vars, Recorded
<1> QED
  BY <1>4, <1>5, <1>6, <1>7, <1>8, <1>9 DEF Next

(* A keyed feed keeps the key unique. *)
LEMMA KeysUniqueInit == Init => KeysUnique
BY DEF Init, KeysUnique, KeyedFeed

LEMMA KeysUniqueStep == IInv /\ KeysUnique /\ [Next]_vars => KeysUnique'
<1>1. ASSUME IInv, KeysUnique, KeyedFeed, [Next]_vars PROVE KeyedRows(table')
  <2>1. table \in SUBSET Row /\ count \in Nat /\ KeyedRows(table)
    BY <1>1 DEF IInv, Sound, KeysUnique
  <2>2. ASSUME NEW batch \in Batch[feed], Upsert(batch) PROVE KeyedRows(table')
    <3>1. count' = count + 1
      BY <2>2 DEF Upsert, Deliver
    <3>2. PICK pick \in Picks(table, batch) :
              table' = Updated(table, batch, pick) \cup Inserted(table, batch, count')
      BY <2>2 DEF Upsert
    <3>3. batch \in Seq(BatchRow) /\ KeyedBatch(batch)
      BY <1>1, BatchRead DEF IInv, KeyedFeed
    <3> QED
      BY <2>1, <3>1, <3>2, <3>3, MergeKeepsKeys
  <2>3. ASSUME NEW batch \in Batch[feed], UpsertBreaks(batch) PROVE KeyedRows(table')
    <3>1. PICK pick \in Picks(table, batch) : table' = Updated(table, batch, pick)
      BY <2>3 DEF UpsertBreaks
    <3>2. batch \in Seq(BatchRow)
      BY <1>1, BatchRead DEF IInv
    <3> QED
      BY <2>1, <3>1, <3>2, UpdatedKeepsKeys
  <2>4. ASSUME NEW batch \in Batch[feed] PROVE ~AppendRows(batch)
    BY <1>1 DEF AppendRows, Deliver, KeyedFeed
  <2>5. ASSUME UpsertNothing \/ (\E batch \in Batch[feed] : Refuse(batch)) \/ UNCHANGED vars
        PROVE  KeyedRows(table')
    BY <1>1, <2>1, <2>5, NothingStep
  <2> QED
    BY <1>1, <2>2, <2>3, <2>4, <2>5 DEF Next
<1>2. IInv /\ [Next]_vars => feed' = feed
  BY DEF IInv, Next, vars, Deliver, UpsertNothing, Refuse, Upsert, UpsertBreaks, AppendRows
<1>3. IInv /\ [Next]_vars => (KeyedFeed' <=> KeyedFeed)
  BY <1>2 DEF KeyedFeed
<1>4. KeyedRows(table)' <=> KeyedRows(table')
  BY DEF KeyedRows
<1> QED
  BY <1>1, <1>3, <1>4 DEF KeysUnique

(* Every variable has its type; no two rows share an id; and from a feed whose
   batches have keys of their own no delivery, late, repeated or broken in the
   middle, makes two rows with one key. *)
THEOREM FeedKeysUniqueAlways == AnalyticsSpec => []FeedKeysUnique
<1> DEFINE J == IInv /\ Recorded /\ KeysUnique
<1>1. Init => J
  BY IInvInit, RecordedInit, KeysUniqueInit
<1>2. J /\ [Next]_vars => J'
  BY IInvStep, RecordedStep, KeysUniqueStep
<1>3. J => FeedKeysUnique
  BY DEF IInv, Sound, Recorded, FeedKeysUnique, TypeOK
<1> QED
  BY <1>1, <1>2, <1>3, TableAlone, PTL DEF Spec

------------------------------------------------------------------------------
(* Feeds of events. *)

(* Every row of the earlier table is still there under its key and its time. *)
Covers(rows, later) ==
    \A row \in rows : \E new \in later : new.key = row.key /\ new.time = row.time

(* A batch that can add nothing: each of its keys is there, or too late for good. *)
Settled(rows, batch) ==
    \A i \in DOMAIN batch :
        HasKey(rows, batch[i].key) \/ (rows # {} /\ batch[i].time < Cutoff(rows))

(* The batches of the feed agree with each other on the time of each key. *)
Agreeing(batches) ==
    \A batch \in batches : /\ KeyedBatch(batch)
                           /\ \A other \in batches : \A i \in DOMAIN other : SameTime(other[i], batch)

Timed(rows, batches) == \A row \in rows, batch \in batches : SameTime(row, batch)

LEMMA CutoffIs ==
    \E w \in Int : /\ w = (LateWindow \div Day) * Day
                   /\ \A rows : Cutoff(rows) = MaxTime(rows) - w
<1>1. (LateWindow \div Day) \in Int /\ Day \in Int
  BY WindowAssumption
<1>2. (LateWindow \div Day) * Day \in Int
  BY <1>1
<1> QED
  BY <1>2 DEF Cutoff

LEMMA CoversMax ==
    ASSUME NEW rows \in SUBSET Row, IsFiniteSet(rows), rows # {},
           NEW later \in SUBSET Row, IsFiniteSet(later), Covers(rows, later)
    PROVE  /\ MaxTime(rows) <= MaxTime(later) /\ later # {}
           /\ Cutoff(rows) <= Cutoff(later) /\ Cutoff(rows) \in Int /\ Cutoff(later) \in Int
<1>1. PICK row \in rows : row.time = MaxTime(rows)
  BY MaxTimeIs
<1>2. PICK new \in later : new.time = row.time
  BY <1>1 DEF Covers
<1>3. later # {} /\ new.time <= MaxTime(later)
  BY <1>2, MaxTimeIs
<1>4. MaxTime(rows) \in Int /\ MaxTime(later) \in Int
  BY MaxTimeIs
<1>5. MaxTime(rows) <= MaxTime(later)
  BY <1>1, <1>2, <1>3, <1>4
<1>6. PICK w \in Int : \A r : Cutoff(r) = MaxTime(r) - w
  BY CutoffIs
<1>7. Cutoff(rows) = MaxTime(rows) - w /\ Cutoff(later) = MaxTime(later) - w
  BY <1>6
<1> QED
  BY <1>3, <1>4, <1>5, <1>7

(* Once a batch can add nothing, it never can again. *)
LEMMA SettledStays ==
    ASSUME NEW rows \in SUBSET Row, IsFiniteSet(rows),
           NEW later \in SUBSET Row, IsFiniteSet(later), Covers(rows, later),
           NEW batch \in Seq(BatchRow), Settled(rows, batch)
    PROVE  Settled(later, batch)
<1> SUFFICES ASSUME NEW i \in DOMAIN batch
             PROVE  HasKey(later, batch[i].key)
                    \/ (later # {} /\ batch[i].time < Cutoff(later))
  BY DEF Settled
<1>1. CASE HasKey(rows, batch[i].key)
  BY <1>1 DEF HasKey, Covers
<1>2. CASE rows # {} /\ batch[i].time < Cutoff(rows)
  <2>1. batch[i] \in BatchRow
    BY BatchRows
  <2>2. batch[i].time \in Int
    BY <2>1 DEF BatchRow
  <2>3. later # {} /\ Cutoff(rows) <= Cutoff(later) /\ Cutoff(rows) \in Int /\ Cutoff(later) \in Int
    BY <1>2, CoversMax
  <2> QED
    BY <1>2, <2>2, <2>3
<1> QED
  BY <1>1, <1>2 DEF Settled

LEMMA SettledAddsNothing ==
    ASSUME NEW rows, NEW batch, Settled(rows, batch)
    PROVE  Missing(rows, batch) = {}
BY DEF Settled, Missing, Accepted, TooLate

(* UPDATE moves no event. *)
LEMMA UpdatedCovers ==
    ASSUME NEW rows, NEW n \in Nat, Sound(rows, n), NEW batch \in Seq(BatchRow),
           NEW pick \in Picks(rows, batch), \A row \in rows : SameTime(row, batch)
    PROVE  /\ \A row \in rows : NewVersion(rows, batch, pick, row).time = row.time
           /\ Covers(rows, Updated(rows, batch, pick))
           /\ Covers(Updated(rows, batch, pick), rows)
<1> DEFINE V(row) == NewVersion(rows, batch, pick, row)
<1>1. ASSUME NEW row \in rows
      PROVE  V(row).time = row.time /\ V(row).key = row.key
  <2>1. V(row).key = row.key
    BY UpdatedRow DEF Sound
  <2>2. CASE Matches(rows, batch, row) = {}
    BY <2>1, <2>2 DEF NewVersion
  <2>3. CASE Matches(rows, batch, row) # {}
    <3> DEFINE i == pick[row.id]
    <3>1. i \in Matches(rows, batch, row)
      BY <2>3 DEF Picks
    <3>2. i \in DOMAIN batch /\ batch[i].key = row.key
      BY <3>1 DEF Matches, Accepted
    <3>3. batch[i].time = row.time
      BY <3>2 DEF SameTime
    <3>4. V(row) = [row EXCEPT !.time = batch[i].time, !.value = batch[i].value]
      BY <2>3 DEF NewVersion
    <3>5. row \in Row
      BY DEF Sound
    <3> HIDE DEF i, V
    <3>6. V(row).time = batch[i].time
      BY <3>4, <3>5 DEF Row
    <3> QED
      BY <2>1, <3>3, <3>6
  <2> QED
    BY <2>2, <2>3
<1>2. Updated(rows, batch, pick) = {V(row) : row \in rows}
  BY UpdatedRows
<1> HIDE DEF V
<1>3. Covers(rows, Updated(rows, batch, pick)) /\ Covers(Updated(rows, batch, pick), rows)
  BY <1>1, <1>2 DEF Covers
<1> QED
  BY <1>1, <1>3 DEF V

(* Tables with the same keys and times accept the same rows of a batch. *)
LEMMA SameAccepted ==
    ASSUME NEW rows \in SUBSET Row, IsFiniteSet(rows),
           NEW later \in SUBSET Row, IsFiniteSet(later),
           Covers(rows, later), Covers(later, rows), NEW batch \in Seq(BatchRow)
    PROVE  /\ Accepted(later, batch) = Accepted(rows, batch)
           /\ Missing(later, batch) = Missing(rows, batch)
<1>1. \A key : HasKey(later, key) <=> HasKey(rows, key)
  BY DEF HasKey, Covers
<1>2. rows = {} <=> later = {}
  BY DEF Covers
<1>3. rows # {} => Cutoff(later) = Cutoff(rows)
  <2>1. ASSUME rows # {} PROVE Cutoff(later) = Cutoff(rows)
    <3>1. Cutoff(rows) <= Cutoff(later) /\ Cutoff(rows) \in Int /\ Cutoff(later) \in Int
      BY <2>1, CoversMax
    <3>2. Cutoff(later) <= Cutoff(rows)
      BY <1>2, <2>1, CoversMax
    <3> QED
      BY <3>1, <3>2
  <2> QED
    BY <2>1
<1>4. \A row : TooLate(later, row) <=> TooLate(rows, row)
  BY <1>1, <1>2, <1>3 DEF TooLate
<1> QED
  BY <1>1, <1>4 DEF Accepted, Missing

(* After a merge each row of the batch is there or was too late. *)
LEMMA MergeSettles ==
    ASSUME NEW rows, NEW n \in Nat, Sound(rows, n), NEW batch \in Seq(BatchRow),
           KeyedBatch(batch), NEW pick \in Picks(rows, batch),
           \A row \in rows : SameTime(row, batch)
    PROVE  LET later == Updated(rows, batch, pick) \cup Inserted(rows, batch, n + 1)
           IN  /\ Covers(rows, later)
               /\ Settled(later, batch)
               /\ \A i \in Accepted(rows, batch) : HasKey(later, batch[i].key)
<1> DEFINE U == Updated(rows, batch, pick)
           new == Inserted(rows, batch, n + 1)
<1>1. Covers(rows, U)
  BY UpdatedCovers
<1> HIDE DEF U
<1>2. Covers(rows, U \cup new)
  BY <1>1 DEF Covers
<1>3. Sound(U \cup new, n + 1)
  BY UpsertedTable DEF U
<1>4. ASSUME NEW i \in Accepted(rows, batch) PROVE HasKey(U \cup new, batch[i].key)
  <2>1. i \in DOMAIN batch /\ batch[i].key # Null
    BY DEF Accepted, KeyedBatch
  <2>2. CASE HasKey(rows, batch[i].key)
    BY <1>2, <2>1, <2>2 DEF HasKey, Covers
  <2>3. CASE ~HasKey(rows, batch[i].key)
    <3>1. NewRow(batch[i], n + 1, i) \in new
      BY <2>3 DEF Inserted
    <3>2. NewRow(batch[i], n + 1, i).key = batch[i].key
      BY DEF NewRow
    <3> HIDE DEF new
    <3> QED
      BY <2>1, <3>1, <3>2 DEF HasKey
  <2> QED
    BY <2>2, <2>3
<1> HIDE DEF new
<1>5. ASSUME NEW i \in DOMAIN batch, i \notin Accepted(rows, batch)
      PROVE  U \cup new # {} /\ batch[i].time < Cutoff(U \cup new)
  <2>1. rows # {} /\ batch[i].time < Cutoff(rows)
    BY <1>5 DEF Accepted, TooLate
  <2>2. batch[i] \in BatchRow
    BY BatchRows
  <2>3. batch[i].time \in Int
    BY <2>2 DEF BatchRow
  <2>4. /\ U \cup new # {} /\ Cutoff(rows) <= Cutoff(U \cup new)
        /\ Cutoff(rows) \in Int /\ Cutoff(U \cup new) \in Int
    BY <1>2, <1>3, <2>1, CoversMax DEF Sound
  <2> QED
    BY <2>1, <2>3, <2>4
<1>6. Settled(U \cup new, batch)
  BY <1>4, <1>5 DEF Settled
<1> QED
  BY <1>2, <1>4, <1>6 DEF U, new

(* The rows of an updated or merged table agree with the batches. *)
LEMMA UpdatedTimed ==
    ASSUME NEW rows, NEW n \in Nat, Sound(rows, n), NEW batches \in SUBSET Seq(BatchRow),
           NEW batch \in batches, NEW pick \in Picks(rows, batch), Timed(rows, batches)
    PROVE  Timed(Updated(rows, batch, pick), batches)
<1>1. \A row \in rows : SameTime(row, batch)
  BY DEF Timed
<1>2. Covers(Updated(rows, batch, pick), rows)
  BY <1>1, UpdatedCovers
<1> QED
  BY <1>2 DEF Timed, SameTime, Covers

LEMMA MergedTimed ==
    ASSUME NEW rows, NEW n \in Nat, Sound(rows, n), NEW batches \in SUBSET Seq(BatchRow),
           NEW batch \in batches, NEW pick \in Picks(rows, batch), Timed(rows, batches),
           Agreeing(batches)
    PROVE  Timed(Updated(rows, batch, pick) \cup Inserted(rows, batch, n + 1), batches)
<1>1. Timed(Updated(rows, batch, pick), batches)
  BY UpdatedTimed
<1>2. ASSUME NEW new \in Inserted(rows, batch, n + 1), NEW other \in batches
      PROVE  SameTime(new, other)
  <2>1. PICK i \in DOMAIN batch : new = NewRow(batch[i], n + 1, i)
    BY InsertedRow
  <2>2. new.key = batch[i].key /\ new.time = batch[i].time
    BY <2>1 DEF NewRow
  <2>3. SameTime(batch[i], other)
    BY DEF Agreeing
  <2> QED
    BY <2>2, <2>3 DEF SameTime
<1> QED
  BY <1>1, <1>2 DEF Timed

(* A second UPDATE with the same keyed batch changes nothing. *)
LEMMA UpdatedTwice ==
    ASSUME NEW rows, NEW n \in Nat, Sound(rows, n), NEW batch \in Seq(BatchRow),
           KeyedBatch(batch), \A row \in rows : SameTime(row, batch),
           NEW pick \in Picks(rows, batch),
           NEW again \in Picks(Updated(rows, batch, pick), batch)
    PROVE  Updated(Updated(rows, batch, pick), batch, again) = Updated(rows, batch, pick)
<1> DEFINE V(row) == NewVersion(rows, batch, pick, row)
           U == Updated(rows, batch, pick)
           W(row) == NewVersion(U, batch, again, row)
<1>1. U = {V(row) : row \in rows} /\ Updated(U, batch, again) = {W(row) : row \in U}
  BY UpdatedRows
<1>2. Sound(U, n) /\ Covers(rows, U) /\ Covers(U, rows)
  BY UpdatedTable, UpdatedCovers
<1>3. Accepted(U, batch) = Accepted(rows, batch)
  BY <1>2, SameAccepted DEF Sound
<1>4. ASSUME NEW row \in rows PROVE W(V(row)) = V(row)
  <2> DEFINE i == pick[row.id]
             new == V(row)
             j == again[new.id]
  <2>1. row \in Row /\ new \in Row /\ new.key = row.key /\ new.id = row.id /\ new \in U
    BY <1>1, UpdatedRow DEF Sound
  <2>2. CASE Matches(U, batch, new) = {}
    BY <2>2 DEF NewVersion
  <2>3. CASE Matches(U, batch, new) # {}
    <3>1. j \in Matches(U, batch, new)
      BY <2>1, <2>3 DEF Picks
    <3>2. j \in Matches(rows, batch, row)
      BY <1>3, <2>1, <3>1 DEF Matches
    <3>3. i \in Matches(rows, batch, row)
      BY <3>2 DEF Picks
    <3>4. i = j
      BY <3>2, <3>3 DEF Matches, Accepted, KeyedBatch
    <3>5. new = [row EXCEPT !.time = batch[i].time, !.value = batch[i].value]
      BY <3>2 DEF NewVersion
    <3>6. W(new) = [new EXCEPT !.time = batch[j].time, !.value = batch[j].value]
      BY <2>3 DEF NewVersion
    <3> HIDE DEF i, j, new, W
    <3>7. new.time = batch[i].time /\ new.value = batch[i].value
      BY <2>1, <3>5 DEF Row
    <3>8. W(new) = new
      BY <2>1, <3>4, <3>6, <3>7 DEF Row
    <3> QED
      BY <3>8 DEF new
  <2> QED
    BY <2>2, <2>3
<1> HIDE DEF V, W
<1>5. \A row \in U : W(row) = row
  BY <1>1, <1>4
<1>6. {W(row) : row \in U} = U
  BY <1>5
<1> QED
  BY <1>1, <1>6

ContentsAt(batch, I) ==
    {[key |-> batch[i].key, time |-> batch[i].time, value |-> batch[i].value] : i \in I}

(* What is inserted does not depend on the number of the delivery. *)
LEMMA InsertedContents ==
    ASSUME NEW rows, NEW batch, NEW n, NEW both
    PROVE  Contents(both \cup Inserted(rows, batch, n))
             = Contents(both) \cup ContentsAt(batch, Missing(rows, batch))
<1> DEFINE C(row) == [key |-> row.key, time |-> row.time, value |-> row.value]
           R(i) == NewRow(batch[i], n, i)
           M == Missing(rows, batch)
           D(i) == [key |-> batch[i].key, time |-> batch[i].time, value |-> batch[i].value]
<1>1. Inserted(rows, batch, n) = {R(i) : i \in M}
  BY DEF Inserted, Missing
<1>2. \A i : C(R(i)) = D(i)
  BY DEF NewRow
<1>3. \A rs : Contents(rs) = {C(row) : row \in rs}
  BY DEF Contents
<1> HIDE DEF C, R, M, D
<1>4. {C(row) : row \in {R(i) : i \in M}} = {D(i) : i \in M}
  BY <1>2
<1>5. {C(row) : row \in both \cup {R(i) : i \in M}}
        = {C(row) : row \in both} \cup {C(row) : row \in {R(i) : i \in M}}
  OBVIOUS
<1>6. Contents(both \cup Inserted(rows, batch, n)) = Contents(both) \cup {D(i) : i \in M}
  BY <1>1, <1>3, <1>4, <1>5
<1> QED
  BY <1>6 DEF D, M, ContentsAt

(* A batch that broke and is merged now. *)
LEMMA RetriedMerge ==
    ASSUME NEW rows, NEW n \in Nat, Sound(rows, n), NEW batch \in Seq(BatchRow),
           KeyedBatch(batch), \A row \in rows : SameTime(row, batch),
           NEW pick \in Picks(rows, batch), NEW m,
           NEW again \in Picks(Updated(rows, batch, pick), batch)
    PROVE  LET U == Updated(rows, batch, pick)
           IN  Contents(Updated(U, batch, again) \cup Inserted(U, batch, m))
                 = Contents(U \cup Inserted(rows, batch, 0))
<1> DEFINE U == Updated(rows, batch, pick)
<1>1. Updated(U, batch, again) = U
  BY UpdatedTwice
<1>2. Sound(U, n) /\ Covers(rows, U) /\ Covers(U, rows)
  BY UpdatedTable, UpdatedCovers
<1>3. Missing(U, batch) = Missing(rows, batch)
  BY <1>2, SameAccepted DEF Sound
<1> HIDE DEF U
<1>4. Contents(U \cup Inserted(U, batch, m)) = Contents(U \cup Inserted(rows, batch, 0))
  <2>1. Contents(U \cup Inserted(U, batch, m))
          = Contents(U) \cup ContentsAt(batch, Missing(U, batch))
    BY InsertedContents, Zenon
  <2>2. Contents(U \cup Inserted(rows, batch, 0))
          = Contents(U) \cup ContentsAt(batch, Missing(rows, batch))
    BY InsertedContents, Zenon
  <2> QED
    BY <1>3, <2>1, <2>2
<1> QED
  BY <1>1, <1>4 DEF U

(* No row in the window is refused. *)
LEMMA WindowAccepted ==
    ASSUME NEW rows, NEW n \in Nat, Sound(rows, n), NEW batch \in Seq(BatchRow),
           NEW i \in DOMAIN batch, LateWindow = (LateWindow \div Day) * Day,
           batch[i].time >= MaxTime(rows) - LateWindow
    PROVE  i \in Accepted(rows, batch)
<1>1. PICK w \in Int : w = (LateWindow \div Day) * Day /\ \A r : Cutoff(r) = MaxTime(r) - w
  BY CutoffIs
<1>2. w = LateWindow /\ Cutoff(rows) = MaxTime(rows) - w
  BY <1>1
<1>3. batch[i] \in BatchRow
  BY BatchRows
<1>4. batch[i].time \in Int /\ MaxTime(rows) \in Int
  BY <1>3, MaxTimeIs DEF BatchRow, Sound
<1>5. ~(batch[i].time < Cutoff(rows))
  BY <1>2, <1>4
<1> QED
  BY <1>5 DEF Accepted, TooLate

------------------------------------------------------------------------------
(* The invariant of a feed of events: times agree, applied batches can add nothing,
   and after a delivery that broke the table is that of its UPDATE. *)
Broke ==
    last.outcome = "failed" =>
        /\ last.batch \in Batch[feed] /\ last.batch # <<>>
        /\ Sound(last.from, count) /\ Timed(last.from, Batch[feed])
        /\ \E pick \in Picks(last.from, last.batch) : table = Updated(last.from, last.batch, pick)

Merging ==
    /\ Timed(table, Batch[feed])
    /\ \A batch \in applied : Settled(table, batch)
    /\ Broke

LEMMA EventBatches ==
    ASSUME feed \in Feed, EventFeed
    PROVE  /\ Agreeing(Batch[feed]) /\ Batch[feed] \in SUBSET Seq(BatchRow)
           /\ Timed(Base, Batch[feed]) /\ Modes[feed] = {"upsert"}
           /\ LateWindow = (LateWindow \div Day) * Day
<1>1. Batch[feed] \in SUBSET Seq(BatchRow)
  BY BatchAssumption
<1> QED
  BY <1>1 DEF EventFeed, KeyedFeed, Agreeing, Timed

LEMMA MergingInit == Init /\ EventFeed => Merging
BY EventBatches DEF Init, Merging, Broke, NoResult

(* The facts of a delivery that merged. *)
LEMMA EventUpsert ==
    ASSUME IInv, Recorded, Merging, EventFeed, NEW batch \in Batch[feed], Upsert(batch)
    PROVE  /\ Merging'
           /\ \A i \in Accepted(table, batch) : HasKey(table', batch[i].key)
           /\ batch \in applied => Cardinality(table') = Cardinality(table)
           /\ RetryCompletes
           /\ last'.batch = batch /\ last'.outcome = "ok"
<1>1. /\ Agreeing(Batch[feed]) /\ Batch[feed] \in SUBSET Seq(BatchRow)
      /\ batch \in Seq(BatchRow) /\ KeyedBatch(batch)
      /\ feed \in Feed /\ count \in Nat /\ Sound(table, count)
      /\ \A row \in table : SameTime(row, batch)
  BY EventBatches DEF IInv, Agreeing, Merging, Timed
<1>2. /\ count' = count + 1 /\ feed' = feed /\ applied' = applied \cup {batch}
      /\ last'.batch = batch /\ last'.outcome = "ok"
  BY DEF Upsert, Deliver, Result, NoResult
<1>3. PICK pick \in Picks(table, batch) :
          table' = Updated(table, batch, pick) \cup Inserted(table, batch, count + 1)
  BY <1>2 DEF Upsert
<1>4. /\ Covers(table, table') /\ Settled(table', batch)
      /\ \A i \in Accepted(table, batch) : HasKey(table', batch[i].key)
  BY <1>1, <1>3, MergeSettles
<1>5. Timed(table', Batch[feed])
  BY <1>1, <1>3, MergedTimed DEF Merging
<1>6. /\ Sound(table', count + 1)
      /\ Cardinality(table') = Cardinality(table) + Cardinality(Missing(table, batch))
  BY <1>1, <1>3, UpsertedTable
<1>7. \A other \in applied' : Settled(table', other)
  <2>1. ASSUME NEW other \in applied PROVE Settled(table', other)
    <3>1. other \in Seq(BatchRow) /\ Settled(table, other)
      BY <1>1 DEF Recorded, Merging
    <3> QED
      BY <1>1, <1>4, <1>6, <3>1, SettledStays DEF Sound
  <2> QED
    BY <1>2, <1>4, <2>1
<1>8. Merging'
  <2>1. Broke'
    BY <1>2 DEF Broke
  <2>2. \A other \in applied' : Settled(table, other)'
    BY <1>7 DEF Settled
  <2>3. Timed(table, Batch[feed])'
    BY <1>2, <1>5 DEF Timed
  <2> QED
    BY <2>1, <2>2, <2>3 DEF Merging
<1>9. batch \in applied => Cardinality(table') = Cardinality(table)
  <2>1. ASSUME batch \in applied PROVE Cardinality(table') = Cardinality(table)
    <3>1. Missing(table, batch) = {}
      BY <2>1, SettledAddsNothing DEF Merging
    <3>2. Cardinality(table) \in Nat
      BY <1>1, FS_CardinalityType DEF Sound
    <3> QED
      BY <1>6, <3>1, <3>2, FS_EmptySet
  <2> QED
    BY <2>1
<1>10. RetryCompletes
  <2> SUFFICES ASSUME last.outcome = "failed", last.batch = batch
               PROVE  \E p \in Picks(last.from, batch) :
                         Contents(table') = Contents(Updated(last.from, batch, p)
                                                       \cup Inserted(last.from, batch, 0))
    BY <1>2 DEF RetryCompletes
  <2>1. Sound(last.from, count) /\ \A row \in last.from : SameTime(row, batch)
    BY DEF Merging, Broke, Timed
  <2>2. PICK p \in Picks(last.from, batch) : table = Updated(last.from, batch, p)
    BY DEF Merging, Broke
  <2>3. Contents(table') = Contents(table \cup Inserted(last.from, batch, 0))
    BY <1>1, <1>3, <2>1, <2>2, RetriedMerge
  <2> QED
    BY <2>2, <2>3
<1> QED
  BY <1>2, <1>4, <1>8, <1>9, <1>10

LEMMA EventBreaks ==
    ASSUME IInv, Recorded, Merging, EventFeed, NEW batch \in Batch[feed], UpsertBreaks(batch)
    PROVE  Merging' /\ last'.outcome = "failed"
<1>1. /\ Batch[feed] \in SUBSET Seq(BatchRow) /\ batch \in Seq(BatchRow)
      /\ feed \in Feed /\ count \in Nat /\ Sound(table, count)
      /\ \A row \in table : SameTime(row, batch)
  BY EventBatches DEF IInv, Merging, Timed
<1>2. /\ count' = count + 1 /\ feed' = feed /\ applied' = applied
      /\ last'.batch = batch /\ last'.outcome = "failed" /\ last'.from = table
      /\ batch # <<>>
  BY DEF UpsertBreaks, Deliver, Result, NoResult
<1>3. PICK pick \in Picks(table, batch) : table' = Updated(table, batch, pick)
  BY DEF UpsertBreaks
<1>4. Covers(table, table') /\ Sound(table', count)
  BY <1>1, <1>3, UpdatedTable, UpdatedCovers
<1>5. Timed(table', Batch[feed])
  BY <1>1, <1>3, UpdatedTimed DEF Merging
<1>6. \A other \in applied' : Settled(table', other)
  <2> TAKE other \in applied'
  <2>1. other \in Seq(BatchRow) /\ Settled(table, other)
    BY <1>1, <1>2 DEF Recorded, Merging
  <2> QED
    BY <1>1, <1>4, <2>1, SettledStays DEF Sound
<1>7. Broke'
  <2>1. Sound(table, count + 1) /\ Timed(table, Batch[feed])
    BY <1>1, SoundLater DEF Merging
  <2>2. Sound(last'.from, count') /\ Timed(last'.from, Batch[feed'])
    BY <1>2, <2>1
  <2>3. \E p \in Picks(last'.from, last'.batch) : table' = Updated(last'.from, last'.batch, p)
    BY <1>2, <1>3
  <2> QED
    BY <1>2, <2>2, <2>3 DEF Broke, Sound, Timed
<1>8. \A other \in applied' : Settled(table, other)'
  BY <1>6 DEF Settled
<1>9. Timed(table, Batch[feed])'
  BY <1>2, <1>5 DEF Timed
<1> QED
  BY <1>2, <1>7, <1>8, <1>9 DEF Merging

(* A delivery after which nothing has to be merged. *)
LEMMA EventNothing ==
    ASSUME IInv, Merging, NEW batch, UpsertNothing \/ Refuse(batch)
    PROVE  /\ Merging' /\ table' = table /\ last'.outcome \in {"ok", "refused"}
           /\ last'.outcome = "ok" => last'.batch = <<>>
<1>1. /\ UNCHANGED <<feed, table, applied>> /\ last'.outcome \in {"ok", "refused"}
      /\ last'.outcome = "ok" => last'.batch = <<>>
  BY DEF UpsertNothing, Refuse, Deliver, Result, NoResult
<1>2. Broke'
  BY <1>1 DEF Broke
<1>3. \A other \in applied' : Settled(table, other)'
  BY <1>1 DEF Merging, Settled
<1>4. Timed(table, Batch[feed])'
  BY <1>1 DEF Merging, Timed
<1> QED
  BY <1>1, <1>2, <1>3, <1>4 DEF Merging

LEMMA MergingStep ==
    ASSUME IInv, Recorded, Merging, EventFeed, Next
    PROVE  Merging' /\ ReplayAddsNothing /\ RetryCompletes /\ InWindowKept
<1>1. /\ Sound(table, count) /\ feed \in Feed /\ count \in Nat
      /\ LateWindow = (LateWindow \div Day) * Day
      /\ Modes[feed] = {"upsert"} /\ Batch[feed] \in SUBSET Seq(BatchRow)
  BY EventBatches DEF IInv
<1>2. ASSUME NEW batch \in Batch[feed], UpsertNothing \/ Refuse(batch)
      PROVE  Merging' /\ ReplayAddsNothing /\ RetryCompletes /\ InWindowKept
  <2>1. /\ Merging' /\ table' = table
        /\ last'.outcome = "ok" => last'.batch = <<>>
    BY <1>2, EventNothing
  <2>2. last.outcome = "failed" => last.batch # <<>>
    BY DEF Merging, Broke
  <2> QED
    BY <2>1, <2>2 DEF ReplayAddsNothing, RetryCompletes, InWindowKept
<1>3. ASSUME NEW batch \in Batch[feed], Upsert(batch)
      PROVE  Merging' /\ ReplayAddsNothing /\ RetryCompletes /\ InWindowKept
  <2>1. /\ Merging' /\ RetryCompletes /\ last'.batch = batch
        /\ \A i \in Accepted(table, batch) : HasKey(table', batch[i].key)
        /\ batch \in applied => Cardinality(table') = Cardinality(table)
    BY <1>3, EventUpsert
  <2>2. ASSUME NEW i \in DOMAIN batch, batch[i].time >= MaxTime(table) - LateWindow
        PROVE  HasKey(table', batch[i].key)
    <3>1. i \in Accepted(table, batch)
      BY <1>1, <2>2, WindowAccepted
    <3> QED
      BY <2>1, <3>1
  <2> QED
    BY <2>1, <2>2 DEF ReplayAddsNothing, InWindowKept
<1>4. ASSUME NEW batch \in Batch[feed], UpsertBreaks(batch)
      PROVE  Merging' /\ ReplayAddsNothing /\ RetryCompletes /\ InWindowKept
  BY <1>4, EventBreaks DEF ReplayAddsNothing, RetryCompletes, InWindowKept
<1>5. ASSUME NEW batch \in Batch[feed] PROVE ~AppendRows(batch)
  BY <1>1 DEF AppendRows, Deliver
<1>6. UpsertNothing => <<>> \in Batch[feed]
  BY DEF UpsertNothing
<1> QED
  BY <1>2, <1>3, <1>4, <1>5, <1>6 DEF Next

(* From a feed whose events keep their key and time, a batch that was applied
   before adds no row, a batch that broke is completed by its repetition, and no
   row in the late window is lost, for any batches in any order. *)
THEOREM FeedMergesAlways == AnalyticsSpec => FeedMerges
<1> DEFINE J == IInv /\ Recorded /\ (EventFeed => Merging)
           A == EventFeed => ReplayAddsNothing /\ RetryCompletes /\ InWindowKept
<1>1. Init => J
  BY IInvInit, RecordedInit, MergingInit
<1>2. J /\ [Next]_vars => J' /\ [A]_vars
  <2>1. ASSUME J, [Next]_vars PROVE J' /\ [A]_vars
    <3>1. IInv' /\ Recorded'
      BY <2>1, IInvStep, RecordedStep
    <3>2. feed' = feed
      BY <2>1 DEF Next, vars, Deliver, UpsertNothing, Refuse, Upsert, UpsertBreaks, AppendRows
    <3>3. EventFeed' <=> EventFeed
      BY <3>2 DEF EventFeed, KeyedFeed
    <3>4. CASE Next
      BY <2>1, <3>1, <3>3, <3>4, MergingStep
    <3>5. CASE UNCHANGED vars
      <4>1. Merging => Merging'
        BY <3>5 DEF vars, Merging, Broke, Timed, Settled
      <4> QED
        BY <2>1, <3>1, <3>3, <3>5, <4>1
    <3> QED
      BY <2>1, <3>4, <3>5
  <2> QED
    BY <2>1
<1> HIDE DEF J
<1>3. A <=> (EventFeed => ReplayAddsNothing /\ RetryCompletes /\ InWindowKept)
  OBVIOUS
<1> HIDE DEF A
<1>4. AnalyticsSpec => [][A]_vars
  BY <1>1, <1>2, TableAlone, PTL DEF Spec
<1> QED
  BY <1>4, <1>3, PTL DEF FeedMerges, A

------------------------------------------------------------------------------
(* Trust thresholds. *)

Name == {"MIN_COVERAGE", "MIN_N", "ABSTAIN_N", "TRUSTED_N"}

LEMMA TrustInit == Trust!Init => Trust!IInv
<1> SUFFICES ASSUME Trust!Init PROVE Trust!IInv
  OBVIOUS
<1>1. s1 = Start /\ s3 = <<>> /\ s4 = 0 /\ s5 = Trust!Untuned /\ s6 = 0 /\ s7 = 0
  BY DEF Trust!Init
<1>2. DOMAIN Trust!Low = DOMAIN Low /\ \A n \in DOMAIN Low : Trust!Low[n] = Low[n]
  BY DEF Trust!Low, Low, Trust!Unit, Unit
<1>3. \A n \in DOMAIN Low : Trust!High[n] = High[n]
  BY DEF Trust!High, High, Low, Trust!Unit, Unit
<1>4. s1 \in [DOMAIN Trust!Low -> Int]
  BY <1>1, <1>2, StartAssumption
<1>5. Trust!ThresholdsOrdered
  BY <1>1, <1>2, <1>3, StartAssumption DEF Trust!ThresholdsOrdered, Trust!Untuned
<1>6. s3 \in Seq(Trust!AuditRow) /\ DOMAIN s3 = {} /\ Len(s3) = 0
  BY <1>1
<1>7. Trust!TuningIsAudited
  BY <1>1, <1>6 DEF Trust!TuningIsAudited, Trust!Untuned
<1> QED
  BY <1>1, <1>4, <1>5, <1>6, <1>7 DEF Trust!IInv

(* A tuning keeps every threshold in its range and the thresholds in order, and
   moves all of them in one direction. *)
LEMMA TuningMoves ==
    ASSUME NEW th \in [DOMAIN Trust!Low -> Int], NEW action \in {"raise", "lower"},
           \A n \in DOMAIN th : th[n] \in Trust!Low[n] .. Trust!High[n],
           th.ABSTAIN_N <= th.MIN_N, th.MIN_N <= th.TRUSTED_N
    PROVE  LET new == Trust!Tuning(th, action)
           IN  /\ new \in [DOMAIN Trust!Low -> Int]
               /\ \A n \in DOMAIN th : /\ new[n] \in Trust!Low[n] .. Trust!High[n]
                                       /\ action = "raise" => new[n] >= th[n]
                                       /\ action = "lower" => new[n] <= th[n]
               /\ new.ABSTAIN_N <= new.MIN_N /\ new.MIN_N <= new.TRUSTED_N
<1> DEFINE S(v) == Trust!Scaled(action, v)
           C(n) == Trust!Clamp(n, S(th[n]))
           new == Trust!Tuning(th, action)
<1>1. /\ DOMAIN Trust!Low = Name
      /\ \A n \in Name : Trust!Low[n] \in Nat /\ Trust!High[n] \in Nat /\ Trust!Low[n] <= Trust!High[n]
      /\ Trust!Low["ABSTAIN_N"] <= Trust!Low["MIN_N"] /\ Trust!Low["MIN_N"] <= Trust!Low["TRUSTED_N"]
      /\ Trust!High["ABSTAIN_N"] <= Trust!High["MIN_N"] /\ Trust!High["MIN_N"] <= Trust!High["TRUSTED_N"]
  BY DEF Trust!Low, Trust!High, Trust!Unit, Name
<1>2. ASSUME NEW v \in Nat
      PROVE  /\ S(v) \in Nat
             /\ action = "raise" => S(v) >= v
             /\ action = "lower" => S(v) <= v
  BY DEF Trust!Scaled
<1>3. ASSUME NEW v \in Nat, NEW w \in Nat, v <= w PROVE S(v) <= S(w)
  BY <1>3 DEF Trust!Scaled
<1>4. \A n \in Name : th[n] \in Nat /\ th[n] >= Trust!Low[n] /\ th[n] <= Trust!High[n]
  BY <1>1
<1> HIDE DEF S
<1>5. ASSUME NEW n \in Name
      PROVE  /\ C(n) \in Nat /\ C(n) >= Trust!Low[n] /\ C(n) <= Trust!High[n]
             /\ action = "raise" => C(n) >= th[n]
             /\ action = "lower" => C(n) <= th[n]
  BY <1>1, <1>2, <1>4 DEF Trust!Clamp
<1>6. ASSUME NEW n \in Name, NEW m \in Name, Trust!Low[n] <= Trust!Low[m],
             Trust!High[n] <= Trust!High[m], th[n] <= th[m]
      PROVE  C(n) <= C(m)
  <2>1. S(th[n]) \in Nat /\ S(th[m]) \in Nat /\ S(th[n]) <= S(th[m])
    BY <1>2, <1>3, <1>4, <1>6
  <2> QED
    BY <1>1, <1>6, <2>1 DEF Trust!Clamp
<1>7. DOMAIN th = Name /\ new = [n \in Name |-> C(n)]
  BY <1>1 DEF Trust!Tuning, S
<1> HIDE DEF C
<1>8. \A n \in Name : new[n] = C(n) /\ new[n] \in Int
  BY <1>5, <1>7
<1> HIDE DEF new
<1>9. new["ABSTAIN_N"] <= new["MIN_N"] /\ new["MIN_N"] <= new["TRUSTED_N"]
  BY <1>1, <1>6, <1>8 DEF Name
<1>10. new \in [Name -> Int]
  <2> USE DEF new
  <2> QED
    BY <1>5, <1>7
<1> QED
  BY <1>1, <1>5, <1>7, <1>8, <1>9, <1>10 DEF new

(* A tuning that is applied has its reasons, and moves the thresholds. *)
LEMMA TrustTunes ==
    ASSUME Trust!IInv, NEW suggestion, Trust!AutoTune(suggestion), s5'.applied
    PROVE  LET new == Trust!Tuning(s1, suggestion.action)
           IN  /\ s1' = new /\ s5'.action = suggestion.action
               /\ suggestion.action \in {"raise", "lower"}
               /\ suggestion.samples >= MinSamples /\ s5'.samples = suggestion.samples
               /\ new \in [DOMAIN Trust!Low -> Int]
               /\ \A n \in DOMAIN s1 :
                     /\ new[n] \in Trust!Low[n] .. Trust!High[n]
                     /\ suggestion.action = "raise" => new[n] >= s1[n]
                     /\ suggestion.action = "lower" => new[n] <= s1[n]
               /\ new.ABSTAIN_N <= new.MIN_N /\ new.MIN_N <= new.TRUSTED_N
<1>1. /\ Trust!Justified(suggestion) /\ s1' = Trust!Tuning(s1, suggestion.action)
      /\ s5'.action = suggestion.action /\ s5'.samples = suggestion.samples
  BY DEF Trust!AutoTune
<1>2. suggestion.action \in {"raise", "lower"} /\ suggestion.samples >= MinSamples
  BY <1>1 DEF Trust!Justified
<1>3. /\ s1 \in [DOMAIN Trust!Low -> Int]
      /\ \A n \in DOMAIN s1 : s1[n] \in Trust!Low[n] .. Trust!High[n]
      /\ s1.ABSTAIN_N <= s1.MIN_N /\ s1.MIN_N <= s1.TRUSTED_N
  BY DEF Trust!IInv, Trust!ThresholdsOrdered
<1> QED
  BY <1>1, <1>2, <1>3, TuningMoves

LEMMA TrustAutoTune ==
    ASSUME Trust!IInv, NEW suggestion, Trust!AutoTune(suggestion) PROVE Trust!IInv'
<1> DEFINE new == Trust!Tuning(s1, suggestion.action)
           row == [old |-> s1, new |-> new, action |-> suggestion.action, run |-> s7]
           mine == {i \in DOMAIN s3 : s3[i].run = s7}
           before(i) == IF i - 1 \in mine THEN s3[i - 1].new ELSE Start
           later == {i \in DOMAIN s3' : s3'[i].run = s7}
           earlier(i) == IF i - 1 \in later THEN s3'[i - 1].new ELSE Start
<1>1. /\ s6' = s6 + 1 /\ s7' = s7 /\ s5'.applied \in BOOLEAN
      /\ s3 \in Seq(Trust!AuditRow) /\ s4 \in Nat /\ s6 \in Nat /\ s7 \in Nat
      /\ s4 + Len(s3) <= s6 /\ Len(s3) \in Nat /\ DOMAIN s3 = 1 .. Len(s3)
      /\ \A i \in DOMAIN s3 : s3[i].run <= s7
  BY DEF Trust!IInv, Trust!ThresholdsOrdered, Trust!AutoTune
<1>2. /\ s4 = 0 => s1 = before(Len(s3) + 1) /\ \A i \in mine : s3[i].old = before(i)
      /\ s5.applied => s5.samples >= MinSamples
  BY DEF Trust!IInv, Trust!TuningIsAudited
<1>3. CASE ~s5'.applied
  <2>1. UNCHANGED <<s1, s3, s4>>
    BY <1>3 DEF Trust!AutoTune
  <2>2. Trust!ThresholdsOrdered'
    BY <1>1, <2>1 DEF Trust!IInv, Trust!ThresholdsOrdered
  <2>3. Trust!TuningIsAudited'
    BY <1>1, <1>2, <1>3, <2>1 DEF Trust!TuningIsAudited
  <2> QED
    BY <1>1, <2>1, <2>2, <2>3 DEF Trust!IInv
<1>4. CASE s5'.applied
  <2>1. /\ s1' = new /\ new \in [DOMAIN Trust!Low -> Int]
        /\ \A n \in DOMAIN s1 : new[n] \in Trust!Low[n] .. Trust!High[n]
        /\ new.ABSTAIN_N <= new.MIN_N /\ new.MIN_N <= new.TRUSTED_N
        /\ s5'.samples >= MinSamples /\ suggestion.action \in {"raise", "lower"}
    BY <1>4, TrustTunes
  <2>2. s1 \in [DOMAIN Trust!Low -> Int]
    BY DEF Trust!IInv
  <2>3. Trust!Audit(s1, new, suggestion.action)
    BY <1>4 DEF Trust!AutoTune
  <2> HIDE DEF new
  <2>4. row \in Trust!AuditRow
    BY <1>1, <2>1, <2>2 DEF Trust!AuditRow
  <2>5. \/ s3' = Append(s3, row) /\ s4' = s4
        \/ s3' = s3 /\ s4' = s4 + 1
    BY <2>3 DEF Trust!Audit
  <2>6. CASE s3' = Append(s3, row) /\ s4' = s4
    <3>1. /\ s3' \in Seq(Trust!AuditRow) /\ Len(s3') = Len(s3) + 1
          /\ DOMAIN s3' = 1 .. Len(s3) + 1
          /\ s3'[Len(s3) + 1] = row /\ \A i \in DOMAIN s3 : s3'[i] = s3[i]
      BY <1>1, <2>4, <2>6
    <3>2. /\ row.run = s7 /\ row.new = new /\ row.old = s1
      OBVIOUS
    <3>3. \A i \in DOMAIN s3' : s3'[i].run <= s7
      BY <1>1, <3>1, <3>2
    <3>4. later = mine \cup {Len(s3) + 1}
      BY <1>1, <3>1, <3>2
    <3>5. Trust!ThresholdsOrdered'
      BY <1>1, <2>1, <2>2, <2>6, <3>1 DEF Trust!ThresholdsOrdered
    <3>6. \A i \in mine : earlier(i) = before(i)
      <4> TAKE i \in mine
      <4>1. i \in 1 .. Len(s3) /\ Len(s3) \in Nat
        BY <1>1
      <4>2. i - 1 \in later <=> i - 1 \in mine
        BY <3>4, <4>1
      <4> QED
        BY <3>1, <4>2
    <3>7. earlier(Len(s3) + 1) = before(Len(s3) + 1)
      <4>1. Len(s3) + 1 - 1 \in later <=> Len(s3) + 1 - 1 \in mine
        BY <1>1, <3>4
      <4> QED
        BY <3>1, <4>1
    <3>8. earlier(Len(s3') + 1) = new
      <4>1. Len(s3') + 1 - 1 = Len(s3) + 1 /\ Len(s3) + 1 \in later
        BY <1>1, <3>1, <3>4
      <4> QED
        BY <3>1, <3>2, <4>1
    <3> HIDE DEF mine, before, row
    <3>9. s4' = 0 => s1' = earlier(Len(s3') + 1) /\ \A i \in later : s3'[i].old = earlier(i)
      <4> SUFFICES ASSUME s4 = 0
                   PROVE  s1' = earlier(Len(s3') + 1) /\ \A i \in later : s3'[i].old = earlier(i)
        BY <2>6
      <4>1. ASSUME NEW i \in mine PROVE s3'[i].old = earlier(i)
        <5>1. i \in DOMAIN s3
          BY DEF mine
        <5> QED
          BY <1>2, <3>1, <3>6, <5>1
      <4>2. s3'[Len(s3) + 1].old = earlier(Len(s3) + 1)
        BY <1>2, <3>1, <3>2, <3>7
      <4> HIDE DEF earlier
      <4> QED
        BY <2>1, <3>4, <3>8, <4>1, <4>2
    <3>10. Trust!TuningIsAudited'
      <4>1. s5'.applied => s5'.samples >= MinSamples
        BY <2>1
      <4>2. Trust!TuningIsAudited' <=>
              /\ s4' = 0 => s1' = earlier(Len(s3') + 1) /\ \A i \in later : s3'[i].old = earlier(i)
              /\ s5'.applied => s5'.samples >= MinSamples
        BY <1>1 DEF Trust!TuningIsAudited
      <4> QED
        BY <3>9, <4>1, <4>2
    <3> QED
      BY <1>1, <2>1, <2>6, <3>1, <3>3, <3>5, <3>10 DEF Trust!IInv
  <2>7. CASE s3' = s3 /\ s4' = s4 + 1
    <3>1. Trust!ThresholdsOrdered'
      BY <1>1, <2>1, <2>2, <2>7 DEF Trust!ThresholdsOrdered
    <3>2. s4' # 0
      BY <1>1, <2>7
    <3>3. Trust!TuningIsAudited'
      BY <2>1, <3>2 DEF Trust!TuningIsAudited
    <3> QED
      BY <1>1, <2>1, <2>7, <3>1, <3>3 DEF Trust!IInv
  <2> QED
    BY <2>5, <2>6, <2>7
<1> QED
  BY <1>1, <1>3, <1>4

LEMMA TrustStep == Trust!IInv /\ [Trust!Next]_(Trust!vars) => Trust!IInv'
<1> SUFFICES ASSUME Trust!IInv, [Trust!Next]_(Trust!vars) PROVE Trust!IInv'
  OBVIOUS
<1>1. /\ s3 \in Seq(Trust!AuditRow) /\ s4 \in Nat /\ s6 \in Nat /\ s7 \in Nat
      /\ s4 + Len(s3) <= s6 /\ Len(s3) \in Nat /\ DOMAIN s3 = 1 .. Len(s3)
      /\ \A i \in DOMAIN s3 : s3[i].run <= s7 /\ s3[i].run \in Nat
  <2>1. s3 \in Seq(Trust!AuditRow)
    BY DEF Trust!IInv
  <2>2. Len(s3) \in Nat /\ DOMAIN s3 = 1 .. Len(s3) /\ \A i \in DOMAIN s3 : s3[i] \in Trust!AuditRow
    BY <2>1
  <2>3. \A row \in Trust!AuditRow : row.run \in Nat
    BY DEF Trust!AuditRow
  <2> QED
    BY <2>1, <2>2, <2>3 DEF Trust!IInv, Trust!ThresholdsOrdered
<1>2. ASSUME NEW tier, NEW label, Trust!RecordOutcome(tier, label) PROVE Trust!IInv'
  BY <1>2 DEF Trust!RecordOutcome, Trust!IInv, Trust!ThresholdsOrdered, Trust!TuningIsAudited
<1>3. ASSUME NEW suggestion, Trust!AutoTune(suggestion) PROVE Trust!IInv'
  BY <1>3, TrustAutoTune
<1>4. CASE Trust!Restart
  <2>1. /\ s7' = s7 + 1 /\ s1' = Start /\ s5' = Trust!Untuned
        /\ UNCHANGED <<s3, s4, s6>>
    BY <1>4 DEF Trust!Restart
  <2>2. /\ s1' \in [DOMAIN Trust!Low -> Int]
        /\ \A name \in DOMAIN s1' : s1'[name] \in Trust!Low[name] .. Trust!High[name]
        /\ s1'.ABSTAIN_N <= s1'.MIN_N /\ s1'.MIN_N <= s1'.TRUSTED_N
    <3>1. DOMAIN Trust!Low = DOMAIN Low /\ \A n \in DOMAIN Low : Trust!Low[n] = Low[n]
      BY DEF Trust!Low, Low, Trust!Unit, Unit
    <3>2. \A n \in DOMAIN Low : Trust!High[n] = High[n]
      BY DEF Trust!High, High, Low, Trust!Unit, Unit
    <3> QED
      BY <2>1, <3>1, <3>2, StartAssumption
  <2>3. Trust!ThresholdsOrdered'
    BY <1>1, <2>1, <2>2 DEF Trust!ThresholdsOrdered, Trust!Untuned
  <2>4. \A i \in DOMAIN s3 : s3[i].run # s7 + 1 /\ s3[i].run <= s7 + 1
    BY <1>1
  <2>5. Trust!TuningIsAudited'
    BY <2>1, <2>4 DEF Trust!TuningIsAudited, Trust!Untuned
  <2> QED
    BY <1>1, <2>1, <2>2, <2>3, <2>4, <2>5 DEF Trust!IInv
<1>5. CASE UNCHANGED Trust!vars
  BY <1>5 DEF Trust!vars, Trust!IInv, Trust!ThresholdsOrdered, Trust!TuningIsAudited
<1> QED
  BY <1>2, <1>3, <1>4, <1>5 DEF Trust!Next

(* Where every threshold is as high or higher, no answer is graded better. *)
LEMMA GradeAntitone ==
    ASSUME NEW th \in [DOMAIN Trust!Low -> Int], NEW other \in [DOMAIN Trust!Low -> Int],
           \A n \in DOMAIN th : th[n] <= other[n],
           NEW n \in Int, NEW cov \in Int, NEW gates, NEW borrowed
    PROVE  Trust!Rank[Trust!Grade(other, n, cov, gates, borrowed)]
             <= Trust!Rank[Trust!Grade(th, n, cov, gates, borrowed)]
<1>1. /\ th.ABSTAIN_N \in Int /\ other.ABSTAIN_N \in Int /\ th.ABSTAIN_N <= other.ABSTAIN_N
      /\ th.TRUSTED_N \in Int /\ other.TRUSTED_N \in Int /\ th.TRUSTED_N <= other.TRUSTED_N
      /\ th.MIN_COVERAGE \in Int /\ other.MIN_COVERAGE \in Int
      /\ th.MIN_COVERAGE <= other.MIN_COVERAGE
  BY DEF Trust!Low
<1> DEFINE e == Trust!EvidenceTier(th, n, cov, gates)
           f == Trust!EvidenceTier(other, n, cov, gates)
<1>2. /\ e \in Trust!Tier /\ f \in Trust!Tier /\ Trust!Rank[f] <= Trust!Rank[e]
  BY <1>1 DEF Trust!EvidenceTier, Trust!Rank, Trust!Tier
<1> HIDE DEF e, f
<1>3. Trust!Rank[Trust!MinTier(f, "DIRECTIONAL")] <= Trust!Rank[Trust!MinTier(e, "DIRECTIONAL")]
  BY <1>2 DEF Trust!MinTier, Trust!Rank, Trust!Tier
<1>4. /\ Trust!Rank[e] \in Nat /\ Trust!Rank["INSUFFICIENT"] = 0
      /\ Trust!Rank[Trust!MinTier(e, "DIRECTIONAL")] \in Nat
  BY <1>2 DEF Trust!MinTier, Trust!Rank, Trust!Tier
<1>5. CASE n < other.ABSTAIN_N
  BY <1>2, <1>4, <1>5 DEF Trust!Grade, e
<1>6. CASE ~(n < other.ABSTAIN_N)
  <2>1. ~(n < th.ABSTAIN_N)
    BY <1>1, <1>6
  <2> QED
    BY <1>2, <1>3, <1>6, <2>1 DEF Trust!Grade, e, f
<1> QED
  BY <1>5, <1>6

LEMMA TrustMonotone ==
    Trust!IInv /\ [Trust!Next]_(Trust!vars) => Trust!TuningIsMonotone
<1> SUFFICES ASSUME Trust!IInv, [Trust!Next]_(Trust!vars), s5'.applied, s6' # s6,
                    NEW n \in Trust!Samples, NEW cov \in Trust!Coverages, NEW gate \in BOOLEAN
             PROVE  LET gates == [g \in {"gate"} |-> gate]
                        old == Trust!Rank[Trust!GradeOf(s1, n, cov, gates)]
                        new == Trust!Rank[Trust!GradeOf(s1', n, cov, gates)]
                    IN  IF s5'.action = "raise" THEN new <= old ELSE new >= old
  BY DEF Trust!TuningIsMonotone
<1>1. PICK suggestion : Trust!AutoTune(suggestion)
  BY DEF Trust!Next, Trust!vars, Trust!RecordOutcome, Trust!Restart
<1>2. s1 \in [DOMAIN Trust!Low -> Int]
  BY DEF Trust!IInv
<1>3. /\ s1' \in [DOMAIN Trust!Low -> Int] /\ s5'.action = suggestion.action
      /\ s5'.action \in {"raise", "lower"}
      /\ s5'.action = "raise" => \A name \in DOMAIN Trust!Low : s1[name] <= s1'[name]
      /\ s5'.action = "lower" => \A name \in DOMAIN Trust!Low : s1'[name] <= s1[name]
  BY <1>1, <1>2, TrustTunes
<1> DEFINE gates == [g \in {"gate"} |-> gate]
           old == Trust!Rank[Trust!GradeOf(s1, n, cov, gates)]
           new == Trust!Rank[Trust!GradeOf(s1', n, cov, gates)]
<1>4. n * Trust!Unit \in Int /\ cov * Trust!Unit \in Int
  BY DEF Trust!Samples, Trust!Coverages, Trust!Unit
<1> HIDE DEF gates
<1>5. s5'.action = "raise" => new <= old
  BY <1>2, <1>3, <1>4, GradeAntitone DEF Trust!GradeOf
<1>6. s5'.action = "lower" => old <= new
  BY <1>2, <1>3, <1>4, GradeAntitone DEF Trust!GradeOf
<1>7. old \in Int /\ new \in Int
  <2>1. \A th, m, c, b : Trust!Grade(th, m, c, gates, b) \in Trust!Tier
    BY DEF Trust!Grade, Trust!EvidenceTier, Trust!MinTier, Trust!Tier, Trust!Rank
  <2>2. \A t \in Trust!Tier : Trust!Rank[t] \in Int
    BY DEF Trust!Rank, Trust!Tier
  <2> QED
    BY <2>1, <2>2 DEF Trust!GradeOf
<1> QED
  BY <1>3, <1>5, <1>6, <1>7 DEF gates
------------------------------------------------------------------------------
(* Tools and lineage. *)

LEMMA ToolboxInit == Toolbox!Init => Toolbox!IInv
<1> SUFFICES ASSUME Toolbox!Init PROVE Toolbox!IInv
  OBVIOUS
<1>1. /\ s9 \in [calls : Nat, errors : Nat, graded : Nat, raised : Nat]
      /\ s4 = {} /\ s8.tool = "none" /\ s9.calls = 0 /\ s12 = 0
      /\ s5 = <<>> /\ s6 = <<>> /\ s7 = <<>> /\ s10 = {}
  BY DEF Toolbox!Init, Toolbox!Idle
<1>2. Toolbox!EnginesAreCurrent /\ Toolbox!Answered
  BY <1>1 DEF Toolbox!EnginesAreCurrent, Toolbox!Answered
<1>3. DOMAIN s5 = {} /\ s6 = s5 /\ s7 \in Seq(1 .. s9.calls) /\ DOMAIN s7 = {}
  BY <1>1
<1>4. Toolbox!Linked
  BY <1>1, <1>3 DEF Toolbox!Linked
<1> QED
  BY <1>1, <1>2, <1>4 DEF Toolbox!IInv

(* A call that returns counts as one. *)
LEMMA ToolboxCounts ==
    ASSUME s9 \in [calls : Nat, errors : Nat, graded : Nat, raised : Nat], NEW result,
           s9' = Toolbox!Counted(result)
    PROVE  /\ s9' \in [calls : Nat, errors : Nat, graded : Nat, raised : Nat]
           /\ s9'.calls \in {s9.calls, s9.calls + 1}
           /\ result.kind = "ok" => s9'.calls = s9.calls + 1
<1> DEFINE a == IF result = Toolbox!Raised THEN 0 ELSE 1
           b == IF result = Toolbox!Raised THEN 1 ELSE 0
           c == IF result.kind # "ok" THEN 1 ELSE 0
           d == IF result.tier # "none" THEN 1 ELSE 0
<1>1. a \in {0, 1} /\ b \in {0, 1} /\ c \in {0, 1} /\ d \in {0, 1}
  OBVIOUS
<1>2. result.kind = "ok" => a = 1
  BY DEF Toolbox!Raised, Toolbox!Result
<1>3. s9' = [s9 EXCEPT !.calls = @ + a, !.raised = @ + b, !.errors = @ + c, !.graded = @ + d]
  BY DEF Toolbox!Counted
<1> HIDE DEF a, b, c, d
<1>4. s9' = [calls |-> s9.calls + a, errors |-> s9.errors + c, graded |-> s9.graded + d,
             raised |-> s9.raised + b]
  BY <1>3
<1> QED
  BY <1>1, <1>2, <1>4

(* The graph after an answer. *)
LEMMA ToolboxRecord ==
    ASSUME s9.calls \in Nat, s12 \in Nat, Toolbox!Linked, s9'.calls = s9.calls + 1,
           Toolbox!Record(s9.calls + 1)
    PROVE  Toolbox!Linked' /\ s12' \in Nat
<1> DEFINE c == s9.calls
           id == c + 1
           new == [i \in DOMAIN s5 \cup {id} |->
                      IF i = id THEN {s7[k] : k \in DOMAIN s7} ELSE s5[i]]
<1>1. /\ s5' = new /\ Toolbox!Persist(new) /\ s7' = Append(s7, id) /\ s10' = s10 \cup {id}
  BY DEF Toolbox!Record
<1>2. /\ c \in Nat /\ s7 \in Seq(1 .. c) /\ Len(s7) \in Nat /\ DOMAIN s7 = 1 .. Len(s7)
      /\ DOMAIN s5 \subseteq 1 .. c /\ s10 \subseteq 1 .. c
      /\ s6 # Toolbox!Torn => DOMAIN s6 \subseteq 1 .. c
  BY DEF Toolbox!Linked
<1>3. \A k \in DOMAIN s7 : s7[k] \in 1 .. c
  BY <1>2
<1> HIDE DEF c
<1>4. /\ s7' \in Seq(1 .. c + 1) /\ Len(s7') = Len(s7) + 1 /\ DOMAIN s7' = 1 .. Len(s7) + 1
      /\ s7'[Len(s7) + 1] = id /\ \A k \in DOMAIN s7 : s7'[k] = s7[k]
  <2>1. s7 \in Seq(1 .. c + 1)
    BY <1>2, <1>3
  <2> QED
    BY <1>1, <1>2, <2>1
<1>5. /\ DOMAIN s5' = DOMAIN s5 \cup {id} /\ id \notin DOMAIN s5
      /\ s5'[id] = {s7[k] : k \in DOMAIN s7}
      /\ \A i \in DOMAIN s5 : s5'[i] = s5[i]
  BY <1>1, <1>2
<1> HIDE DEF new
<1>6. \A j, k \in DOMAIN s7' : j < k => s7'[j] < s7'[k]
  <2> SUFFICES ASSUME NEW j \in DOMAIN s7', NEW k \in DOMAIN s7', j < k PROVE s7'[j] < s7'[k]
    OBVIOUS
  <2>1. j \in DOMAIN s7 /\ s7'[j] = s7[j] /\ s7[j] \in 1 .. c
    BY <1>2, <1>3, <1>4
  <2>2. CASE k \in DOMAIN s7
    BY <1>4, <2>1, <2>2 DEF Toolbox!Linked
  <2>3. CASE k = Len(s7) + 1
    BY <1>2, <1>4, <2>1, <2>3
  <2> QED
    BY <1>2, <1>4, <2>2, <2>3
<1>7. ASSUME NEW k \in DOMAIN s7'
      PROVE  s7'[k] \in DOMAIN s5' /\ s5'[s7'[k]] = {s7'[j] : j \in 1 .. k - 1}
  <2>1. CASE k \in DOMAIN s7
    <3>1. s7[k] \in DOMAIN s5 /\ s5[s7[k]] = {s7[j] : j \in 1 .. k - 1}
      BY <2>1 DEF Toolbox!Linked
    <3>2. ASSUME NEW j \in 1 .. k - 1 PROVE s7'[j] = s7[j]
      <4>1. j \in DOMAIN s7
        <5>1. k \in 1 .. Len(s7) /\ Len(s7) \in Nat
          BY <1>2, <2>1
        <5>2. j \in 1 .. Len(s7)
          BY <5>1
        <5> QED
          BY <1>2, <5>2
      <4> QED
        BY <1>4, <4>1
    <3> QED
      BY <1>4, <1>5, <2>1, <3>1, <3>2
  <2>2. CASE k = Len(s7) + 1
    <3>1. 1 .. k - 1 = DOMAIN s7
      BY <1>2, <2>2
    <3>2. \A j \in 1 .. k - 1 : s7'[j] = s7[j]
      BY <1>4, <3>1
    <3> HIDE DEF id
    <3> QED
      BY <1>4, <1>5, <2>2, <3>1, <3>2
  <2> QED
    BY <1>2, <1>4, <2>1, <2>2
<1>8. DOMAIN s5' \subseteq 1 .. c + 1 /\ s10' \subseteq 1 .. c + 1
  BY <1>1, <1>2, <1>5
<1>9. /\ s6' # Toolbox!Torn => DOMAIN s6' \subseteq 1 .. c + 1
      /\ s12' \in Nat
      /\ s12' = 0 => s6' = s5' /\ s12 = 0
  <2>1. CASE s6' = new /\ s12' = s12
    BY <1>1, <1>8, <2>1
  <2>2. CASE s12' = s12 + 1 /\ s6' \in {s6, Toolbox!Torn}
    BY <1>2, <2>2
  <2> QED
    BY <1>1, <2>1, <2>2 DEF Toolbox!Persist
<1>10. s12' = 0 => DOMAIN s5' = s10'
  BY <1>1, <1>5, <1>9 DEF Toolbox!Linked
<1>11. s9'.calls = c + 1
  BY DEF c
<1> HIDE DEF id
<1> QED
  BY <1>4, <1>6, <1>7, <1>8, <1>9, <1>10, <1>11 DEF Toolbox!Linked

LEMMA ToolboxLater ==
    ASSUME s9.calls \in Nat, Toolbox!Linked, s9'.calls \in {s9.calls, s9.calls + 1},
           UNCHANGED <<s5, s6, s7, s10, s12>>
    PROVE  Toolbox!Linked'
<1> DEFINE c == s9.calls
           d == s9'.calls
<1>1. c \in Nat /\ d \in {c, c + 1} /\ s7 \in Seq(1 .. c) /\ 1 .. c \subseteq 1 .. d
  BY DEF Toolbox!Linked
<1>2. s7 \in Seq(1 .. d)
  <2> HIDE DEF c, d
  <2>1. \A k \in DOMAIN s7 : s7[k] \in 1 .. d
    BY <1>1
  <2> QED
    BY <1>1, <2>1
<1> QED
  BY <1>1, <1>2 DEF Toolbox!Linked

(* No call, and no engine that waits for one, uses an older model. *)
LEMMA ToolboxEngine ==
    ASSUME Toolbox!EnginesAreCurrent, NEW q PROVE Toolbox!EngineModel(q) = s3
<1> DEFINE cached == {e \in s4 : e.synonyms = q.synonyms}
<1>1. CASE cached = {}
  BY <1>1 DEF Toolbox!EngineModel
<1>2. CASE cached # {}
  <2>1. (CHOOSE e \in cached : TRUE) \in cached
    BY <1>2
  <2>2. (CHOOSE e \in cached : TRUE).model = s3
    BY <2>1 DEF Toolbox!EnginesAreCurrent
  <2> QED
    BY <1>2, <2>2 DEF Toolbox!EngineModel
<1> QED
  BY <1>1, <1>2

LEMMA ToolboxInvoke ==
    ASSUME Toolbox!IInv, NEW tool \in Toolbox!Tools, NEW q \in AskedTools,
           Toolbox!Invoke(tool, q)
    PROVE  Toolbox!IInv'
<1> DEFINE result == Toolbox!Outcome(tool, q)
<1>1. /\ s9' = Toolbox!Counted(result)
      /\ s8' = [tool |-> tool, q |-> q, result |-> result, model |-> Toolbox!ModelUsed(tool, q)]
      /\ Toolbox!CacheEngine(tool, q) /\ UNCHANGED <<s2, s3>>
      /\ \/ result.kind = "ok" /\ Toolbox!Record(s9.calls + 1)
         \/ result.kind # "ok" /\ UNCHANGED <<s5, s6, s7, s10, s12>>
  BY DEF Toolbox!Invoke, Toolbox!lineage
<1>2. s8'.tool = tool /\ s8'.q = q /\ s8'.result = result /\ s8'.model = Toolbox!ModelUsed(tool, q)
  BY <1>1
<1>3. Toolbox!Answered'
  <2>1. Toolbox!Outcome(tool, q)' = Toolbox!Outcome(tool, q)
    BY <1>1 DEF Toolbox!Outcome, Toolbox!RunSql, Toolbox!DslQuery, Toolbox!NlQuery, Toolbox!Gated,
         Toolbox!DescribeDataset
  <2> QED
    BY <1>2, <2>1 DEF Toolbox!Answered
<1> HIDE DEF result
<1>4. /\ s9 \in [calls : Nat, errors : Nat, graded : Nat, raised : Nat] /\ s12 \in Nat
      /\ s9.calls \in Nat /\ Toolbox!EnginesAreCurrent /\ Toolbox!Linked
  BY DEF Toolbox!IInv
<1>5. /\ s9' \in [calls : Nat, errors : Nat, graded : Nat, raised : Nat]
      /\ s9'.calls \in {s9.calls, s9.calls + 1}
      /\ result.kind = "ok" => s9'.calls = s9.calls + 1
  BY <1>1, <1>4, ToolboxCounts
<1>6. Toolbox!EnginesAreCurrent'
  <2>1. Toolbox!EngineModel(q) = s3 /\ Toolbox!ModelUsed(tool, q) = s3
    BY <1>4, ToolboxEngine DEF Toolbox!ModelUsed
  <2>2. s4' \subseteq s4 \cup {[synonyms |-> q.synonyms, model |-> s3]}
    BY <1>1, <2>1 DEF Toolbox!CacheEngine
  <2> QED
    BY <1>1, <1>2, <1>4, <2>1, <2>2 DEF Toolbox!EnginesAreCurrent
<1>7. Toolbox!Linked' /\ s12' \in Nat
  BY <1>1, <1>4, <1>5, ToolboxRecord, ToolboxLater
<1> QED
  BY <1>3, <1>5, <1>6, <1>7 DEF Toolbox!IInv

LEMMA ToolboxStep == Toolbox!IInv /\ [Toolbox!Next]_(Toolbox!vars) => Toolbox!IInv'
<1> SUFFICES ASSUME Toolbox!IInv, [Toolbox!Next]_(Toolbox!vars) PROVE Toolbox!IInv'
  OBVIOUS
<1>1. /\ s9 \in [calls : Nat, errors : Nat, graded : Nat, raised : Nat] /\ s12 \in Nat
      /\ s9.calls \in Nat /\ Toolbox!EnginesAreCurrent /\ Toolbox!Linked
  BY DEF Toolbox!IInv
<1>2. ASSUME NEW q \in AskedTools, NEW tool \in Toolbox!Tools, Toolbox!Invoke(tool, q)
      PROVE  Toolbox!IInv'
  BY <1>2, ToolboxInvoke
<1>3. CASE Toolbox!Ingest \/ Toolbox!RefreshBreaks \/ Toolbox!Age
  <2>1. /\ UNCHANGED <<s5, s6, s7, s9, s10, s12>> /\ s8'.tool = "none"
        /\ s4' = {} \/ (s4' = s4 /\ s3' = s3)
    BY <1>3 DEF Toolbox!Ingest, Toolbox!RefreshBreaks, Toolbox!Age, Toolbox!lineage, Toolbox!Idle,
         Toolbox!Refresh
  <2>2. Toolbox!Linked'
    BY <1>1, <2>1, ToolboxLater
  <2>3. Toolbox!EnginesAreCurrent' /\ Toolbox!Answered'
    BY <1>1, <2>1 DEF Toolbox!EnginesAreCurrent, Toolbox!Answered
  <2> QED
    BY <1>1, <2>1, <2>2, <2>3 DEF Toolbox!IInv
<1>4. CASE Toolbox!Restart
  <2>1. /\ s4' = {} /\ s8'.tool = "none" /\ s7' = <<>>
        /\ s5' = IF s6 = Toolbox!Torn THEN <<>> ELSE s6
        /\ UNCHANGED <<s6, s9, s10, s12>>
    BY <1>4 DEF Toolbox!Restart, Toolbox!Idle
  <2>2. Toolbox!EnginesAreCurrent' /\ Toolbox!Answered'
    BY <2>1 DEF Toolbox!EnginesAreCurrent, Toolbox!Answered
  <2>3. s12 = 0 => s6 # Toolbox!Torn
    <3>1. 0 \notin DOMAIN s5
      BY <1>1 DEF Toolbox!Linked
    <3>2. s5 # Toolbox!Torn
      BY <3>1 DEF Toolbox!Torn
    <3> QED
      BY <1>1, <3>2 DEF Toolbox!Linked
  <2>4. Toolbox!Linked'
    <3>1. s7' \in Seq(1 .. s9'.calls) /\ DOMAIN s7' = {}
      BY <2>1
    <3>2. DOMAIN s5' \subseteq 1 .. s9.calls
      BY <1>1, <2>1 DEF Toolbox!Linked
    <3>3. s12' = 0 => s6' = s5' /\ DOMAIN s5' = s10'
      BY <1>1, <2>1, <2>3 DEF Toolbox!Linked
    <3> QED
      BY <1>1, <2>1, <3>1, <3>2, <3>3 DEF Toolbox!Linked
  <2> QED
    BY <1>1, <2>1, <2>2, <2>4 DEF Toolbox!IInv
<1>5. CASE UNCHANGED Toolbox!vars
  <2>1. UNCHANGED <<s2, s3, s4, s5, s6, s7, s8, s9, s10, s12>>
    BY <1>5 DEF Toolbox!vars, Toolbox!lineage
  <2>2. Toolbox!Outcome(s8.tool, s8.q)' = Toolbox!Outcome(s8.tool, s8.q)
    BY <2>1 DEF Toolbox!Outcome, Toolbox!RunSql, Toolbox!DslQuery, Toolbox!NlQuery, Toolbox!Gated,
         Toolbox!DescribeDataset
  <2>3. Toolbox!Answered'
    BY <2>1, <2>2 DEF Toolbox!Answered, Toolbox!IInv
  <2>4. Toolbox!EnginesAreCurrent' /\ Toolbox!Linked'
    BY <1>1, <2>1, ToolboxLater DEF Toolbox!EnginesAreCurrent
  <2> QED
    BY <1>1, <2>1, <2>3, <2>4 DEF Toolbox!IInv
<1> QED
  BY <1>2, <1>3, <1>4, <1>5 DEF Toolbox!Next

(* A value of Outcome, tool by tool. *)
LEMMA ToolboxOutcomes ==
    ASSUME NEW q
    PROVE  /\ Toolbox!Outcome("dsl_query", q) = Toolbox!DslQuery(q)
           /\ Toolbox!Outcome("nl_query", q) = Toolbox!NlQuery(q)
           /\ Toolbox!Outcome("event_impact", q) = Toolbox!EventImpact(q)
           /\ Toolbox!Outcome("matched_impact", q) = Toolbox!MatchedImpact(q)
BY DEF Toolbox!Outcome

LEMMA ToolboxTier ==
    ASSUME NEW n, NEW cov, NEW gates
    PROVE  Toolbox!Graded(n, cov, gates).tier \in Toolbox!Tier
<1>1. \A th, m, c, b : Toolbox!Grade(th, m, c, gates, b) \in Toolbox!Tier
  BY DEF Toolbox!Grade, Toolbox!EvidenceTier, Toolbox!MinTier, Toolbox!Tier, Toolbox!Rank
<1> HIDE DEF Toolbox!Grade
<1> QED
  BY <1>1 DEF Toolbox!Graded, Toolbox!Result

LEMMA ToolboxSupported ==
    Toolbox!IInv => /\ Toolbox!EnginesAreCurrent /\ Toolbox!PlannedAnswersAreFresh
                    /\ Toolbox!ClaimsAreSupported
<1> SUFFICES ASSUME Toolbox!IInv
             PROVE  Toolbox!PlannedAnswersAreFresh /\ Toolbox!ClaimsAreSupported
  BY DEF Toolbox!IInv
<1>1. s8.tool # "none" => s8.q \in AskedTools /\ s8.result = Toolbox!Outcome(s8.tool, s8.q)
  BY DEF Toolbox!IInv, Toolbox!Answered
<1>2. Toolbox!PlannedAnswersAreFresh
  <2> SUFFICES ASSUME s8.tool \in {"dsl_query", "nl_query"}, s8.result.kind = "ok",
                      s8.result.asserts, ~s8.q.allow, s8.q.joined \cap s2 # {}
               PROVE  FALSE
    BY DEF Toolbox!PlannedAnswersAreFresh, Toolbox!DslTools
  <2> DEFINE q == s8.q
  <2>1. s8.result = Toolbox!DslQuery(q) \/ s8.result = Toolbox!NlQuery(q)
    BY <1>1, ToolboxOutcomes
  <2>2. s8.result \in {Toolbox!Failed, Toolbox!Rejected, Toolbox!StaleResult}
    BY <2>1 DEF Toolbox!DslQuery, Toolbox!NlQuery, Toolbox!Guarded, Toolbox!Gated
  <2>3. \A r \in {Toolbox!Failed, Toolbox!Rejected, Toolbox!StaleResult} : r.kind = "ok" => ~r.asserts
    BY DEF Toolbox!Failed, Toolbox!Rejected, Toolbox!StaleResult, Toolbox!Result
  <2> QED
    BY <2>2, <2>3
<1>3. Toolbox!ClaimsAreSupported
  <2> SUFFICES ASSUME s8.tool \in {"event_impact", "matched_impact"}, s8.result.kind = "ok"
               PROVE  /\ s8.result.asserts <=> s8.result.tier # "INSUFFICIENT"
                      /\ s8.tool = "matched_impact" =>
                            Toolbox!Rank[s8.result.tier]
                              <= Toolbox!Rank[Toolbox!MappedVerdict[s8.q.verdict]]
    BY DEF Toolbox!ClaimsAreSupported, Toolbox!Causal
  <2> DEFINE q == s8.q
  <2>1. q \in AskedTools /\ s8.result = Toolbox!Outcome(s8.tool, q)
    BY <1>1
  <2>2. q.verdict \in Toolbox!Verdict
    BY <2>1, AskedAssumption DEF Toolbox!Question
  <2>3. \A tier : /\ Toolbox!Claim(tier, FALSE).tier = tier
                  /\ Toolbox!Claim(tier, FALSE).asserts <=> tier # "INSUFFICIENT"
                  /\ Toolbox!Claim(tier, tier = "INSUFFICIENT").tier = tier
                  /\ Toolbox!Claim(tier, tier = "INSUFFICIENT").asserts <=> tier # "INSUFFICIENT"
    BY DEF Toolbox!Claim, Toolbox!Result
  <2>4. Toolbox!Failed.kind # "ok" /\ Toolbox!Rejected.kind # "ok"
    BY DEF Toolbox!Failed, Toolbox!Rejected, Toolbox!Result
  <2> HIDE DEF q
  <2>5. CASE s8.tool = "event_impact"
    <3> DEFINE t == Toolbox!Graded(q.rows, 100, [has_pre |-> q.rows > 0, has_post |-> q.rows > 0]).tier
    <3>1. s8.result = Toolbox!EventImpact(q)
      BY <2>1, <2>5, ToolboxOutcomes
    <3>2. s8.result = Toolbox!Claim(t, t = "INSUFFICIENT")
      BY <2>4, <3>1 DEF Toolbox!EventImpact
    <3> HIDE DEF t
    <3>3. s8.result.tier = t /\ (s8.result.asserts <=> t # "INSUFFICIENT")
      BY <2>3, <3>2
    <3> QED
      BY <2>5, <3>3
  <2>6. CASE s8.tool = "matched_impact"
    <3> DEFINE v == Toolbox!MappedVerdict[q.verdict]
               t == Toolbox!Graded(q.base, q.cover, [aa |-> TRUE, parallelTrends |-> q.gate]).tier
    <3>1. s8.result = Toolbox!MatchedImpact(q)
      BY <2>1, <2>6, ToolboxOutcomes
    <3>2. s8.result = Toolbox!Claim(Toolbox!MinTier(v, t), FALSE)
      BY <2>4, <3>1 DEF Toolbox!MatchedImpact, Toolbox!Guarded
    <3>3. v \in Toolbox!Tier /\ t \in Toolbox!Tier
      BY <2>2, ToolboxTier DEF Toolbox!MappedVerdict, Toolbox!Verdict, Toolbox!Tier
    <3> HIDE DEF v, t
    <3>4. Toolbox!Rank[Toolbox!MinTier(v, t)] <= Toolbox!Rank[v]
      BY <3>3 DEF Toolbox!MinTier, Toolbox!Rank, Toolbox!Tier
    <3>5. /\ s8.result.tier = Toolbox!MinTier(v, t)
          /\ s8.result.asserts <=> Toolbox!MinTier(v, t) # "INSUFFICIENT"
      BY <2>3, <3>2
    <3>6. s8.result.asserts <=> s8.result.tier # "INSUFFICIENT"
      BY <3>5
    <3> QED
      BY <3>4, <3>5, <3>6 DEF v, q
  <2> QED
    BY <2>5, <2>6 DEF q
<1> QED
  BY <1>2, <1>3

(* The ids that an id leads back to: those in every set that holds the id and with
   each id its parents. *)
ClosedUp(S, up, D) == \A i \in S : up[i] \cap D \subseteq S

IsTrace(f, D, up) == f = [i \in D |-> {i} \cup UNION {f[p] : p \in up[i] \cap (D \ {i})}]

LEMMA TraceExists ==
    ASSUME NEW D, NEW up
    PROVE  \E f : IsTrace(f, D, up)
<1> DEFINE R(i) == {j \in D : \A S \in SUBSET D : i \in S /\ ClosedUp(S, up, D) => j \in S}
           f == [i \in D |-> R(i)]
           T(i) == {i} \cup UNION {R(p) : p \in up[i] \cap (D \ {i})}
<1>1. ASSUME NEW i \in D PROVE i \in R(i) /\ R(i) \subseteq D
  OBVIOUS
<1>2. ASSUME NEW i \in D, NEW j \in R(i), NEW p \in up[j] \cap D PROVE p \in R(i)
  BY DEF ClosedUp
<1>3. ASSUME NEW i \in D, NEW p \in up[i] \cap D, NEW j \in R(p) PROVE j \in R(i)
  BY DEF ClosedUp
<1>4. ASSUME NEW i \in D, NEW S \in SUBSET D, i \in S, ClosedUp(S, up, D) PROVE R(i) \subseteq S
  BY <1>4
<1> HIDE DEF R
<1>5. ASSUME NEW i \in D PROVE R(i) = T(i)
  <2>1. T(i) \subseteq R(i)
    BY <1>1, <1>3
  <2>2. i \in T(i) /\ T(i) \in SUBSET D
    BY <1>1
  <2>3. ClosedUp(T(i), up, D)
    <3> SUFFICES ASSUME NEW j \in T(i), NEW p \in up[j] \cap D PROVE p \in T(i)
      BY DEF ClosedUp
    <3>1. CASE j = i
      BY <1>1, <3>1
    <3>2. ASSUME NEW q \in up[i] \cap (D \ {i}), j \in R(q) PROVE p \in T(i)
      <4>1. p \in R(q)
        BY <1>2, <3>2
      <4> QED
        BY <4>1
    <3> QED
      BY <3>1, <3>2
  <2> QED
    BY <1>4, <2>1, <2>2, <2>3
<1>6. \A i \in D : f[i] = R(i)
  OBVIOUS
<1>7. ASSUME NEW i \in D PROVE T(i) = {i} \cup UNION {f[p] : p \in up[i] \cap (D \ {i})}
  <2>1. \A p \in up[i] \cap (D \ {i}) : f[p] = R(p)
    BY <1>6
  <2> HIDE DEF f
  <2> QED
    BY <2>1
<1>8. \A i \in D : R(i) = {i} \cup UNION {f[p] : p \in up[i] \cap (D \ {i})}
  BY <1>5, <1>7
<1>9. IsTrace(f, D, up)
  BY <1>8 DEF IsTrace
<1> QED
  BY <1>9

LEMMA TraceIs ==
    ASSUME NEW D, D = DOMAIN s5
    PROVE  \E f : IsTrace(f, D, s5) /\ \A i : Toolbox!Trace(i) = f[i]
<1> DEFINE g == CHOOSE f : IsTrace(f, D, s5)
<1>1. IsTrace(g, D, s5)
  BY TraceExists
<1>2. \A i : Toolbox!Trace(i) = g[i]
  BY DEF Toolbox!Trace, IsTrace
<1> HIDE DEF g
<1> QED
  BY <1>1, <1>2

(* Each answer of a conversation leads back to all the earlier ones. *)
LEMMA ToolboxLineage == Toolbox!IInv => Toolbox!LineageComplete
<1> SUFFICES ASSUME Toolbox!IInv PROVE Toolbox!LineageComplete
  OBVIOUS
<1> DEFINE D == DOMAIN s5
           n == Len(s7)
           upto(i) == {s7[k] : k \in 1 .. i}
<1>1. /\ s7 \in Seq(1 .. s9.calls) /\ n \in Nat /\ DOMAIN s7 = 1 .. n
      /\ \A j, k \in DOMAIN s7 : j < k => s7[j] < s7[k]
      /\ \A k \in DOMAIN s7 : s7[k] \in D /\ s5[s7[k]] = {s7[j] : j \in 1 .. k - 1}
      /\ s12 = 0 => D = s10
      /\ s9.calls \in Nat
  BY DEF Toolbox!IInv, Toolbox!Linked
<1>2. PICK f : IsTrace(f, D, s5) /\ \A i : Toolbox!Trace(i) = f[i]
  BY TraceIs
<1>3. \A i \in D : f[i] = {i} \cup UNION {f[p] : p \in s5[i] \cap (D \ {i})}
  BY <1>2 DEF IsTrace
<1> DEFINE Good(i) == f[s7[i]] = upto(i)
           S == {m \in Nat : \A i \in 1 .. n : i <= m => Good(i)}
<1>4. 0 \in S
  BY <1>1
<1>5. ASSUME NEW m \in Nat, m \in S PROVE m + 1 \in S
  <2> SUFFICES ASSUME m + 1 \in 1 .. n PROVE f[s7[m + 1]] = upto(m + 1)
    <3> HIDE DEF Good, n
    <3>1. ASSUME NEW i \in 1 .. n, i <= m + 1 PROVE i <= m \/ i = m + 1
      BY <1>1, <3>1
    <3>2. m + 1 \in 1 .. n => Good(m + 1)
      BY DEF Good
    <3> QED
      BY <1>1, <1>5, <3>1, <3>2
  <2> DEFINE a == s7[m + 1]
  <2>1. a \in D /\ s5[a] = {s7[j] : j \in 1 .. m}
    <3>1. m + 1 \in DOMAIN s7 /\ m + 1 - 1 = m
      BY <1>1
    <3> QED
      BY <1>1, <3>1
  <2>2. \A j \in 1 .. m : j \in DOMAIN s7 /\ j < m + 1 /\ m + 1 \in DOMAIN s7
    BY <1>1
  <2>3. \A j \in 1 .. m : s7[j] \in D /\ s7[j] # a
    <3> TAKE j \in 1 .. m
    <3>1. s7[j] < a /\ s7[j] \in D
      BY <1>1, <2>2
    <3>2. s7[j] \in 1 .. s9.calls /\ a \in 1 .. s9.calls
      BY <1>1, <2>2
    <3> QED
      BY <1>1, <3>1, <3>2
  <2> HIDE DEF a, D
  <2>4. s5[a] \cap (D \ {a}) = {s7[j] : j \in 1 .. m}
    BY <2>1, <2>3
  <2>5. f[a] = {a} \cup UNION {f[p] : p \in {s7[j] : j \in 1 .. m}}
    BY <1>3, <2>1, <2>4
  <2>6. \A j \in 1 .. m : f[s7[j]] = upto(j)
    BY <1>1, <1>5, <2>2
  <2>7. UNION {f[p] : p \in {s7[j] : j \in 1 .. m}} = upto(m)
    <3>1. ASSUME NEW x \in UNION {f[p] : p \in {s7[j] : j \in 1 .. m}} PROVE x \in upto(m)
      <4>1. PICK j \in 1 .. m : x \in f[s7[j]]
        OBVIOUS
      <4>2. PICK k \in 1 .. j : x = s7[k]
        BY <2>6, <4>1
      <4>3. k \in 1 .. m
        OBVIOUS
      <4> QED
        BY <4>2, <4>3
    <3>2. ASSUME NEW x \in upto(m) PROVE x \in UNION {f[p] : p \in {s7[j] : j \in 1 .. m}}
      <4>1. PICK k \in 1 .. m : x = s7[k]
        OBVIOUS
      <4>2. x \in upto(k)
        BY <4>1
      <4>3. x \in f[s7[k]]
        BY <2>6, <4>2
      <4> HIDE DEF upto
      <4> QED
        BY <4>3
    <3> HIDE DEF upto
    <3> QED
      BY <3>1, <3>2
  <2>8. upto(m + 1) = upto(m) \cup {a}
    <3>1. 1 .. m + 1 = 1 .. m \cup {m + 1}
      OBVIOUS
    <3> QED
      BY <3>1 DEF a
  <2> HIDE DEF upto
  <2> QED
    BY <2>5, <2>7, <2>8 DEF a
<1> HIDE DEF S
<1>6. Nat \subseteq S
  BY <1>4, <1>5, NatSetInduction
<1>7. \A i \in DOMAIN s7 : Toolbox!Trace(s7[i]) = upto(i)
  <2> TAKE i \in DOMAIN s7
  <2>1. i \in S /\ i \in 1 .. n
    BY <1>1, <1>6
  <2>2. i \in Nat /\ i <= i
    BY <1>1, <2>1
  <2> HIDE DEF Good, n
  <2>3. Good(i)
    BY <2>1, <2>2 DEF S
  <2>4. f[s7[i]] = upto(i)
    BY <2>3 DEF Good
  <2> QED
    BY <1>2, <2>4
<1> QED
  BY <1>1, <1>7 DEF Toolbox!LineageComplete
------------------------------------------------------------------------------
(* The model cache. *)

LEMMA ModelsInit == Models!Init => Models!IInv
<1> SUFFICES ASSUME Models!Init PROVE Models!IInv
  OBVIOUS
<1>1. /\ s1 \in [rows : Nat, shape : Nat, empty : SUBSET Columns] /\ s1.shape = 0
      /\ DOMAIN s2 = {} /\ s3 = [w \in Worker |-> 0]
      /\ s6 = [w \in Worker |-> Models!NoJob] /\ s7.hit = FALSE
  BY DEF Models!Init, Models!Nothing
<1> QED
  BY <1>1 DEF Models!IInv, Models!SoundEntriesServed

(* What a worker has, and is filed, after a step in which the data only grew. *)
LEMMA ModelsKept ==
    ASSUME Models!IInv,
           s1' \in [rows : Nat, shape : Nat, empty : SUBSET Columns], s1.shape <= s1'.shape,
           s3' \in [Worker -> Nat], \A w \in Worker : s3'[w] <= s1'.shape,
           DOMAIN s6' = Worker, \A w \in Worker : s6'[w] = s6[w] \/ s6'[w] = Models!NoJob,
           UNCHANGED s2, s7'.hit = FALSE
    PROVE  Models!IInv'
<1>1. s1.shape \in Nat /\ s1'.shape \in Nat
  BY DEF Models!IInv
<1>2. \A k \in DOMAIN s2' : Models!IsEnvelope(s2'[k]) /\ Models!Filed(k, s2'[k].model, s1'.shape)
  BY <1>1 DEF Models!IInv, Models!Filed
<1>3. \A w \in Worker : s6'[w] # Models!NoJob => Models!Filed(s6'[w].key, s6'[w].model, s1'.shape)
  BY <1>1 DEF Models!IInv, Models!Filed
<1> QED
  BY <1>2, <1>3 DEF Models!IInv, Models!SoundEntriesServed, Models!IsEnvelope, Models!Filed

LEMMA ModelsHit ==
    ASSUME Models!IInv, NEW w \in Worker, NEW r \in Request, Models!Hit(w, r)
    PROVE  Models!IInv'
<1> DEFINE k == Models!KeyOf(w, r)
           e == s2[k]
<1>1. /\ Models!Loaded(k) /\ ~Models!Refused(e)
      /\ s7' = Models!Served(w, r, e, TRUE)
      /\ UNCHANGED <<s1, s2, s3, s4, s6, s8>>
  BY DEF Models!Hit
<1>2. k[1] = s3[w]
  BY DEF Models!KeyOf, Models!ModelKey
<1> HIDE DEF k
<1>3. k \in DOMAIN s2 /\ e.current /\ s8 - e.trained <= TTL
  BY <1>1 DEF Models!Loaded
<1>4. /\ s7'.hit = TRUE /\ s7'.model = e.model /\ s7'.seal = e.seal
      /\ s7'.age = s8 - e.trained /\ s7'.sig = s3[w]
  BY <1>1 DEF Models!Served
<1>5. Models!SoundEntriesServed'
  BY <1>1, <1>3, <1>4 DEF Models!SoundEntriesServed, Models!Refused
<1>6. Models!Filed(k, e.model, s1.shape)
  BY <1>3 DEF Models!IInv
<1>7. Models!Filed(<<s7'.sig>>, s7'.model, s1'.shape)
  BY <1>1, <1>2, <1>4, <1>6 DEF Models!Filed
<1> QED
  BY <1>1, <1>5, <1>7 DEF Models!IInv, Models!Filed

LEMMA ModelsMiss ==
    ASSUME Models!IInv, NEW w \in Worker, NEW r \in Request, Models!Miss(w, r)
    PROVE  Models!IInv'
<1> DEFINE k == Models!KeyOf(w, r)
           m == [table |-> r.table, columns |-> Models!Features(r),
                 shape |-> s1.shape, backend |-> s5[w]]
           j == [key |-> k, request |-> r, model |-> m]
<1>1. /\ s6' = [s6 EXCEPT ![w] = j] /\ s7'.hit = FALSE
      /\ UNCHANGED <<s1, s2, s3, s4>>
  BY DEF Models!Miss, Models!Nothing
<1>2. k[1] = s3[w]
  BY DEF Models!KeyOf, Models!ModelKey
<1> HIDE DEF k
<1>3. j.key = k /\ j.model.shape = s1.shape
  OBVIOUS
<1>4. Models!Filed(j.key, j.model, s1.shape)
  BY <1>2, <1>3 DEF Models!IInv, Models!Filed
<1> HIDE DEF j
<1>5. \A v \in Worker : s6'[v] # Models!NoJob => Models!Filed(s6'[v].key, s6'[v].model, s1.shape)
  BY <1>1, <1>4 DEF Models!IInv
<1>6. DOMAIN s6' = Worker
  BY <1>1 DEF Models!IInv
<1> QED
  BY <1>1, <1>5, <1>6 DEF Models!IInv, Models!SoundEntriesServed, Models!Filed

LEMMA ModelsTrained ==
    ASSUME Models!IInv, NEW w \in Worker, Models!Trained(w) PROVE Models!IInv'
<1> DEFINE j == s6[w]
           e == Models!Envelope(j.model)
<1>1. /\ j # Models!NoJob /\ s6' = [s6 EXCEPT ![w] = Models!NoJob]
      /\ s2' = [k \in DOMAIN s2 \cup {j.key} |-> IF k = j.key THEN e ELSE s2[k]]
      /\ s7' = Models!Served(w, j.request, e, FALSE)
      /\ UNCHANGED <<s1, s3, s4>>
  BY DEF Models!Trained
<1>2. Models!Filed(j.key, j.model, s1.shape)
  BY <1>1 DEF Models!IInv
<1>3. e.model = j.model /\ Models!IsEnvelope(e)
  BY DEF Models!Envelope, Models!IsEnvelope
<1> HIDE DEF j, e
<1>4. s7'.hit = FALSE
  BY <1>1 DEF Models!Served
<1>5. \A k \in DOMAIN s2' : Models!IsEnvelope(s2'[k]) /\ Models!Filed(k, s2'[k].model, s1.shape)
  BY <1>1, <1>2, <1>3 DEF Models!IInv
<1>6. DOMAIN s6' = Worker /\ \A v \in Worker : s6'[v] = s6[v] \/ s6'[v] = Models!NoJob
  BY <1>1 DEF Models!IInv
<1> QED
  BY <1>1, <1>4, <1>5, <1>6 DEF Models!IInv, Models!SoundEntriesServed, Models!Filed,
     Models!IsEnvelope

LEMMA ModelsTamper ==
    ASSUME Models!IInv, NEW k \in DOMAIN s2, Models!Tamper(k) PROVE Models!IInv'
<1>1. PICK e \in {[s2[k] EXCEPT !.seal = "bad"], [s2[k] EXCEPT !.seal = "none"],
                  [s2[k] EXCEPT !.current = FALSE]} : s2' = [s2 EXCEPT ![k] = e]
  BY DEF Models!Tamper
<1>2. s7'.hit = FALSE /\ UNCHANGED <<s1, s3, s4, s6>>
  BY DEF Models!Tamper, Models!Nothing
<1>3. Models!IsEnvelope(s2[k]) /\ Models!Filed(k, s2[k].model, s1.shape)
  BY DEF Models!IInv
<1>4. e.model = s2[k].model /\ Models!IsEnvelope(e)
  BY <1>3 DEF Models!IsEnvelope
<1>5. \A l \in DOMAIN s2' : Models!IsEnvelope(s2'[l]) /\ Models!Filed(l, s2'[l].model, s1.shape)
  BY <1>1, <1>3, <1>4 DEF Models!IInv
<1> QED
  BY <1>2, <1>5 DEF Models!IInv, Models!SoundEntriesServed, Models!Filed, Models!IsEnvelope

LEMMA ModelsChange == ASSUME Models!IInv, Models!Change PROVE Models!IInv'
<1>1. s1 \in [rows : Nat, shape : Nat, empty : SUBSET Columns]
  BY DEF Models!IInv
<1>2. /\ s1' \in [rows : Nat, shape : Nat, empty : SUBSET Columns]
      /\ s1'.shape \in {s1.shape, s1.shape + 1}
  <2>1. CASE s1' = [s1 EXCEPT !.rows = 1]
    BY <1>1, <2>1
  <2>2. ASSUME NEW empty \in {{}} \cup {{c} : c \in Columns},
               s1' = [rows |-> 1, shape |-> s1.shape + 1, empty |-> empty]
        PROVE  /\ s1' \in [rows : Nat, shape : Nat, empty : SUBSET Columns]
               /\ s1'.shape = s1.shape + 1
    BY <1>1, <2>2
  <2> QED
    BY <2>1, <2>2 DEF Models!Change
<1>3. s7'.hit = FALSE /\ UNCHANGED <<s2, s3, s6>>
  BY DEF Models!Change, Models!Nothing
<1>4. s1.shape \in Nat /\ s1'.shape \in Nat /\ s1.shape <= s1'.shape
  BY <1>1, <1>2
<1>5. /\ s3' \in [Worker -> Nat] /\ \A w \in Worker : s3'[w] <= s1'.shape
      /\ DOMAIN s6' = Worker /\ \A w \in Worker : s6'[w] = s6[w]
  BY <1>3, <1>4 DEF Models!IInv
<1> QED
  BY <1>2, <1>3, <1>4, <1>5, ModelsKept

LEMMA ModelsRestart ==
    ASSUME Models!IInv, NEW w \in Worker, Models!Restart(w) PROVE Models!IInv'
<1>1. /\ s3' = [s3 EXCEPT ![w] = s1.shape] /\ s6' = [s6 EXCEPT ![w] = Models!NoJob]
      /\ s7'.hit = FALSE /\ UNCHANGED <<s1, s2>>
  BY DEF Models!Restart, Models!Nothing, Models!Fingerprint
<1>2. s1 \in [rows : Nat, shape : Nat, empty : SUBSET Columns] /\ s1.shape \in Nat
  BY DEF Models!IInv
<1>3. s3' \in [Worker -> Nat] /\ \A v \in Worker : s3'[v] <= s1'.shape
  BY <1>1, <1>2 DEF Models!IInv
<1>4. DOMAIN s6' = Worker /\ \A v \in Worker : s6'[v] = s6[v] \/ s6'[v] = Models!NoJob
  BY <1>1 DEF Models!IInv
<1> QED
  BY <1>1, <1>2, <1>3, <1>4, ModelsKept

LEMMA ModelsStep == Models!IInv /\ [Models!Next]_(Models!vars) => Models!IInv'
<1> SUFFICES ASSUME Models!IInv, [Models!Next]_(Models!vars) PROVE Models!IInv'
  OBVIOUS
<1>1. ASSUME UNCHANGED <<s1, s2, s3>>, s7'.hit = FALSE, DOMAIN s6' = Worker,
             \A v \in Worker : s6'[v] = s6[v] \/ s6'[v] = Models!NoJob
      PROVE  Models!IInv'
  <2>1. /\ s1' \in [rows : Nat, shape : Nat, empty : SUBSET Columns]
        /\ s1.shape \in Nat /\ s1.shape <= s1'.shape
        /\ s3' \in [Worker -> Nat] /\ \A v \in Worker : s3'[v] <= s1'.shape
    BY <1>1 DEF Models!IInv
  <2> QED
    BY <1>1, <2>1, ModelsKept
<1>2. ASSUME NEW w \in Worker, NEW r \in Request, Models!Fail(w, r) PROVE Models!IInv'
  BY <1>1, <1>2 DEF Models!Fail, Models!Nothing, Models!IInv
<1>3. ASSUME NEW w \in Worker, Models!TrainingBreaks(w) PROVE Models!IInv'
  <2>1. DOMAIN s6' = Worker /\ \A v \in Worker : s6'[v] = s6[v] \/ s6'[v] = Models!NoJob
    BY <1>3 DEF Models!TrainingBreaks, Models!IInv
  <2> QED
    BY <1>1, <1>3, <2>1 DEF Models!TrainingBreaks, Models!Nothing
<1>4. CASE Models!Tick
  BY <1>1, <1>4 DEF Models!Tick, Models!Nothing, Models!IInv
<1>5. CASE UNCHANGED Models!vars
  BY <1>5 DEF Models!vars, Models!IInv, Models!SoundEntriesServed, Models!Filed, Models!IsEnvelope
<1> QED
  BY <1>2, <1>3, <1>4, <1>5, ModelsHit, ModelsMiss, ModelsTrained, ModelsTamper, ModelsChange,
     ModelsRestart DEF Models!Next

LEMMA ModelsSound ==
    Models!IInv => Models!SoundEntriesServed /\ Models!FreshAfterStart
<1> SUFFICES ASSUME Models!IInv, s7.hit, s7.sig = s1.shape PROVE s7.model.shape = s1.shape
  BY DEF Models!IInv, Models!FreshAfterStart, Models!Fingerprint
<1>1. Models!Filed(<<s7.sig>>, s7.model, s1.shape) /\ s1.shape \in Nat
  BY DEF Models!IInv
<1> QED
  BY <1>1 DEF Models!Filed
------------------------------------------------------------------------------
(* The topic. *)

LEMMA TopicInit == Topic!Init => Topic!IInv
<1> SUFFICES ASSUME Topic!Init PROVE Topic!IInv
  OBVIOUS
<1>1. /\ s1 = <<>> /\ s2 = 0 /\ s3 = 0 /\ s4 = {} /\ s6 = {} /\ s9 = 0 /\ s10 = 0 /\ s11 = 0
      /\ s7 = [batch_errors |-> 0, errors |-> 0, row_breach |-> 0, metric_breach |-> 0]
  BY DEF Topic!Init
<1>2. s1 \in Seq(RecordKey \cup {Poison}) /\ Len(s1) = 0 /\ Topic!Upto(0) = {}
  BY <1>1 DEF Topic!Upto
<1> QED
  BY <1>1, <1>2 DEF Topic!IInv

(* The records of a piece of the log. *)
LEMMA Piece ==
    ASSUME NEW S, NEW s \in Seq(S), NEW m \in Nat \ {0}, NEW n \in Nat, m <= n + 1, n <= Len(s)
    PROVE  /\ Len(SubSeq(s, m, n)) = n - m + 1
           /\ Topic!ToSet(SubSeq(s, m, n)) = {s[i] : i \in m .. n}
<1> DEFINE p == SubSeq(s, m, n)
<1>1. /\ p \in Seq(S) /\ Len(p) = n - m + 1 /\ \A i \in 1 .. n - m + 1 : p[i] = s[m + i - 1]
  <2>1. CASE m = n + 1
    <3>1. p \in Seq(S) /\ Len(p) = 0
      BY <2>1
    <3> QED
      BY <2>1, <3>1
  <2>2. CASE m <= n
    <3>1. m \in 1 .. Len(s) + 1 /\ n \in m - 1 .. Len(s)
      BY <2>2
    <3> QED
      BY <2>2, <3>1, SubSeqProperties
  <2> QED
    BY <2>1, <2>2
<1>2. DOMAIN p = 1 .. n - m + 1
  BY <1>1
<1> HIDE DEF p
<1>3. Topic!ToSet(p) = {p[i] : i \in 1 .. n - m + 1}
  BY <1>2 DEF Topic!ToSet
<1>4. \A i \in m .. n : i - m + 1 \in 1 .. n - m + 1 /\ s[i] = p[i - m + 1]
  BY <1>1
<1>5. \A i \in 1 .. n - m + 1 : m + i - 1 \in m .. n /\ p[i] = s[m + i - 1]
  BY <1>1
<1>6. {p[i] : i \in 1 .. n - m + 1} = {s[i] : i \in m .. n}
  BY <1>4, <1>5
<1> QED
  BY <1>1, <1>3, <1>6 DEF p

(* A poll moves the position past what it fetched. *)
LEMMA TopicFetched ==
    ASSUME Topic!IInv, s2 < Len(s1)
    PROVE  LET n == s2 + Len(Topic!Fetched)
           IN  /\ n \in Nat /\ s2 <= n /\ n <= Len(s1)
               /\ Topic!Upto(n) = Topic!Upto(s2) \cup Topic!ToSet(Topic!Fetched)
<1> DEFINE e == IF Len(s1) < s2 + MaxRecords THEN Len(s1) ELSE s2 + MaxRecords
<1>1. s1 \in Seq(RecordKey \cup {Poison}) /\ s2 \in Nat /\ Len(s1) \in Nat
  BY DEF Topic!IInv
<1>2. e \in Nat /\ s2 <= e /\ e <= Len(s1)
  BY <1>1, RecordsAssumption
<1>3. Topic!Fetched = SubSeq(s1, s2 + 1, e)
  BY DEF Topic!Fetched
<1> HIDE DEF e
<1>4. Len(Topic!Fetched) = e - s2 /\ Topic!ToSet(Topic!Fetched) = {s1[i] : i \in s2 + 1 .. e}
  <2>1. s2 + 1 \in Nat \ {0} /\ s2 + 1 <= e + 1 /\ e - (s2 + 1) + 1 = e - s2
    BY <1>1, <1>2
  <2> QED
    BY <1>1, <1>2, <1>3, <2>1, Piece
<1>6. s2 + Len(Topic!Fetched) = e
  BY <1>1, <1>2, <1>4
<1>7. 1 .. e = (1 .. s2) \cup (s2 + 1 .. e)
  BY <1>1, <1>2
<1>8. Topic!Upto(e) = Topic!Upto(s2) \cup {s1[i] : i \in s2 + 1 .. e}
  BY <1>7 DEF Topic!Upto
<1> QED
  BY <1>2, <1>4, <1>6, <1>8

LEMMA TopicProduce ==
    ASSUME Topic!IInv, NEW value \in RecordKey \cup {Poison}, Topic!Produce(value)
    PROVE  Topic!IInv'
<1>1. /\ s1' = Append(s1, value) /\ UNCHANGED <<s2, s3, s4, s5, s6, s7, s9, s10, s11>>
  BY DEF Topic!Produce
<1>2. /\ s1 \in Seq(RecordKey \cup {Poison}) /\ s2 \in Nat /\ s3 \in Nat
      /\ s2 <= Len(s1) /\ s3 <= s2
  BY DEF Topic!IInv
<1>3. /\ s1' \in Seq(RecordKey \cup {Poison}) /\ Len(s1') = Len(s1) + 1 /\ Len(s1) \in Nat
      /\ \A i \in 1 .. Len(s1) : s1'[i] = s1[i]
  BY <1>1, <1>2
<1>4. ASSUME NEW n \in Nat, n <= Len(s1)
      PROVE  {s1'[i] : i \in 1 .. n} = {s1[i] : i \in 1 .. n}
  <2>1. \A i \in 1 .. n : s1'[i] = s1[i]
    BY <1>3, <1>4
  <2> QED
    BY <2>1
<1>5. Topic!Upto(s2)' = Topic!Upto(s2) /\ Topic!Upto(s3)' = Topic!Upto(s3)
  <2>1. s3 <= Len(s1)
    BY <1>2, <1>3
  <2> QED
    BY <1>1, <1>2, <1>4, <2>1 DEF Topic!Upto
<1>6. s2 <= Len(s1')
  BY <1>2, <1>3
<1> QED
  BY <1>1, <1>3, <1>5, <1>6 DEF Topic!IInv

LEMMA TopicPoll == ASSUME Topic!IInv, Topic!Poll PROVE Topic!IInv'
<1> DEFINE n == s2 + Len(Topic!Fetched)
           new == Topic!ToSet(Topic!Fetched)
<1>1. /\ s5 = "idle" /\ s2 < Len(s1) /\ s2' = n
      /\ IF Poison \in new THEN UNCHANGED <<s4, s5>> ELSE s4' = new /\ s5' = "ingest"
      /\ UNCHANGED <<s1, s3, s6, s7, s9, s10, s11>>
  BY DEF Topic!Poll
<1>2. n \in Nat /\ s2 <= n /\ n <= Len(s1) /\ Topic!Upto(n) = Topic!Upto(s2) \cup new
  BY <1>1, TopicFetched
<1> HIDE DEF n, new
<1>3. s3 \in Nat /\ s2 \in Nat /\ s3 <= s2
  BY DEF Topic!IInv
<1>4. s3 <= n
  BY <1>2, <1>3
<1>5. Topic!Upto(s2)' = Topic!Upto(n) /\ Topic!Upto(s3)' = Topic!Upto(s3)
  BY <1>1 DEF Topic!Upto
<1>6. s4 = {}
  BY <1>1 DEF Topic!IInv
<1>7. s10 = 0 /\ s11 = 0 /\ Poison \notin Topic!Upto(n) => Topic!Upto(n) \subseteq s6 \cup s4'
  BY <1>1, <1>2, <1>6 DEF Topic!IInv
<1>8. s5' # "ingest" => s4' = {}
  BY <1>1, <1>6
<1> QED
  BY <1>1, <1>2, <1>4, <1>5, <1>7, <1>8 DEF Topic!IInv

(* The steps of process() and the loads of the controller. *)
LEMMA TopicRest ==
    ASSUME Topic!IInv,
           \/ Topic!Ingest \/ Topic!IngestBreaks \/ Topic!Commit \/ Topic!Restart
           \/ \E rows \in SUBSET RecordKey, expected \in 0 .. Topic!Cardinality(RecordKey) :
                 Topic!LoadCounted(rows, expected) \/ Topic!LoadReconciled(rows, expected)
           \/ UNCHANGED Topic!vars
    PROVE  Topic!IInv'
<1>1. /\ s1 \in Seq(RecordKey \cup {Poison}) /\ s2 \in Nat /\ s3 \in Nat
      /\ s2 <= Len(s1) /\ s3 <= s2 /\ Len(s1) \in Nat /\ s3 <= Len(s1)
      /\ s9 \in Nat /\ s10 \in Nat /\ s11 \in Nat
      /\ s7 \in [batch_errors : Nat, errors : Nat, row_breach : Nat, metric_breach : Nat]
      /\ s7.errors = s7.batch_errors
      /\ s5 # "ingest" => s4 = {}
  BY DEF Topic!IInv
<1>2. s10 = 0 /\ s11 = 0 =>
         /\ Poison \notin Topic!Upto(s2) => Topic!Upto(s2) \subseteq s6 \cup s4
         /\ Poison \notin Topic!Upto(s3) => Topic!Upto(s3) \subseteq s6
  BY DEF Topic!IInv
<1>3. CASE Topic!Ingest
  <2>1. /\ s6' = s6 \cup s4 /\ s4' = {} /\ UNCHANGED <<s1, s2, s3, s7, s9, s10, s11>>
    BY <1>3 DEF Topic!Ingest
  <2>2. Topic!Upto(s2)' = Topic!Upto(s2) /\ Topic!Upto(s3)' = Topic!Upto(s3)
    BY <2>1 DEF Topic!Upto
  <2> QED
    BY <1>1, <1>2, <2>1, <2>2 DEF Topic!IInv
<1>4. CASE Topic!IngestBreaks
  <2>1. /\ s10' = s10 + 1 /\ s4' = {} /\ UNCHANGED <<s1, s2, s3, s6, s9, s11>>
        /\ s7' = [s7 EXCEPT !.batch_errors = s7.batch_errors + 1, !.errors = s7.errors + 1]
    BY <1>4 DEF Topic!IngestBreaks
  <2>2. /\ s7' \in [batch_errors : Nat, errors : Nat, row_breach : Nat, metric_breach : Nat]
        /\ s7'.errors = s7'.batch_errors
    <3>1. s7' = [batch_errors |-> s7.batch_errors + 1, errors |-> s7.errors + 1,
                 row_breach |-> s7.row_breach, metric_breach |-> s7.metric_breach]
      BY <1>1, <2>1
    <3> QED
      BY <1>1, <3>1
  <2>3. s10' # 0 /\ s10' \in Nat
    BY <1>1, <2>1
  <2> QED
    BY <1>1, <2>1, <2>2, <2>3 DEF Topic!IInv
<1>5. CASE Topic!Commit
  <2>1. s5 = "commit" /\ UNCHANGED <<s1, s2, s4, s6, s7, s9, s11>> /\ s5' = "idle"
    BY <1>5 DEF Topic!Commit
  <2>2. CASE s3' = s2 /\ s10' = s10
    <3>1. Topic!Upto(s2)' = Topic!Upto(s2) /\ Topic!Upto(s3)' = Topic!Upto(s2)
      BY <2>1, <2>2 DEF Topic!Upto
    <3> QED
      BY <1>1, <1>2, <2>1, <2>2, <3>1 DEF Topic!IInv
  <2>3. CASE s10' = s10 + 1 /\ s3' = s3
    <3>1. s10' # 0 /\ s10' \in Nat
      BY <1>1, <2>3
    <3> QED
      BY <1>1, <2>1, <2>3, <3>1 DEF Topic!IInv
  <2> QED
    BY <1>5, <2>2, <2>3 DEF Topic!Commit
<1>6. CASE Topic!Restart
  <2>1. /\ s11' = s11 + 1 /\ s2' = s3 /\ s4' = {} /\ UNCHANGED <<s1, s3, s9, s10>>
        /\ s7' = [name \in DOMAIN s7 |-> 0]
    BY <1>6 DEF Topic!Restart
  <2>2. s7' = [batch_errors |-> 0, errors |-> 0, row_breach |-> 0, metric_breach |-> 0]
    BY <1>1, <2>1
  <2>3. s11' # 0 /\ s11' \in Nat
    BY <1>1, <2>1
  <2> QED
    BY <1>1, <2>1, <2>2, <2>3 DEF Topic!IInv
<1>7. ASSUME NEW rows \in SUBSET RecordKey, NEW expected \in 0 .. Topic!Cardinality(RecordKey),
             Topic!LoadCounted(rows, expected) \/ Topic!LoadReconciled(rows, expected)
      PROVE  Topic!IInv'
  <2>1. /\ s9' = s9 + 1 /\ s6' = s6 \cup rows /\ UNCHANGED <<s1, s2, s3, s4, s5, s10, s11>>
    BY <1>7 DEF Topic!LoadCounted, Topic!LoadReconciled
  <2>2. \E d \in {0, 1} : \/ s7' = [s7 EXCEPT !.row_breach = s7.row_breach + d]
                          \/ s7' = [s7 EXCEPT !.metric_breach = s7.metric_breach + d]
    <3> DEFINE a == IF Topic!RowBreach(Topic!Cardinality(rows), expected) THEN 1 ELSE 0
               b == IF Topic!MetricBreach(Topic!Status(Topic!Cardinality(s6'), expected)) THEN 1 ELSE 0
    <3>1. \/ s7' = [s7 EXCEPT !.row_breach = s7.row_breach + a]
          \/ s7' = [s7 EXCEPT !.metric_breach = s7.metric_breach + b]
      BY <1>7 DEF Topic!LoadCounted, Topic!LoadReconciled
    <3>2. a \in {0, 1} /\ b \in {0, 1}
      OBVIOUS
    <3> HIDE DEF a, b
    <3> QED
      BY <3>1, <3>2
  <2>3. /\ s7' \in [batch_errors : Nat, errors : Nat, row_breach : Nat, metric_breach : Nat]
        /\ s7'.errors = s7'.batch_errors
    BY <1>1, <2>2
  <2>4. Topic!Upto(s2)' = Topic!Upto(s2) /\ Topic!Upto(s3)' = Topic!Upto(s3)
    BY <2>1 DEF Topic!Upto
  <2> QED
    BY <1>1, <1>2, <2>1, <2>3, <2>4 DEF Topic!IInv
<1>8. CASE UNCHANGED Topic!vars
  <2>1. UNCHANGED <<s1, s2, s3, s4, s5, s6, s7, s9, s10, s11>>
    BY <1>8 DEF Topic!vars
  <2>2. Topic!Upto(s2)' = Topic!Upto(s2) /\ Topic!Upto(s3)' = Topic!Upto(s3)
    BY <2>1 DEF Topic!Upto
  <2> QED
    BY <1>1, <1>2, <2>1, <2>2 DEF Topic!IInv
<1> QED
  BY <1>3, <1>4, <1>5, <1>6, <1>7, <1>8

LEMMA TopicStep == Topic!IInv /\ [Topic!Next]_(Topic!vars) => Topic!IInv'
BY TopicProduce, TopicPoll, TopicRest DEF Topic!Next

LEMMA TopicCommitted == Topic!IInv => Topic!CommittedIsServed
<1> SUFFICES ASSUME Topic!IInv PROVE Topic!CommittedIsServed
  OBVIOUS
<1>1. /\ s1 \in Seq(RecordKey \cup {Poison}) /\ s2 \in Nat /\ s3 \in Nat
      /\ s2 <= Len(s1) /\ s3 <= s2 /\ Len(s1) \in Nat
  BY DEF Topic!IInv
<1>2. Topic!ToSet(SubSeq(s1, 1, s3)) = {s1[i] : i \in 1 .. s3}
  <2>1. s3 <= Len(s1) /\ 1 <= s3 + 1 /\ 1 \in Nat \ {0}
    BY <1>1
  <2> QED
    BY <1>1, <2>1, Piece
<1>3. Topic!ToSet(SubSeq(s1, 1, s3)) = Topic!Upto(s3)
  BY <1>2 DEF Topic!Upto
<1> QED
  BY <1>1, <1>3 DEF Topic!IInv, Topic!CommittedIsServed

LEMMA TopicCounted ==
    Topic!IInv /\ [Topic!Next]_(Topic!vars) => Topic!BreachesCounted
<1> SUFFICES ASSUME Topic!IInv, [Topic!Next]_(Topic!vars) PROVE Topic!BreachesCounted
  OBVIOUS
<1>1. Topic!IInv'
  BY TopicStep
<1>2. s7'.errors = s7'.batch_errors
  BY <1>1 DEF Topic!IInv
<1>3. ASSUME s8'.kind = "rows", s9' # s9
      PROVE  s7'.row_breach - s7.row_breach = IF s8'.status = "missed" THEN 1 ELSE 0
  <2>1. PICK rows \in SUBSET RecordKey, expected \in 0 .. Topic!Cardinality(RecordKey) :
            Topic!LoadCounted(rows, expected)
    BY <1>3 DEF Topic!Next, Topic!vars, Topic!Produce, Topic!Poll, Topic!Ingest,
       Topic!IngestBreaks, Topic!Commit, Topic!Restart, Topic!LoadReconciled
  <2> DEFINE c == Topic!Cardinality(rows)
             a == IF Topic!RowBreach(c, expected) THEN 1 ELSE 0
  <2>2. /\ s7' = [s7 EXCEPT !.row_breach = s7.row_breach + a]
        /\ s8' = [kind |-> "rows", status |-> IF c = expected THEN "met" ELSE "missed"]
    BY <2>1 DEF Topic!LoadCounted
  <2>3. s8'.status = "missed" <=> c # expected
    BY <2>2
  <2>4. a = IF c # expected THEN 1 ELSE 0
    BY DEF Topic!RowBreach
  <2> HIDE DEF a, c
  <2>5. /\ s7 \in [batch_errors : Nat, errors : Nat, row_breach : Nat, metric_breach : Nat]
        /\ s7.row_breach \in Nat
    BY DEF Topic!IInv
  <2>6. s7'.row_breach = s7.row_breach + a
    BY <2>2, <2>5
  <2>7. a \in Int
    BY <2>4
  <2> QED
    BY <2>3, <2>4, <2>5, <2>6, <2>7
<1> QED
  BY <1>2, <1>3 DEF Topic!BreachesCounted
-----------------------------------------------------------------------------
(* The session of the demo: a question is counted when it is asked, and no other
   step of its turn changes the count; a load closes a source before another one takes
   its place, and counts as whole again when all is assigned and the agent is gone. *)
LEMMA SessionInit == Session!Init => Session!IInv
<1> SUFFICES ASSUME Session!Init PROVE Session!IInv
  OBVIOUS
<1>1. /\ s3.messages = <<>> /\ <<>> \in Seq(Session!Message) /\ DOMAIN <<>> = {}
      /\ s3.source = 0 /\ s3.semantic = 0 /\ s3.dir = 0 /\ s3.agent = Session!NoAgent
      /\ s3.agent.source = 0
  BY DEF Session!Init, Session!NoAgent
<1>2. s7 \in [question : Nat, source : Nat]
  BY DEF Session!Init, Session!NoRows
<1>3. Session!Shaped
  BY <1>1, <1>2 DEF Session!Init, Session!Shaped
<1>4. Session!Loading /\ Session!Captured
  BY <1>1 DEF Session!Init, Session!Loading, Session!Captured, Session!Updating
<1>5. Session!ChartsAreOfTheQuestion
  BY <1>1 DEF Session!Init, Session!ChartsAreOfTheQuestion, Session!Charted, Session!OneLoad
<1> QED
  BY <1>3, <1>4, <1>5 DEF Session!IInv

LEMMA SessionAsked == Session!Shaped => Session!Asked \in Nat
<1> SUFFICES ASSUME Session!Shaped PROVE Session!Asked \in Nat
  OBVIOUS
<1>1. s3.messages \in Seq(Session!Message)
  BY DEF Session!Shaped
<1> DEFINE n == Len(s3.messages)
           U == {j \in DOMAIN s3.messages : s3.messages[j].role = "user"}
<1>2. n \in Nat /\ DOMAIN s3.messages = 1 .. n
  BY <1>1
<1>3. IsFiniteSet(1 .. n) /\ U \subseteq 1 .. n
  BY <1>2, FS_Interval
<1>4. Session!Cardinality(U) \in Nat
  <2> HIDE DEF U, n
  <2> QED
    BY <1>3, FS_Subset, FS_CardinalityType DEF Session!Cardinality, Cardinality
<1> QED
  BY <1>4 DEF Session!Asked

(* What is charted stays so while the messages do. *)
LEMMA SessionQuiet ==
    ASSUME s3'.messages = s3.messages
    PROVE  (Session!Charted' <=> Session!Charted) /\ Session!Asked' = Session!Asked
BY DEF Session!Charted, Session!Asked

(* A message at the end changes no count before it. *)
LEMMA SessionAppend ==
    ASSUME Session!IInv, NEW role \in {"user", "assistant"},
           NEW rows \in [question : Nat, source : Nat], s3' = Session!Says(role, rows),
           role = "assistant" /\ rows # Session!NoRows =>
               rows.source = s3.source /\ rows.question = Session!Asked,
           UNCHANGED <<s4, s7, s8, s10>>,
           s9' \in {"asked", "idle"}
    PROVE  Session!IInv'
<1> DEFINE m == [role |-> role, rows |-> rows, source |-> s3.source]
           old == s3.messages  new == s3'.messages  n == Len(s3.messages)
           U(i) == {j \in 1 .. i : new[j].role = "user"}
<1>0. /\ m \in Session!Message /\ m.role = role /\ m.rows = rows /\ m.source = s3.source
  BY DEF Session!IInv, Session!Shaped, Session!Message
<1>1. /\ old \in Seq(Session!Message) /\ n \in Nat /\ DOMAIN old = 1 .. n
      /\ s3 = [sig |-> s3.sig, dir |-> s3.dir, source |-> s3.source, content |-> s3.content,
               semantic |-> s3.semantic, chat |-> s3.chat, messages |-> s3.messages,
               agent |-> s3.agent, model |-> s3.model, linked |-> s3.linked]
  BY DEF Session!IInv, Session!Shaped
<1>2. /\ s3'.source = s3.source /\ s3'.agent = s3.agent /\ new = Append(old, m)
      /\ s3'.dir = s3.dir /\ s3'.semantic = s3.semantic
      /\ s3' = [sig |-> s3'.sig, dir |-> s3'.dir, source |-> s3'.source,
                content |-> s3'.content, semantic |-> s3'.semantic, chat |-> s3'.chat,
                messages |-> s3'.messages, agent |-> s3'.agent, model |-> s3'.model,
                linked |-> s3'.linked]
  BY <1>1 DEF Session!Says
<1> HIDE DEF m
<1>3. /\ new \in Seq(Session!Message) /\ DOMAIN new = 1 .. (n + 1) /\ new[n + 1] = m
      /\ \A j \in 1 .. n : new[j] = old[j]
  BY <1>0, <1>1, <1>2
<1>4. ASSUME NEW i \in 1 .. n, new[i].role = "assistant", new[i].rows # Session!NoRows
      PROVE  new[i].rows.source = new[i].source
             /\ new[i].rows.question = Session!Cardinality(U(i))
  <2>1. {j \in 1 .. i : old[j].role = "user"} = U(i)
    BY <1>1, <1>3
  <2>2. /\ old[i].rows.source = old[i].source
        /\ old[i].rows.question = Session!Cardinality({j \in 1 .. i : old[j].role = "user"})
    BY <1>1, <1>3, <1>4 DEF Session!IInv, Session!ChartsAreOfTheQuestion, Session!Charted
  <2> QED
    BY <1>2, <1>3, <2>1, <2>2
<1>5. ASSUME role = "assistant", rows # Session!NoRows
      PROVE  rows.source = s3.source /\ rows.question = Session!Cardinality(U(n + 1))
  <2>1. {j \in DOMAIN old : old[j].role = "user"} = U(n + 1)
    BY <1>0, <1>1, <1>3, <1>5
  <2> QED
    BY <1>2, <1>5, <2>1 DEF Session!Asked
<1>6. \A i \in 1 .. (n + 1) : i = n + 1 \/ i \in 1 .. n
  BY <1>1
<1>7. Session!Charted'
  <2> SUFFICES ASSUME NEW i \in 1 .. (n + 1), new[i].role = "assistant",
                      new[i].rows # Session!NoRows
               PROVE  /\ new[i].rows.source = new[i].source
                      /\ new[i].rows.question = Session!Cardinality(U(i))
    BY <1>3 DEF Session!Charted
  <2>1. CASE i = n + 1
    BY <1>0, <1>3, <1>5, <2>1
  <2> QED
    BY <1>4, <1>6, <2>1
<1>8. s8 => \A i \in DOMAIN new : new[i].source = s3'.source
  <2> SUFFICES ASSUME s8, NEW i \in 1 .. (n + 1) PROVE new[i].source = s3'.source
    BY <1>3
  <2>1. CASE i = n + 1
    BY <1>0, <1>2, <1>3, <2>1
  <2>2. CASE i \in 1 .. n
    BY <1>1, <1>2, <1>3, <2>2 DEF Session!IInv, Session!ChartsAreOfTheQuestion, Session!OneLoad
  <2> QED
    BY <1>6, <2>1, <2>2
<1> HIDE DEF n, U, old, new
<1>9. Session!ChartsAreOfTheQuestion'
  BY <1>2, <1>7, <1>8
     DEF Session!IInv, Session!ChartsAreOfTheQuestion, Session!OneLoad, new
<1>10. Session!Shaped'
  BY <1>2, <1>3 DEF Session!IInv, Session!Shaped, new
<1>11. Session!Loading' /\ Session!Captured'
  BY DEF Session!IInv, Session!Loading, Session!Captured, Session!Updating
<1> QED
  BY <1>9, <1>10, <1>11 DEF Session!IInv

(* Steps that leave session_state alone, up to its sig, model and capture. *)
LEMMA SessionPasses ==
    ASSUME Session!IInv,
           s3'.messages = s3.messages, s3'.agent = s3.agent, s3'.source = s3.source,
           s3'.dir = s3.dir, s3'.semantic = s3.semantic,
           s3' = [sig |-> s3'.sig, dir |-> s3'.dir, source |-> s3'.source,
                  content |-> s3'.content, semantic |-> s3'.semantic, chat |-> s3'.chat,
                  messages |-> s3'.messages, agent |-> s3'.agent, model |-> s3'.model,
                  linked |-> s3'.linked],
           s4' \subseteq s4, s7' \in [question : Nat, source : Nat],
           s8' = s8, s10' = s10
    PROVE  /\ Session!Shaped' /\ Session!ChartsAreOfTheQuestion'
           /\ Session!Charted' /\ Session!Asked' = Session!Asked
<1>1. Session!Charted' /\ Session!Asked' = Session!Asked
  BY SessionQuiet DEF Session!IInv, Session!ChartsAreOfTheQuestion
<1>2. Session!OneLoad' <=> Session!OneLoad
  BY DEF Session!OneLoad
<1>3. Session!Shaped'
  BY DEF Session!IInv, Session!Shaped
<1> QED
  BY <1>1, <1>2, <1>3 DEF Session!IInv, Session!ChartsAreOfTheQuestion

(* The steps of a load. *)
LEMMA SessionLoads ==
    ASSUME Session!IInv,
           \/ Session!Close \/ Session!Remove \/ Session!Import \/ Session!AssignSig
           \/ Session!AssignDir \/ Session!AssignSource \/ Session!AssignSemantic
           \/ Session!AssignMessages \/ Session!PopAgent
    PROVE  Session!IInv'
<1> USE DEF Session!Passes, Session!Assigns
<1>0. /\ s3 = [sig |-> s3.sig, dir |-> s3.dir, source |-> s3.source, content |-> s3.content,
               semantic |-> s3.semantic, chat |-> s3.chat, messages |-> s3.messages,
               agent |-> s3.agent, model |-> s3.model, linked |-> s3.linked]
      /\ s10 \in Nat /\ s3.source \in 0 .. s10 /\ s3.agent.source \in 0 .. s10
      /\ s3.messages \in Seq(Session!Message) /\ s7 \in [question : Nat, source : Nat]
  BY DEF Session!IInv, Session!Shaped
<1>1. CASE Session!Close
  <2>1. /\ s3' = s3 /\ s7' = s7 /\ s8' = s8 /\ s10' = s10 + 1 /\ s4' = s4 \ {s3.source}
        /\ s9' = "remove"
    BY <1>1 DEF Session!Close
  <2>2. Session!Charted' /\ (Session!OneLoad' <=> Session!OneLoad)
    BY <2>1, SessionQuiet
       DEF Session!IInv, Session!ChartsAreOfTheQuestion, Session!OneLoad
  <2>3. Session!Shaped'
    BY <1>0, <2>1 DEF Session!Shaped
  <2>4. Session!Loading' /\ Session!Captured'
    BY <1>0, <2>1 DEF Session!IInv, Session!Loading, Session!Captured, Session!Updating
  <2>5. Session!ChartsAreOfTheQuestion'
    BY <2>1, <2>2 DEF Session!IInv, Session!ChartsAreOfTheQuestion
  <2> QED
    BY <2>3, <2>4, <2>5 DEF Session!IInv
<1>2. CASE Session!Remove
  <2>1. UNCHANGED <<s3, s4, s7, s8, s10>> /\ s9 = "remove" /\ s9' = "import"
    BY <1>2 DEF Session!Remove
  <2>2. Session!Shaped' /\ Session!ChartsAreOfTheQuestion'
    BY <1>0, <2>1, SessionPasses
  <2>3. Session!Loading' /\ Session!Captured'
    BY <2>1 DEF Session!IInv, Session!Loading, Session!Captured, Session!Updating
  <2> QED
    BY <2>2, <2>3 DEF Session!IInv
<1>3. CASE Session!Import
  <2>1. /\ UNCHANGED <<s3, s7, s8, s10>> /\ s9 = "import" /\ s9' \in {"sig", "idle"}
        /\ s4' = s4 \/ s4' = s4 \cup {s10}
    BY <1>3 DEF Session!Import
  <2>2. /\ s3.source \notin s4 /\ s3.source < s10 /\ s3.agent.source < s10 /\ 0 \notin s4
    BY <2>1 DEF Session!IInv, Session!Loading
  <2>3. s3.source \notin s4' /\ 0 \notin s4' /\ (s3.agent.source \in s4' => s3.agent.source \in s4)
    BY <1>0, <2>1, <2>2
  <2>4. Session!Charted' /\ (Session!OneLoad' <=> Session!OneLoad)
    BY <2>1, SessionQuiet
       DEF Session!IInv, Session!ChartsAreOfTheQuestion, Session!OneLoad
  <2>5. Session!ChartsAreOfTheQuestion'
    BY <2>1, <2>3, <2>4 DEF Session!IInv, Session!ChartsAreOfTheQuestion
  <2>6. Session!Shaped'
    BY <1>0, <2>1 DEF Session!Shaped
  <2>7. Session!Loading' /\ Session!Captured'
    BY <2>1, <2>2, <2>3 DEF Session!Loading, Session!Captured, Session!Updating
  <2> QED
    BY <2>5, <2>6, <2>7 DEF Session!IInv
<1>4. CASE Session!AssignSig
  <2>1. /\ UNCHANGED <<s4, s7, s10>> /\ s8' = FALSE /\ s9 = "sig" /\ s9' = "dir"
        /\ s3' = [s3 EXCEPT !.sig = s1.sig]
    BY <1>4 DEF Session!AssignSig
  <2>2. /\ s3' = [sig |-> s3'.sig, dir |-> s3'.dir, source |-> s3'.source,
                  content |-> s3'.content, semantic |-> s3'.semantic, chat |-> s3'.chat,
                  messages |-> s3'.messages, agent |-> s3'.agent, model |-> s3'.model,
                  linked |-> s3'.linked]
        /\ s3'.messages = s3.messages /\ s3'.agent = s3.agent /\ s3'.source = s3.source
    BY <1>0, <2>1
  <2>3. Session!Shaped'
    BY <1>0, <2>1, <2>2 DEF Session!Shaped
  <2>4. Session!ChartsAreOfTheQuestion'
    BY <2>1, <2>2, SessionQuiet DEF Session!IInv, Session!ChartsAreOfTheQuestion
  <2>5. Session!Loading' /\ Session!Captured'
    BY <2>1, <2>2 DEF Session!IInv, Session!Loading, Session!Captured, Session!Updating
  <2> QED
    BY <2>3, <2>4, <2>5 DEF Session!IInv
<1>5. CASE Session!AssignDir
  <2>1. /\ UNCHANGED <<s4, s7, s8, s10>> /\ s9 = "dir" /\ s9' = "source" /\ ~s8
        /\ s3' = [s3 EXCEPT !.dir = s10]
    BY <1>5 DEF Session!AssignDir, Session!IInv, Session!Loading, Session!Updating
  <2>2. /\ s3' = [sig |-> s3'.sig, dir |-> s3'.dir, source |-> s3'.source,
                  content |-> s3'.content, semantic |-> s3'.semantic, chat |-> s3'.chat,
                  messages |-> s3'.messages, agent |-> s3'.agent, model |-> s3'.model,
                  linked |-> s3'.linked]
        /\ s3'.messages = s3.messages /\ s3'.agent = s3.agent /\ s3'.source = s3.source
        /\ s3'.dir = s10
    BY <1>0, <2>1
  <2>3. Session!Shaped'
    BY <1>0, <2>1, <2>2 DEF Session!Shaped
  <2>4. Session!ChartsAreOfTheQuestion'
    BY <2>1, <2>2, SessionQuiet DEF Session!IInv, Session!ChartsAreOfTheQuestion
  <2>5. Session!Loading' /\ Session!Captured'
    BY <2>1, <2>2 DEF Session!IInv, Session!Loading, Session!Captured, Session!Updating
  <2> QED
    BY <2>3, <2>4, <2>5 DEF Session!IInv
<1>6. CASE Session!AssignSource
  <2>1. /\ UNCHANGED <<s4, s7, s8, s10>> /\ s9 = "source" /\ s9' = "semantic"
        /\ s3' = [s3 EXCEPT !.source = s10, !.content = s1.content]
    BY <1>6 DEF Session!AssignSource
  <2>2. ~s8 /\ s3.dir = s10 /\ s3.agent.source \notin s4 /\ 0 \notin s4
    BY <2>1 DEF Session!IInv, Session!Loading, Session!Updating, Session!ChartsAreOfTheQuestion
  <2>3. /\ s3' = [sig |-> s3'.sig, dir |-> s3'.dir, source |-> s3'.source,
                  content |-> s3'.content, semantic |-> s3'.semantic, chat |-> s3'.chat,
                  messages |-> s3'.messages, agent |-> s3'.agent, model |-> s3'.model,
                  linked |-> s3'.linked]
        /\ s3'.messages = s3.messages /\ s3'.agent = s3.agent /\ s3'.source = s10
        /\ s3'.dir = s10
    BY <1>0, <2>1, <2>2
  <2>4. Session!Shaped'
    BY <1>0, <2>1, <2>3 DEF Session!Shaped
  <2>5. Session!ChartsAreOfTheQuestion'
    BY <2>1, <2>2, <2>3, SessionQuiet DEF Session!IInv, Session!ChartsAreOfTheQuestion
  <2>6. Session!Loading' /\ Session!Captured'
    BY <2>1, <2>2, <2>3 DEF Session!Loading, Session!Captured, Session!Updating
  <2> QED
    BY <2>4, <2>5, <2>6 DEF Session!IInv
<1>7. CASE Session!AssignSemantic
  <2>1. /\ UNCHANGED <<s4, s7, s8, s10>> /\ s9 = "semantic" /\ s9' = "messages"
        /\ s3' = [s3 EXCEPT !.semantic = s10]
    BY <1>7 DEF Session!AssignSemantic
  <2>2. ~s8 /\ s3.dir = s10 /\ s3.source = s10 /\ 0 \notin s4
    BY <2>1 DEF Session!IInv, Session!Loading, Session!Updating
  <2>3. /\ s3' = [sig |-> s3'.sig, dir |-> s3'.dir, source |-> s3'.source,
                  content |-> s3'.content, semantic |-> s3'.semantic, chat |-> s3'.chat,
                  messages |-> s3'.messages, agent |-> s3'.agent, model |-> s3'.model,
                  linked |-> s3'.linked]
        /\ s3'.messages = s3.messages /\ s3'.agent = s3.agent /\ s3'.source = s10
        /\ s3'.dir = s10 /\ s3'.semantic = s10
    BY <1>0, <2>1, <2>2
  <2>4. Session!Shaped'
    BY <1>0, <2>1, <2>3 DEF Session!Shaped
  <2>5. Session!ChartsAreOfTheQuestion'
    BY <2>1, <2>2, <2>3, SessionQuiet DEF Session!IInv, Session!ChartsAreOfTheQuestion
  <2>6. Session!Loading' /\ Session!Captured'
    BY <2>1, <2>2, <2>3 DEF Session!Loading, Session!Captured, Session!Updating
  <2> QED
    BY <2>4, <2>5, <2>6 DEF Session!IInv
<1>8. CASE Session!AssignMessages
  <2>1. /\ UNCHANGED <<s4, s7, s8, s10>> /\ s9 = "messages" /\ s9' = "pop"
        /\ s3' = [s3 EXCEPT !.chat = TRUE, !.messages = <<>>]
    BY <1>8 DEF Session!AssignMessages
  <2>2. /\ ~s8 /\ s3.dir = s10 /\ s3.source = s10 /\ s3.semantic = s10 /\ 0 \notin s4
        /\ s3.agent.source \in s4 => s3.agent.source = s3.source
    BY <2>1 DEF Session!IInv, Session!Loading, Session!Updating, Session!ChartsAreOfTheQuestion
  <2>3. /\ s3' = [sig |-> s3'.sig, dir |-> s3'.dir, source |-> s3'.source,
                  content |-> s3'.content, semantic |-> s3'.semantic, chat |-> s3'.chat,
                  messages |-> s3'.messages, agent |-> s3'.agent, model |-> s3'.model,
                  linked |-> s3'.linked]
        /\ s3'.messages = <<>> /\ s3'.agent = s3.agent /\ s3'.source = s10
        /\ s3'.dir = s10 /\ s3'.semantic = s10
    BY <1>0, <2>1, <2>2
  <2>4. <<>> \in Seq(Session!Message) /\ DOMAIN <<>> = {}
    OBVIOUS
  <2>5. Session!Shaped'
    BY <1>0, <2>1, <2>3, <2>4 DEF Session!Shaped
  <2>6. Session!ChartsAreOfTheQuestion'
    BY <2>1, <2>2, <2>3, <2>4 DEF Session!Charted, Session!ChartsAreOfTheQuestion
  <2>7. Session!Loading' /\ Session!Captured'
    BY <2>1, <2>2, <2>3 DEF Session!Loading, Session!Captured, Session!Updating
  <2> QED
    BY <2>5, <2>6, <2>7 DEF Session!IInv
<1>9. CASE Session!PopAgent
  <2>1. /\ UNCHANGED <<s4, s7, s10>> /\ s8' = TRUE /\ s9 = "pop" /\ s9' = "ensure"
        /\ s3' = [s3 EXCEPT !.agent = Session!NoAgent]
    BY <1>9 DEF Session!PopAgent
  <2>2. /\ s3.dir = s10 /\ s3.source = s10 /\ s3.semantic = s10 /\ 0 \notin s4
        /\ s3.messages = <<>>
    BY <2>1 DEF Session!IInv, Session!Loading, Session!Updating
  <2>3. /\ s3' = [sig |-> s3'.sig, dir |-> s3'.dir, source |-> s3'.source,
                  content |-> s3'.content, semantic |-> s3'.semantic, chat |-> s3'.chat,
                  messages |-> s3'.messages, agent |-> s3'.agent, model |-> s3'.model,
                  linked |-> s3'.linked]
        /\ s3'.messages = <<>> /\ s3'.agent = Session!NoAgent /\ s3'.source = s10
        /\ s3'.dir = s10 /\ s3'.semantic = s10
    BY <1>0, <2>1, <2>2
  <2>4. s3'.agent.source = 0
    BY <2>3 DEF Session!NoAgent
  <2>5. <<>> \in Seq(Session!Message) /\ DOMAIN <<>> = {}
    OBVIOUS
  <2>6. Session!Shaped'
    BY <1>0, <2>1, <2>3, <2>4, <2>5 DEF Session!Shaped
  <2>7. Session!ChartsAreOfTheQuestion'
    BY <2>1, <2>2, <2>3, <2>4, <2>5
       DEF Session!Charted, Session!OneLoad, Session!ChartsAreOfTheQuestion
  <2>8. Session!Loading' /\ Session!Captured'
    BY <2>1, <2>2, <2>3 DEF Session!Loading, Session!Captured, Session!Updating
  <2> QED
    BY <2>6, <2>7, <2>8 DEF Session!IInv
<1> QED
  BY <1>1, <1>2, <1>3, <1>4, <1>5, <1>6, <1>7, <1>8, <1>9

(* The steps that give the session an agent. *)
LEMMA SessionEnsures ==
    ASSUME Session!IInv,
           \/ Session!EnsureAgent \/ Session!NewCapture \/ Session!NewAudit
           \/ Session!NewAgent \/ Session!NewModel
    PROVE  Session!IInv'
<1> USE DEF Session!Passes, Session!Assigns
<1> DEFINE Where == {"idle", "ready", "capture", "audit", "agent", "model"}
<1>0. /\ s3 = [sig |-> s3.sig, dir |-> s3.dir, source |-> s3.source, content |-> s3.content,
               semantic |-> s3.semantic, chat |-> s3.chat, messages |-> s3.messages,
               agent |-> s3.agent, model |-> s3.model, linked |-> s3.linked]
      /\ s10 \in Nat /\ s3.source \in 0 .. s10 /\ s7 \in [question : Nat, source : Nat]
  BY DEF Session!IInv, Session!Shaped
<1>1. UNCHANGED <<s4, s8, s10>> /\ s9' \in Where /\ s7' \in [question : Nat, source : Nat]
  <2>1. \A state : Session!Shown(state) \in Where
    BY DEF Session!Shown
  <2>2. Session!NoRows \in [question : Nat, source : Nat]
    BY DEF Session!NoRows
  <2> QED
    BY <1>0, <2>1, <2>2
       DEF Session!EnsureAgent, Session!NewCapture, Session!NewAudit, Session!NewAgent,
           Session!NewModel
<1>2. Session!Loading' /\ Session!Captured'
  BY <1>1 DEF Session!IInv, Session!Loading, Session!Captured, Session!Updating
<1>3. /\ s3' = [sig |-> s3'.sig, dir |-> s3'.dir, source |-> s3'.source,
                content |-> s3'.content, semantic |-> s3'.semantic, chat |-> s3'.chat,
                messages |-> s3'.messages, agent |-> s3'.agent, model |-> s3'.model,
                linked |-> s3'.linked]
      /\ s3'.messages = s3.messages /\ s3'.source = s3.source
      /\ s3'.dir = s3.dir /\ s3'.semantic = s3.semantic
  BY <1>0 DEF Session!EnsureAgent, Session!NewCapture, Session!NewAudit, Session!NewAgent,
              Session!NewModel
<1>4. CASE s3'.agent = s3.agent
  <2>1. Session!Shaped' /\ Session!ChartsAreOfTheQuestion'
    BY <1>1, <1>3, <1>4, SessionPasses
  <2> QED
    BY <1>2, <2>1 DEF Session!IInv
<1>5. CASE s3'.agent = [source |-> s3.source, semantic |-> s3.semantic, dir |-> s3.dir,
                        setting |-> s2]
  <2>1. Session!Shaped'
    BY <1>0, <1>1, <1>3, <1>5 DEF Session!IInv, Session!Shaped
  <2>2. Session!Charted'
    BY <1>3, SessionQuiet DEF Session!IInv, Session!ChartsAreOfTheQuestion
  <2>3. Session!OneLoad => Session!OneLoad'
    BY <1>3, <1>5 DEF Session!OneLoad
  <2>4. Session!ChartsAreOfTheQuestion'
    BY <1>1, <1>3, <1>5, <2>2, <2>3 DEF Session!IInv, Session!ChartsAreOfTheQuestion
  <2> QED
    BY <1>2, <2>1, <2>4 DEF Session!IInv
<1>6. s3'.agent = s3.agent
      \/ s3'.agent = [source |-> s3.source, semantic |-> s3.semantic, dir |-> s3.dir,
                      setting |-> s2]
  BY <1>0 DEF Session!EnsureAgent, Session!NewCapture, Session!NewAudit, Session!NewAgent,
              Session!NewModel
<1> QED
  BY <1>4, <1>5, <1>6

(* The steps of a turn. *)
LEMMA SessionTurns ==
    ASSUME Session!IInv,
           \/ Session!Panel \/ Session!Ask \/ Session!Forget \/ Session!ToolInTurn
           \/ Session!Answer
    PROVE  Session!IInv'
<1> USE DEF Session!Passes, Session!Assigns
<1>0. /\ s10 \in Nat /\ s3.source \in 0 .. s10 /\ s3.agent.source \in 0 .. s10
      /\ s7 \in [question : Nat, source : Nat] /\ Session!Asked \in Nat
      /\ s3 = [sig |-> s3.sig, dir |-> s3.dir, source |-> s3.source, content |-> s3.content,
               semantic |-> s3.semantic, chat |-> s3.chat, messages |-> s3.messages,
               agent |-> s3.agent, model |-> s3.model, linked |-> s3.linked]
  BY SessionAsked DEF Session!IInv, Session!Shaped
<1>1. Session!NoRows \in [question : Nat, source : Nat]
  BY DEF Session!NoRows
<1>2. CASE Session!Ask
  <2>1. /\ s3' = Session!Says("user", Session!NoRows) /\ s9' = "asked"
        /\ UNCHANGED <<s4, s7, s8, s10>>
    BY <1>2 DEF Session!Ask
  <2> QED
    BY <1>1, <2>1, SessionAppend
<1>3. CASE Session!Answer
  <2>1. /\ s3' = Session!Says("assistant", s7) /\ s9' = "idle"
        /\ UNCHANGED <<s4, s7, s8, s10>> /\ s9 \in {"asking", "called"}
    BY <1>3 DEF Session!Answer
  <2>2. s7 # Session!NoRows => s7.source = s3.source /\ s7.question = Session!Asked
    BY <2>1 DEF Session!IInv, Session!Captured
  <2> QED
    BY <1>0, <2>1, <2>2, SessionAppend
<1>4. ASSUME UNCHANGED <<s3, s4, s8, s10>>, s7' \in [question : Nat, source : Nat],
             s9' \in {"idle", "asking", "called"},
             s9' = "idle" \/ s7' = Session!NoRows
             \/ (s7'.source = s3.source /\ s7'.question = Session!Asked)
      PROVE  Session!IInv'
  <2>1. Session!Shaped' /\ Session!ChartsAreOfTheQuestion' /\ Session!Asked' = Session!Asked
    BY <1>0, <1>4, SessionPasses
  <2>2. Session!Loading'
    BY <1>4 DEF Session!IInv, Session!Loading, Session!Updating
  <2>3. Session!Captured'
    BY <1>4, <2>1 DEF Session!Captured
  <2> QED
    BY <2>1, <2>2, <2>3 DEF Session!IInv
<1>5. CASE Session!Forget
  BY <1>1, <1>4, <1>5 DEF Session!Forget, Session!Fresh
<1>6. CASE Session!Panel
  <2>1. s7' = s7 \/ s7' = [question |-> 0, source |-> s3.agent.source]
    BY <1>6 DEF Session!Panel, Session!ToolCall
  <2>2. s7' \in [question : Nat, source : Nat]
    BY <1>0, <2>1
  <2> QED
    BY <1>4, <1>6, <2>2 DEF Session!Panel, Session!ToolCall
<1>7. CASE Session!ToolInTurn
  <2>1. \/ s7' = s7
        \/ /\ s7' = [question |-> Session!Asked, source |-> s3.agent.source]
           /\ s3.agent.source \in s4
    BY <1>7 DEF Session!ToolInTurn, Session!ToolCall
  <2>2. s3.agent.source \in s4 => s3.agent.source = s3.source
    BY DEF Session!IInv, Session!ChartsAreOfTheQuestion
  <2>3. s7' = Session!NoRows \/ (s7'.source = s3.source /\ s7'.question = Session!Asked)
    BY <1>7, <2>1, <2>2 DEF Session!IInv, Session!Captured, Session!ToolInTurn
  <2>4. s7' \in [question : Nat, source : Nat]
    BY <1>0, <2>1
  <2> QED
    BY <1>4, <1>7, <2>3, <2>4 DEF Session!ToolInTurn, Session!ToolCall
<1> QED
  BY <1>2, <1>3, <1>5, <1>6, <1>7

LEMMA SessionStep == Session!IInv /\ [Session!Next]_(Session!vars) => Session!IInv'
<1> SUFFICES ASSUME Session!IInv, [Session!Next]_(Session!vars) PROVE Session!IInv'
  OBVIOUS
<1>0. ASSUME UNCHANGED <<s3, s4, s7, s8, s10>>, s9' \in {"idle", "close", "ensure", s9}
      PROVE  Session!IInv'
  <2>1. Session!Shaped' /\ Session!ChartsAreOfTheQuestion' /\ Session!Asked' = Session!Asked
    BY <1>0, SessionPasses DEF Session!IInv, Session!Shaped
  <2>2. Session!Loading' /\ Session!Captured'
    BY <1>0, <2>1 DEF Session!IInv, Session!Loading, Session!Captured, Session!Updating
  <2> QED
    BY <2>1, <2>2 DEF Session!IInv
<1>1. ASSUME NEW u \in Upload, NEW s \in Setting, Session!Rerun(u, s) PROVE Session!IInv'
  BY <1>0, <1>1 DEF Session!Rerun
<1>2. CASE Session!Stop
  BY <1>0, <1>2 DEF Session!Stop, Session!Passes
<1>3. CASE UNCHANGED Session!vars
  BY <1>0, <1>3 DEF Session!vars
<1> QED
  BY <1>1, <1>2, <1>3, SessionLoads, SessionEnsures, SessionTurns DEF Session!Next

-----------------------------------------------------------------------------
(* The sum of a column: the function by which Total is defined exists, and the sum
   of two columns, one after the other, is that of the sums. *)
IsTotal(g, values) ==
    g = [n \in 0 .. Len(values) |->
            IF n = 0 THEN 0
            ELSE g[n - 1] + (IF values[n] = Profiles!NoValue THEN 0 ELSE values[n])]

LEMMA TotalExists == ASSUME NEW values \in Seq(Int) PROVE \E g : IsTotal(g, values)
<1> DEFINE N == Len(values)
           term(n) == IF values[n] = Profiles!NoValue THEN 0 ELSE values[n]
           step == [n \in Nat |-> [v \in Int |-> IF n \in 1 .. N THEN v + term(n) ELSE v]]
<1>1. N \in Nat /\ \A n \in 1 .. N : term(n) \in Int
  BY DEF Profiles!NoValue
<1>2. \A n \in Nat, v \in Int : step[n][v] \in Int
  BY <1>1
<1>3. \A n \in 1 .. N, v \in Int : step[n][v] = v + term(n)
  BY <1>1
<1> HIDE DEF step, N, term
<1>4. PICK g : IsRecursion(g, N, Int, 0, step)
  <2>1. N \in Nat /\ 0 \in Int
    BY <1>1
  <2>2. \E g : IsRecursion(g, N, Int, 0, step)
    BY <1>2, <2>1, RecursionExists
  <2> QED
    BY <2>2
<1>5. g \in [0 .. N -> Int] /\ g[0] = 0 /\ \A n \in 1 .. N : g[n] = step[n][g[n - 1]]
  BY <1>4 DEF IsRecursion
<1>6. ASSUME NEW n \in 0 .. N PROVE g[n] = IF n = 0 THEN 0 ELSE g[n - 1] + term(n)
  <2>1. CASE n = 0
    BY <1>5, <2>1
  <2>2. CASE n # 0
    <3>1. n \in 1 .. N /\ n - 1 \in 0 .. N
      BY <1>1, <2>2
    <3> QED
      BY <1>3, <1>5, <2>2, <3>1
  <2> QED
    BY <2>1, <2>2
<1>7. IsTotal(g, values)
  BY <1>5, <1>6, Zenon DEF IsTotal, N, term
<1> QED
  BY <1>7

LEMMA TotalIs ==
    ASSUME NEW values \in Seq(Int)
    PROVE  \E g : /\ g \in [0 .. Len(values) -> Int] /\ g[0] = 0
                  /\ \A n \in 1 .. Len(values) :
                        g[n] = g[n - 1] + (IF values[n] = Profiles!NoValue THEN 0 ELSE values[n])
                  /\ Profiles!Total(values) = g[Len(values)]
<1> DEFINE g == CHOOSE g : IsTotal(g, values)
<1>1. IsTotal(g, values)
  BY TotalExists
<1>2. Profiles!Total(values) = g[Len(values)]
  BY Zenon DEF Profiles!Total, IsTotal
<1> HIDE DEF g
<1>3. Len(values) \in Nat
  OBVIOUS
<1>4. g[0] = 0
  BY <1>1, <1>3 DEF IsTotal
<1>5. ASSUME NEW n \in 1 .. Len(values)
      PROVE  g[n] = g[n - 1] + (IF values[n] = Profiles!NoValue THEN 0 ELSE values[n])
  <2>1. n \in 0 .. Len(values) /\ n # 0
    BY <1>3
  <2> QED
    BY <1>1, <2>1 DEF IsTotal
<1>6. g \in [0 .. Len(values) -> Int]
  <2> DEFINE S == {n \in Nat : n <= Len(values) => g[n] \in Int}
  <2>1. 0 \in S
    BY <1>4
  <2>2. ASSUME NEW n \in Nat, n \in S PROVE n + 1 \in S
    <3> SUFFICES ASSUME n + 1 <= Len(values) PROVE g[n + 1] \in Int
      OBVIOUS
    <3>1. n + 1 \in 1 .. Len(values) /\ (n + 1) - 1 = n /\ g[n] \in Int /\ values[n + 1] \in Int
      BY <1>3, <2>2
    <3>2. g[n + 1] = g[(n + 1) - 1]
                       + (IF values[n + 1] = Profiles!NoValue THEN 0 ELSE values[n + 1])
      BY <1>5, <3>1
    <3> QED
      BY <3>1, <3>2
  <2> HIDE DEF S
  <2>3. Nat \subseteq S
    BY <2>1, <2>2, NatSetInduction
  <2>4. \A n \in 0 .. Len(values) : g[n] \in Int
    BY <1>3, <2>3 DEF S
  <2>5. DOMAIN g = 0 .. Len(values) /\ g = [n \in 0 .. Len(values) |-> g[n]]
    BY <1>1 DEF IsTotal
  <2> QED
    BY <2>4, <2>5
<1> QED
  BY <1>2, <1>4, <1>5, <1>6

LEMMA TotalAdds ==
    ASSUME NEW a \in Seq(Int), NEW b \in Seq(Int)
    PROVE  /\ Profiles!Total(a) \in Int /\ Profiles!Total(b) \in Int
           /\ Profiles!Total(a \o b) = Profiles!Total(a) + Profiles!Total(b)
<1> DEFINE c == a \o b  m == Len(a)  k == Len(b)
           term(values, n) == IF values[n] = Profiles!NoValue THEN 0 ELSE values[n]
<1>1. /\ c \in Seq(Int) /\ m \in Nat /\ k \in Nat /\ Len(c) = m + k
      /\ \A n \in 1 .. m : c[n] = a[n]
      /\ \A n \in 1 .. k : c[m + n] = b[n]
  OBVIOUS
<1>2. PICK f : /\ f \in [0 .. m -> Int] /\ f[0] = 0
               /\ \A n \in 1 .. m : f[n] = f[n - 1] + term(a, n)
               /\ Profiles!Total(a) = f[m]
  BY TotalIs
<1>3. PICK g : /\ g \in [0 .. k -> Int] /\ g[0] = 0
               /\ \A n \in 1 .. k : g[n] = g[n - 1] + term(b, n)
               /\ Profiles!Total(b) = g[k]
  BY TotalIs
<1>4. PICK h : /\ h \in [0 .. Len(c) -> Int] /\ h[0] = 0
               /\ \A n \in 1 .. Len(c) : h[n] = h[n - 1] + term(c, n)
               /\ Profiles!Total(c) = h[Len(c)]
  BY <1>1, TotalIs
<1>5. \A n \in 1 .. m : term(c, n) = term(a, n)
  BY <1>1
<1>6. \A n \in 1 .. k : term(c, m + n) = term(b, n)
  BY <1>1
<1>7. (\A n \in 1 .. m : term(a, n) \in Int) /\ \A n \in 1 .. k : term(b, n) \in Int
  BY DEF Profiles!NoValue
<1> HIDE DEF term, c
<1> DEFINE S == {n \in Nat : n <= m => h[n] = f[n]}
           T == {n \in Nat : n <= k => h[m + n] = f[m] + g[n]}
<1>8. Nat \subseteq S
  <2>1. 0 \in S
    BY <1>2, <1>4
  <2>2. ASSUME NEW n \in Nat, n \in S PROVE n + 1 \in S
    <3> SUFFICES ASSUME n + 1 <= m PROVE h[n + 1] = f[n + 1]
      OBVIOUS
    <3>1. n + 1 \in 1 .. m /\ n + 1 \in 1 .. Len(c) /\ (n + 1) - 1 = n /\ h[n] = f[n]
      BY <1>1, <2>2
    <3> QED
      BY <1>2, <1>4, <1>5, <3>1
  <2> HIDE DEF S
  <2> QED
    BY <2>1, <2>2, NatSetInduction
<1>9. h[m] = f[m] /\ f[m] \in Int /\ g[k] \in Int /\ \A n \in 0 .. k : g[n] \in Int
  <2>1. m \in 0 .. m /\ k \in 0 .. k
    BY <1>1
  <2>2. f[m] \in Int
    BY <1>2, <2>1
  <2>3. g[k] \in Int /\ \A n \in 0 .. k : g[n] \in Int
    BY <1>3, <2>1
  <2>4. m \in S
    BY <1>1, <1>8
  <2>5. h[m] = f[m]
    BY <1>1, <2>4
  <2> QED
    BY <2>2, <2>3, <2>5
<1>10. Nat \subseteq T
  <2>1. 0 \in T
    <3>1. m + 0 = m /\ f[m] + 0 = f[m]
      BY <1>1, <1>9
    <3> QED
      BY <1>3, <1>9, <3>1
  <2>2. ASSUME NEW n \in Nat, n \in T PROVE n + 1 \in T
    <3> SUFFICES ASSUME n + 1 <= k PROVE h[m + (n + 1)] = f[m] + g[n + 1]
      OBVIOUS
    <3>0. h[m + n] = f[m] + g[n] /\ n <= k
      BY <1>1, <2>2
    <3>1. /\ n + 1 \in 1 .. k /\ m + (n + 1) \in 1 .. Len(c) /\ (n + 1) - 1 = n
          /\ (m + (n + 1)) - 1 = m + n /\ h[m + n] = f[m] + g[n] /\ n \in 0 .. k
      BY <1>1, <3>0
    <3>2. h[m + (n + 1)] = h[m + n] + term(c, m + (n + 1))
      BY <1>4, <3>1
    <3>3. g[n + 1] = g[n] + term(b, n + 1) /\ term(c, m + (n + 1)) = term(b, n + 1)
      BY <1>3, <1>6, <3>1
    <3>4. f[m] \in Int /\ g[n] \in Int /\ term(b, n + 1) \in Int
      BY <1>7, <1>9, <3>1
    <3> QED
      BY <3>1, <3>2, <3>3, <3>4
  <2> HIDE DEF T
  <2> QED
    BY <2>1, <2>2, NatSetInduction
<1>11. h[m + k] = f[m] + g[k] /\ f[m] \in Int /\ g[k] \in Int
  BY <1>1, <1>9, <1>10
<1> QED
  BY <1>1, <1>2, <1>3, <1>4, <1>11 DEF c

(* What is missing in two columns, one after the other, and what is there. *)
LEMMA MissingAdds ==
    ASSUME NEW a \in Seq(Int), NEW b \in Seq(Int)
    PROVE  /\ Profiles!Missing(a) \in Nat /\ Profiles!Missing(b) \in Nat
           /\ Profiles!Missing(a \o b) = Profiles!Missing(a) + Profiles!Missing(b)
<1> DEFINE c == a \o b  m == Len(a)  k == Len(b)
           holes(values) == {i \in DOMAIN values : values[i] = Profiles!NoValue}
           A == holes(a)  B == holes(b)  moved == {m + i : i \in B}
           shift == [i \in B |-> m + i]
<1>1. /\ m \in Nat /\ k \in Nat /\ DOMAIN a = 1 .. m /\ DOMAIN b = 1 .. k
      /\ DOMAIN c = 1 .. (m + k)
      /\ \A n \in 1 .. m : c[n] = a[n]
      /\ \A n \in 1 .. k : c[m + n] = b[n]
  OBVIOUS
<1>2. A \subseteq 1 .. m /\ B \subseteq 1 .. k
  BY <1>1
<1>3. holes(c) = A \cup moved
  <2>1. ASSUME NEW i \in holes(c) PROVE i \in A \cup moved
    <3>1. CASE i \in 1 .. m
      BY <1>1, <2>1, <3>1
    <3>2. CASE i \notin 1 .. m
      <4>1. i - m \in 1 .. k /\ m + (i - m) = i
        BY <1>1, <2>1, <3>2
      <4>2. i - m \in B
        BY <1>1, <2>1, <4>1
      <4> QED
        BY <4>1, <4>2
    <3> QED
      BY <3>1, <3>2
  <2>2. ASSUME NEW i \in A PROVE i \in holes(c)
    BY <1>1
  <2>3. ASSUME NEW i \in B PROVE m + i \in holes(c)
    BY <1>1
  <2> QED
    BY <2>1, <2>2, <2>3
<1>4. A \cap moved = {}
  BY <1>1, <1>2
<1>5. shift \in Bijection(B, moved)
  <2>1. shift \in [B -> moved]
    OBVIOUS
  <2>2. \A i, j \in B : shift[i] = shift[j] => i = j
    BY <1>1, <1>2
  <2>3. \A t \in moved : \E i \in B : shift[i] = t
    OBVIOUS
  <2> HIDE DEF shift, moved, B
  <2>4. DOMAIN shift = B
    BY <2>1
  <2>5. shift \in Injection(B, moved)
    BY <2>1, <2>2, <2>4, Zenon DEF Injection, IsInjective
  <2>6. shift \in Surjection(B, moved)
    BY <2>1, <2>3, Zenon DEF Surjection
  <2> QED
    BY <2>5, <2>6 DEF Bijection
<1>6. IsFiniteSet(A) /\ IsFiniteSet(B)
  <2> HIDE DEF A, B
  <2>1. IsFiniteSet(1 .. m)
    BY <1>1, FS_Interval
  <2>2. IsFiniteSet(1 .. k)
    BY <1>1, FS_Interval
  <2> QED
    BY <1>2, <2>1, <2>2, FS_Subset
<1> HIDE DEF A, B, shift, moved
<1>7. IsFiniteSet(moved) /\ Cardinality(moved) = Cardinality(B)
  BY <1>5, <1>6, FS_Bijection DEF ExistsBijection
<1>8. Cardinality(A) \in Nat /\ Cardinality(B) \in Nat
  BY <1>6, FS_CardinalityType
<1>9. Cardinality(A \cup moved) = Cardinality(A) + Cardinality(moved)
  <2>1. Cardinality(A \cup moved) = Cardinality(A) + Cardinality(moved) - Cardinality(A \cap moved)
    BY <1>6, <1>7, FS_Union
  <2>2. Cardinality(A \cap moved) = 0
    BY <1>4, FS_EmptySet
  <2> QED
    BY <1>7, <1>8, <2>1, <2>2
<1>10. /\ Profiles!Missing(a) = Cardinality(A) /\ Profiles!Missing(b) = Cardinality(B)
       /\ Profiles!Missing(c) = Cardinality(A \cup moved)
  BY <1>3, Zenon DEF Profiles!Missing, Profiles!Cardinality, Cardinality, A, B
<1> QED
  BY <1>7, <1>8, <1>9, <1>10

LEMMA PresentAdds ==
    ASSUME NEW a \in Seq(Int), NEW b \in Seq(Int)
    PROVE  /\ Profiles!Present(a \o b) = Profiles!Present(a) \cup Profiles!Present(b)
           /\ Profiles!Present(a) \subseteq Int /\ Profiles!NoValue \notin Profiles!Present(a)
           /\ IsFiniteSet(Profiles!Present(a))
<1>1. {(a \o b)[i] : i \in DOMAIN (a \o b)} = {a[i] : i \in DOMAIN a} \cup {b[i] : i \in DOMAIN b}
  <2> DEFINE c == a \o b
  <2>1. /\ DOMAIN a = 1 .. Len(a) /\ DOMAIN b = 1 .. Len(b) /\ Len(a) \in Nat /\ Len(b) \in Nat
        /\ DOMAIN c = 1 .. (Len(a) + Len(b))
        /\ \A n \in 1 .. Len(a) : c[n] = a[n]
        /\ \A n \in 1 .. Len(b) : c[Len(a) + n] = b[n]
    OBVIOUS
  <2> HIDE DEF c
  <2>2. ASSUME NEW i \in DOMAIN c
        PROVE  (\E j \in DOMAIN a : c[i] = a[j]) \/ \E j \in DOMAIN b : c[i] = b[j]
    <3>1. CASE i \in 1 .. Len(a)
      BY <2>1, <3>1
    <3>2. CASE i \notin 1 .. Len(a)
      <4>1. i - Len(a) \in 1 .. Len(b) /\ Len(a) + (i - Len(a)) = i
        BY <2>1, <2>2, <3>2
      <4>2. c[Len(a) + (i - Len(a))] = b[i - Len(a)]
        BY <2>1, <4>1
      <4> QED
        BY <2>1, <4>1, <4>2
    <3> QED
      BY <3>1, <3>2
  <2>3. ASSUME NEW j \in DOMAIN a PROVE \E i \in DOMAIN c : c[i] = a[j]
    <3>1. j \in DOMAIN c
      BY <2>1
    <3> QED
      BY <2>1, <3>1
  <2>4. ASSUME NEW j \in DOMAIN b PROVE \E i \in DOMAIN c : c[i] = b[j]
    <3>1. Len(a) + j \in DOMAIN c
      BY <2>1
    <3> QED
      BY <2>1, <3>1
  <2>5. {c[i] : i \in DOMAIN c} = {a[i] : i \in DOMAIN a} \cup {b[i] : i \in DOMAIN b}
    BY <2>2, <2>3, <2>4
  <2> QED
    BY <2>5 DEF c
<1>2. Profiles!Present(a) \subseteq Int /\ Profiles!NoValue \notin Profiles!Present(a)
  BY DEF Profiles!Present, Profiles!Range
<1>3. IsFiniteSet(Profiles!Present(a))
  <2>1. IsFiniteSet(Range(a)) /\ Profiles!Present(a) \subseteq Range(a)
    <3>1. a \in [1 .. Len(a) -> Range(a)] /\ IsFiniteSet(1 .. Len(a))
      <4>1. Len(a) \in Nat /\ DOMAIN a = 1 .. Len(a) /\ a = [i \in 1 .. Len(a) |-> a[i]]
        OBVIOUS
      <4>2. \A i \in 1 .. Len(a) : a[i] \in Range(a)
        BY <4>1 DEF Range
      <4>3. IsFiniteSet(1 .. Len(a))
        <5>1. 1 \in Int /\ Len(a) \in Int
          OBVIOUS
        <5> HIDE DEF IsFiniteSet
        <5> QED
          BY <5>1, FS_Interval
      <4>4. a \in [1 .. Len(a) -> Range(a)]
        BY <4>1, <4>2
      <4> QED
        BY <4>3, <4>4
    <3>2. a \in Surjection(1 .. Len(a), Range(a))
      BY <3>1 DEF Surjection, Range
    <3> QED
      BY <3>1, <3>2, FS_Surjection DEF Profiles!Present, Profiles!Range, Range
  <2> QED
    BY <2>1, FS_Subset
<1> QED
  BY <1>1, <1>2, <1>3 DEF Profiles!Present, Profiles!Range

(* The least and the greatest of two sets, one of which may be empty. *)
LEMMA ExtremaAdd ==
    ASSUME NEW S, NEW T, S \subseteq Int, T \subseteq Int, IsFiniteSet(S), IsFiniteSet(T),
           Profiles!NoValue \notin S \cup T
    PROVE  LET least(U) == IF U = {} THEN Profiles!NoValue ELSE Profiles!Min(U)
               greatest(U) == IF U = {} THEN Profiles!NoValue ELSE Profiles!Max(U)
           IN  /\ Profiles!Least(least(S), least(T)) = least(S \cup T)
               /\ Profiles!Greatest(greatest(S), greatest(T)) = greatest(S \cup T)
<1> DEFINE minOf(U, x) == x \in U /\ \A y \in U : x <= y
           maxOf(U, x) == x \in U /\ \A y \in U : y <= x
<1>1. ASSUME NEW U, U \subseteq Int, NEW x, minOf(U, x) PROVE Profiles!Min(U) = x
  <2>1. \A z \in U : (\A y \in U : z <= y) => z = x
    BY <1>1
  <2> QED
    BY <1>1, <2>1 DEF Profiles!Min
<1>2. ASSUME NEW U, U \subseteq Int, NEW x, maxOf(U, x) PROVE Profiles!Max(U) = x
  <2>1. \A z \in U : (\A y \in U : z >= y) => z = x
    BY <1>2
  <2>2. \A y \in U : x >= y
    BY <1>2
  <2> QED
    BY <1>2, <2>1, <2>2 DEF Profiles!Max
<1>3. ASSUME NEW U, U \subseteq Int, IsFiniteSet(U), U # {} PROVE \E x : maxOf(U, x)
  BY <1>3, FiniteMax
<1>4. ASSUME NEW U, U \subseteq Int, IsFiniteSet(U), U # {} PROVE \E x : minOf(U, x)
  BY <1>4, FiniteMin
<1>5. ASSUME NEW x \in Int, NEW y \in Int
      PROVE  /\ x <= y => minOf({x, y}, x) /\ maxOf({x, y}, y) /\ minOf({y, x}, x) /\ maxOf({y, x}, y)
             /\ {x, y} \subseteq Int
  OBVIOUS
<1>6. CASE S = {} /\ T = {}
  BY <1>6 DEF Profiles!Least, Profiles!Greatest
<1>7. ASSUME NEW A, NEW B, A \subseteq Int, IsFiniteSet(A), A # {}, B = {},
             Profiles!NoValue \notin A
      PROVE  \E x, y \in Int :
                /\ Profiles!Min(A) = x /\ Profiles!Max(A) = y
                /\ Profiles!NoValue # x /\ Profiles!NoValue # y
                /\ Profiles!Min({x}) = x /\ Profiles!Max({y}) = y
  <2>1. PICK x : minOf(A, x)
    BY <1>4, <1>7
  <2>2. PICK y : maxOf(A, y)
    BY <1>3, <1>7
  <2>3. Profiles!Min(A) = x /\ Profiles!Max(A) = y
    BY <1>1, <1>2, <1>7, <2>1, <2>2
  <2>4. x \in Int /\ y \in Int /\ {x} \subseteq Int /\ {y} \subseteq Int
        /\ minOf({x}, x) /\ maxOf({y}, y)
    BY <1>7, <2>1, <2>2
  <2>5. Profiles!Min({x}) = x /\ Profiles!Max({y}) = y
    BY <1>1, <1>2, <2>4
  <2> QED
    BY <1>7, <2>1, <2>2, <2>3, <2>4, <2>5
<1>8. CASE S # {} /\ T = {}
  <2>1. PICK x \in Int, y \in Int :
                /\ Profiles!Min(S) = x /\ Profiles!Max(S) = y
                /\ Profiles!NoValue # x /\ Profiles!NoValue # y
                /\ Profiles!Min({x}) = x /\ Profiles!Max({y}) = y
    BY <1>7, <1>8
  <2>2. /\ {x, Profiles!NoValue} # {Profiles!NoValue} /\ {x, Profiles!NoValue} \ {Profiles!NoValue} = {x}
        /\ {y, Profiles!NoValue} # {Profiles!NoValue} /\ {y, Profiles!NoValue} \ {Profiles!NoValue} = {y}
        /\ S \cup T = S
    BY <1>8, <2>1
  <2> QED
    BY <1>8, <2>1, <2>2, Zenon DEF Profiles!Least, Profiles!Greatest
<1>9. CASE S = {} /\ T # {}
  <2>1. PICK x \in Int, y \in Int :
                /\ Profiles!Min(T) = x /\ Profiles!Max(T) = y
                /\ Profiles!NoValue # x /\ Profiles!NoValue # y
                /\ Profiles!Min({x}) = x /\ Profiles!Max({y}) = y
    BY <1>7, <1>9
  <2>2. /\ {Profiles!NoValue, x} # {Profiles!NoValue} /\ {Profiles!NoValue, x} \ {Profiles!NoValue} = {x}
        /\ {Profiles!NoValue, y} # {Profiles!NoValue} /\ {Profiles!NoValue, y} \ {Profiles!NoValue} = {y}
        /\ S \cup T = T
    BY <1>9, <2>1
  <2> QED
    BY <1>9, <2>1, <2>2, Zenon DEF Profiles!Least, Profiles!Greatest
<1>10. CASE S # {} /\ T # {}
  <2>1. PICK a : minOf(S, a)
    BY <1>4, <1>10
  <2>2. PICK b : minOf(T, b)
    BY <1>4, <1>10
  <2>3. PICK p : maxOf(S, p)
    BY <1>3, <1>10
  <2>4. PICK q : maxOf(T, q)
    BY <1>3, <1>10
  <2>5. /\ Profiles!Min(S) = a /\ Profiles!Min(T) = b
        /\ Profiles!Max(S) = p /\ Profiles!Max(T) = q
    BY <1>1, <1>2, <2>1, <2>2, <2>3, <2>4
  <2>6. \E x \in {a, b} : Profiles!Min({a, b}) = x /\ Profiles!Min(S \cup T) = x
    <3>1. a \in Int /\ b \in Int
      BY <2>1, <2>2
    <3>2. PICK x \in {a, b} : minOf({a, b}, x)
      BY <3>1
    <3>3. minOf(S \cup T, x) /\ S \cup T \subseteq Int /\ {a, b} \subseteq Int
      BY <2>1, <2>2, <3>1, <3>2
    <3> QED
      BY <1>1, <3>2, <3>3
  <2>7. \E x \in {p, q} : Profiles!Max({p, q}) = x /\ Profiles!Max(S \cup T) = x
    <3>1. p \in Int /\ q \in Int
      BY <2>3, <2>4
    <3>2. PICK x \in {p, q} : maxOf({p, q}, x)
      BY <3>1
    <3>3. maxOf(S \cup T, x) /\ S \cup T \subseteq Int /\ {p, q} \subseteq Int
      BY <2>3, <2>4, <3>1, <3>2
    <3> QED
      BY <1>2, <3>2, <3>3
  <2>8. /\ Profiles!NoValue \notin {a, b} /\ Profiles!NoValue \notin {p, q}
        /\ {a, b} \ {Profiles!NoValue} = {a, b} /\ {p, q} \ {Profiles!NoValue} = {p, q}
        /\ {a, b} # {Profiles!NoValue} /\ {p, q} # {Profiles!NoValue} /\ S \cup T # {}
    BY <1>10, <2>1, <2>2, <2>3, <2>4
  <2>9. Profiles!Least(a, b) = Profiles!Min(S \cup T)
    BY <2>6, <2>8 DEF Profiles!Least
  <2>10. Profiles!Greatest(p, q) = Profiles!Max(S \cup T)
    BY <2>7, <2>8 DEF Profiles!Greatest
  <2> QED
    BY <1>10, <2>5, <2>8, <2>9, <2>10
<1> QED
  BY <1>6, <1>8, <1>9, <1>10

(* A profile of a column, whichever of the two ways, says what is in it. *)
LEMMA StatIsSummed ==
    ASSUME NEW values \in Seq(Int)
    PROVE  /\ Profiles!Summed(Profiles!ProfileColumn(values), values)
           /\ Profiles!Summed(Profiles!FromBatch(values), values)
<1> DEFINE n == Len(values)  t == Profiles!Total(values)  k == Profiles!Missing(values)
           there == Profiles!Present(values)
<1>1. n \in Nat /\ t \in Int /\ k \in Nat
  BY TotalAdds, MissingAdds
<1>2. ASSUME NEW sum \in Int \X Int, k = 0 => sum[1] = t * sum[2]
      PROVE  Profiles!Summed(Profiles!Stat(values, sum), values)
  <2> DEFINE s == Profiles!Stat(values, sum)
  <2>1. /\ s.rows = n /\ s.nulls = k
        /\ s.min = IF there = {} THEN Profiles!NoValue ELSE Profiles!Min(there)
        /\ s.max = IF there = {} THEN Profiles!NoValue ELSE Profiles!Max(there)
        /\ s.sum = IF there = {} THEN <<0, 0>> ELSE sum
        /\ s.mean = IF there = {} THEN <<0, 0>> ELSE <<t, n - k>>
    BY DEF Profiles!Stat, Profiles!NoNumber
  <2> HIDE DEF s, n, t, k, there
  <2>2. s.sum \in Int \X Int /\ s.mean \in Int \X Int
    BY <1>1, <2>1
  <2>3. ASSUME k = 0
        PROVE  s.sum[1] = t * s.sum[2] /\ s.mean[1] * n = t * s.mean[2]
    <3>1. CASE there = {}
      BY <1>1, <2>1, <3>1
    <3>2. CASE there # {}
      BY <1>1, <1>2, <2>1, <2>3, <3>2
    <3> QED
      BY <3>1, <3>2
  <2>4. Profiles!Summed(s, values)
    BY <2>1, <2>2, <2>3 DEF Profiles!Summed, n, t, k, there
  <2> QED
    BY <2>4 DEF s
<1>3. <<t * n, n - k>> \in Int \X Int /\ <<t, 1>> \in Int \X Int
  BY <1>1
<1>4. k = 0 => t * n = t * (n - k)
  BY <1>1
<1>5. t = t * 1
  BY <1>1
<1>6. Profiles!Summed(Profiles!Stat(values, <<t * n, n - k>>), values)
  <2> HIDE DEF t, n, k
  <2>1. k = 0 => <<t * n, n - k>>[1] = t * <<t * n, n - k>>[2]
    BY <1>4
  <2> QED
    BY <1>2, <1>3, <2>1
<1>7. Profiles!Summed(Profiles!Stat(values, <<t, 1>>), values)
  <2> HIDE DEF t, n, k
  <2>1. k = 0 => <<t, 1>>[1] = t * <<t, 1>>[2]
    BY <1>5
  <2> QED
    BY <1>2, <1>3, <2>1
<1> QED
  BY <1>6, <1>7 DEF Profiles!ProfileColumn, Profiles!FromBatch

(* The profile of one column merged with that of another says what is in both. *)
LEMMA MergeIsSummed ==
    ASSUME NEW x \in Seq(Int), NEW y \in Seq(Int), NEW a, NEW b,
           Profiles!Summed(a, x), Profiles!Summed(b, y)
    PROVE  Profiles!Summed(Profiles!Merge(a, b), x \o y)
<1> DEFINE m == Profiles!Merge(a, b)
           sum == IF Profiles!NoNumber \in {a.sum, b.sum} THEN Profiles!NoNumber
                  ELSE Profiles!Plus(a.sum, b.sum)
           rows == a.rows + b.rows
           X == Profiles!Present(x)  Y == Profiles!Present(y)
           tx == Profiles!Total(x)  ty == Profiles!Total(y)
<1>1. /\ m.rows = rows /\ m.nulls = a.nulls + b.nulls
      /\ m.min = Profiles!Least(a.min, b.min) /\ m.max = Profiles!Greatest(a.max, b.max)
      /\ m.sum = sum
      /\ m.mean = IF sum = Profiles!NoNumber \/ rows = 0 THEN Profiles!NoNumber
                  ELSE Profiles!Over(sum, rows)
  BY DEF Profiles!Merge
<1>2. /\ a.rows = Len(x) /\ a.nulls = Profiles!Missing(x)
      /\ a.min = IF X = {} THEN Profiles!NoValue ELSE Profiles!Min(X)
      /\ a.max = IF X = {} THEN Profiles!NoValue ELSE Profiles!Max(X)
      /\ a.sum \in Int \X Int
      /\ a.nulls = 0 => a.sum[1] = tx * a.sum[2]
  BY DEF Profiles!Summed
<1>3. /\ b.rows = Len(y) /\ b.nulls = Profiles!Missing(y)
      /\ b.min = IF Y = {} THEN Profiles!NoValue ELSE Profiles!Min(Y)
      /\ b.max = IF Y = {} THEN Profiles!NoValue ELSE Profiles!Max(Y)
      /\ b.sum \in Int \X Int
      /\ b.nulls = 0 => b.sum[1] = ty * b.sum[2]
  BY DEF Profiles!Summed
<1>4. /\ rows \in Nat /\ Len(x \o y) = rows
      /\ tx \in Int /\ ty \in Int /\ Profiles!Total(x \o y) = tx + ty
      /\ Profiles!Missing(x) \in Nat /\ Profiles!Missing(y) \in Nat
      /\ Profiles!Missing(x \o y) = a.nulls + b.nulls
  <2>1. rows \in Nat /\ Len(x \o y) = rows
    BY <1>2, <1>3
  <2> QED
    BY <1>2, <1>3, <2>1, TotalAdds, MissingAdds
<1>5. Profiles!Present(x \o y) = X \cup Y
  BY PresentAdds
<1>6. /\ m.min = IF X \cup Y = {} THEN Profiles!NoValue ELSE Profiles!Min(X \cup Y)
      /\ m.max = IF X \cup Y = {} THEN Profiles!NoValue ELSE Profiles!Max(X \cup Y)
  <2>1. /\ X \subseteq Int /\ Y \subseteq Int /\ IsFiniteSet(X) /\ IsFiniteSet(Y)
        /\ Profiles!NoValue \notin X \cup Y
    BY PresentAdds
  <2> HIDE DEF X, Y, m
  <2>2. Profiles!Least(IF X = {} THEN Profiles!NoValue ELSE Profiles!Min(X),
                       IF Y = {} THEN Profiles!NoValue ELSE Profiles!Min(Y))
          = IF X \cup Y = {} THEN Profiles!NoValue ELSE Profiles!Min(X \cup Y)
    BY <2>1, ExtremaAdd
  <2>3. Profiles!Greatest(IF X = {} THEN Profiles!NoValue ELSE Profiles!Max(X),
                          IF Y = {} THEN Profiles!NoValue ELSE Profiles!Max(Y))
          = IF X \cup Y = {} THEN Profiles!NoValue ELSE Profiles!Max(X \cup Y)
    BY <2>1, ExtremaAdd
  <2>4. m.min = IF X \cup Y = {} THEN Profiles!NoValue ELSE Profiles!Min(X \cup Y)
    BY <1>1, <1>2, <1>3, <2>2, Zenon
  <2>5. m.max = IF X \cup Y = {} THEN Profiles!NoValue ELSE Profiles!Max(X \cup Y)
    BY <1>1, <1>2, <1>3, <2>3, Zenon
  <2> QED
    BY <2>4, <2>5
<1> HIDE DEF m, X, Y, tx, ty, rows
<1>7. sum \in Int \X Int /\ (a.nulls = 0 /\ b.nulls = 0 => sum[1] = (tx + ty) * sum[2])
  <2>1. CASE Profiles!NoNumber \in {a.sum, b.sum}
    <3>1. sum = <<0, 0>> /\ tx + ty \in Int
      BY <1>4, <2>1 DEF Profiles!NoNumber
    <3> HIDE DEF sum
    <3> QED
      BY <3>1
  <2>2. CASE Profiles!NoNumber \notin {a.sum, b.sum}
    <3>1. sum = <<a.sum[1] * b.sum[2] + b.sum[1] * a.sum[2], a.sum[2] * b.sum[2]>>
      BY <2>2 DEF Profiles!Plus
    <3> DEFINE p == a.sum[2]  q == b.sum[2]  pa == a.sum[1]  qb == b.sum[1]
    <3>2. p \in Int /\ q \in Int /\ pa \in Int /\ qb \in Int
      BY <1>2, <1>3
    <3> HIDE DEF sum, p, q, pa, qb
    <3>3. sum = <<pa * q + qb * p, p * q>>
      BY <3>1 DEF p, q, pa, qb
    <3>4. pa * q + qb * p \in Int /\ p * q \in Int
      BY <3>2
    <3>5. (tx * p) * q + (ty * q) * p = (tx + ty) * (p * q)
      BY <1>4, <3>2
    <3>6. a.nulls = 0 /\ b.nulls = 0 => pa = tx * p /\ qb = ty * q
      BY <1>2, <1>3 DEF p, q, pa, qb
    <3>7. a.nulls = 0 /\ b.nulls = 0 => pa * q + qb * p = (tx + ty) * (p * q)
      BY <3>5, <3>6
    <3> QED
      BY <3>3, <3>4, <3>7
  <2> QED
    BY <2>1, <2>2
<1> HIDE DEF sum
<1>8. m.mean \in Int \X Int
      /\ (a.nulls = 0 /\ b.nulls = 0 => m.mean[1] * rows = (tx + ty) * m.mean[2])
  <2>1. CASE sum = Profiles!NoNumber \/ rows = 0
    <3>1. m.mean = <<0, 0>> /\ tx + ty \in Int
      BY <1>1, <1>4, <2>1 DEF Profiles!NoNumber
    <3> QED
      BY <1>4, <3>1
  <2>2. CASE ~(sum = Profiles!NoNumber \/ rows = 0)
    <3> DEFINE p == sum[1]  q == sum[2]  t == tx + ty
    <3>1. m.mean = <<p, q * rows>> /\ p \in Int /\ q \in Int /\ t \in Int
      BY <1>1, <1>4, <1>7, <2>2 DEF Profiles!Over
    <3>2. a.nulls = 0 /\ b.nulls = 0 => p = t * q
      BY <1>7
    <3> HIDE DEF p, q, t
    <3>3. (t * q) * rows = t * (q * rows) /\ q * rows \in Int
      BY <1>4, <3>1
    <3>4. m.mean[1] = p /\ m.mean[2] = q * rows /\ m.mean \in Int \X Int
      BY <3>1, <3>3
    <3>5. a.nulls = 0 /\ b.nulls = 0 => m.mean[1] * rows = t * m.mean[2]
      BY <3>2, <3>3, <3>4
    <3> QED
      BY <3>4, <3>5 DEF t
  <2> QED
    BY <2>1, <2>2
<1>9. m.nulls = 0 => a.nulls = 0 /\ b.nulls = 0
  BY <1>1, <1>2, <1>3, <1>4
<1>10. Profiles!Summed(m, x \o y)
  BY <1>1, <1>4, <1>5, <1>6, <1>7, <1>8, <1>9 DEF Profiles!Summed
<1> QED
  BY <1>10 DEF m

(* Of whatever statistics a profile is made, it has the roles the user forced, and
   of the relationships those the user included and none the user excluded. *)
LEMMA ProfileIsForced ==
    ASSUME NEW stats, NEW rels
    PROVE  LET p == Profiles!Profile(stats, rels)
           IN  /\ p.stats = stats /\ p.rels = rels /\ DOMAIN p.roles = DOMAIN stats
               /\ \A c \in DOMAIN stats :
                     s4.forced[c] # Profiles!None => p.roles[c] = s4.forced[c]
BY DEF Profiles!Profile, Profiles!RoleFor

LEMMA DiscoveredAsTold ==
    ASSUME NEW stats
    PROVE  /\ s4.include \subseteq Profiles!Discovered(stats)
           /\ Profiles!Discovered(stats) \cap s4.exclude \subseteq s4.include
BY DEF Profiles!Discovered, Profiles!Relations

(* A profile of a table: its columns, as forced and told, each as it is. *)
LEMMA DatasetIsProfiled ==
    ASSUME NEW data, Profiles!IsTable(data)
    PROVE  LET p == Profiles!ProfileDataset(data)
           IN  /\ DOMAIN p.stats = DOMAIN data /\ DOMAIN p.roles = DOMAIN data
               /\ \A c \in DOMAIN data :
                     /\ Profiles!Summed(p.stats[c], data[c])
                     /\ s4.forced[c] # Profiles!None => p.roles[c] = s4.forced[c]
               /\ s4.include \subseteq p.rels
               /\ p.rels \cap s4.exclude \subseteq s4.include
<1> DEFINE stats == [c \in DOMAIN data |-> Profiles!ProfileColumn(data[c])]
           p == Profiles!Profile(stats, Profiles!Discovered(stats))
<1>1. DOMAIN stats = DOMAIN data
  OBVIOUS
<1>2. ASSUME NEW c \in DOMAIN data PROVE Profiles!Summed(stats[c], data[c])
  BY StatIsSummed DEF Profiles!IsTable
<1> HIDE DEF stats
<1>3. /\ p.stats = stats /\ p.rels = Profiles!Discovered(stats) /\ DOMAIN p.roles = DOMAIN stats
      /\ \A c \in DOMAIN stats : s4.forced[c] # Profiles!None => p.roles[c] = s4.forced[c]
  BY ProfileIsForced
<1>4. Profiles!ProfileDataset(data) = p
  BY DEF Profiles!ProfileDataset, stats
<1> HIDE DEF p
<1> QED
  BY <1>1, <1>2, <1>3, <1>4, DiscoveredAsTold

LEMMA ProfilesInit == Profiles!Init => Profiles!IInv
<1> SUFFICES ASSUME Profiles!Init PROVE Profiles!IInv
  OBVIOUS
<1> DEFINE first == Profiles!ProfileDataset(s1)
<1>1. Profiles!IsTable(s1)
  BY ArrivalAssumption DEF Profiles!Init
<1>2. /\ DOMAIN first.stats = DOMAIN s1 /\ DOMAIN first.roles = DOMAIN s1
      /\ \A c \in DOMAIN s1 :
            /\ Profiles!Summed(first.stats[c], s1[c])
            /\ s4.forced[c] # Profiles!None => first.roles[c] = s4.forced[c]
      /\ s4.include \subseteq first.rels
      /\ first.rels \cap s4.exclude \subseteq s4.include
  BY <1>1, DatasetIsProfiled
<1>3. CASE s2 = first /\ s5 = s1 /\ s3 = first.roles
  <2> HIDE DEF first
  <2> QED
    BY <1>1, <1>2, <1>3 DEF Profiles!IInv, Profiles!ForcedRolesHold
<1>4. CASE s2 = Profiles!NoProfile
  <2>1. s6 = FALSE
    BY <1>4 DEF Profiles!Init
  <2>2. DOMAIN s2.roles = {}
    BY <1>4 DEF Profiles!NoProfile
  <2> QED
    BY <1>1, <1>4, <2>1, <2>2 DEF Profiles!IInv, Profiles!ForcedRolesHold
<1> QED
  BY <1>3, <1>4 DEF Profiles!Init

(* After a refresh the forced roles hold, whatever the profile was made of. *)
LEMMA RefreshedIsForced ==
    ASSUME Profiles!IInv, NEW data, NEW batch, NEW decay, Profiles!IsTable(data),
           Profiles!Refreshed(data, batch, decay), s4' = s4
    PROVE  Profiles!ForcedRolesHold'
<1> DEFINE base == IF s2 = Profiles!NoProfile THEN Profiles!ProfileDataset(data) ELSE s2
           next == Profiles!Update(base, data, batch, decay)
<1>1. s4.include \subseteq base.rels /\ base.rels \cap s4.exclude \subseteq s4.include
  <2>1. CASE s2 = Profiles!NoProfile
    BY <2>1, DatasetIsProfiled
  <2>2. CASE s2 # Profiles!NoProfile
    BY <2>2 DEF Profiles!IInv, Profiles!ForcedRolesHold
  <2> QED
    BY <2>1, <2>2
<1>2. s2' = next /\ s3' = s2'.roles
  BY DEF Profiles!Refreshed
<1> HIDE DEF base
<1>3. PICK stats : next = Profiles!Profile(stats, IF DOMAIN stats = DOMAIN base.stats THEN base.rels
                                                  ELSE Profiles!Discovered(stats))
  BY Zenon DEF Profiles!Update
<1>4. /\ \A c \in DOMAIN stats : s4.forced[c] # Profiles!None => next.roles[c] = s4.forced[c]
      /\ DOMAIN next.roles = DOMAIN stats
      /\ next.rels = IF DOMAIN stats = DOMAIN base.stats THEN base.rels
                     ELSE Profiles!Discovered(stats)
  <2> DEFINE rels == IF DOMAIN stats = DOMAIN base.stats THEN base.rels
                     ELSE Profiles!Discovered(stats)
  <2>1. next = Profiles!Profile(stats, rels)
    BY <1>3
  <2> HIDE DEF rels, next
  <2>2. /\ next.rels = rels /\ DOMAIN next.roles = DOMAIN stats
        /\ \A c \in DOMAIN stats :
              s4.forced[c] # Profiles!None => next.roles[c] = s4.forced[c]
    BY <2>1, ProfileIsForced
  <2> QED
    BY <2>2 DEF rels
<1>5. s4.include \subseteq next.rels /\ next.rels \cap s4.exclude \subseteq s4.include
  BY <1>1, <1>4, DiscoveredAsTold
<1> HIDE DEF next
<1> QED
  BY <1>2, <1>4, <1>5 DEF Profiles!ForcedRolesHold

(* A column that is there and rows of a batch: how they come together. *)
LEMMA RowsOfTable ==
    ASSUME NEW t, Profiles!IsTable(t)
    PROVE  /\ Len(t[CHOOSE c \in DOMAIN t : TRUE]) \in Nat
           /\ \A c \in DOMAIN t : Len(t[c]) = Len(t[CHOOSE d \in DOMAIN t : TRUE])
<1>1. (CHOOSE d \in DOMAIN t : TRUE) \in DOMAIN t
  BY DEF Profiles!IsTable
<1> QED
  BY <1>1 DEF Profiles!IsTable

LEMMA IngestedIsTable ==
    ASSUME Profiles!IsTable(s1), NEW batch \in Arrival, NEW replace \in BOOLEAN,
           NEW decay \in BOOLEAN, Profiles!Ingest(batch, replace, decay)
    PROVE  /\ Profiles!IsTable(s1') /\ DOMAIN s1' = DOMAIN s1 \cup DOMAIN batch
           /\ \A c \in DOMAIN s1 \cap DOMAIN batch : ~replace => s1'[c] = s1[c] \o batch[c]
           /\ Profiles!Refreshed(s1', batch, decay)
<1> DEFINE n == Profiles!LengthOf(batch)  m == Profiles!Rows
           kept(c) == IF c \in DOMAIN s1 THEN s1[c] ELSE Profiles!Empty(m)
           given(c) == IF c \in DOMAIN batch THEN batch[c] ELSE Profiles!Empty(n)
           rest(c) == SubSeq(kept(c), n + 1, m)
           C == DOMAIN s1 \cup DOMAIN batch
<1>1. Profiles!IsTable(batch)
  BY ArrivalAssumption
<1>2. /\ m \in Nat /\ n \in Nat
      /\ (\A c \in DOMAIN s1 : Len(s1[c]) = m) /\ \A c \in DOMAIN batch : Len(batch[c]) = n
  BY <1>1, RowsOfTable DEF Profiles!Rows, Profiles!LengthOf
<1>3. replace => n <= m
  BY DEF Profiles!Ingest
<1>4. /\ s1' = [c \in C |-> IF replace THEN given(c) \o rest(c) ELSE kept(c) \o given(c)]
      /\ Profiles!Refreshed(s1', batch, decay)
  BY DEF Profiles!Ingest
<1>5. ASSUME NEW k \in Nat
      PROVE  Profiles!Empty(k) \in Seq(Int) /\ Len(Profiles!Empty(k)) = k
  BY DEF Profiles!Empty, Profiles!NoValue
<1>6. ASSUME NEW c \in C
      PROVE  /\ kept(c) \in Seq(Int) /\ Len(kept(c)) = m
             /\ given(c) \in Seq(Int) /\ Len(given(c)) = n
  <2> HIDE DEF m, n
  <2> QED
    BY <1>1, <1>2, <1>5 DEF Profiles!IsTable
<1> HIDE DEF m, n, kept, given
<1>7. ASSUME NEW c \in C, replace PROVE rest(c) \in Seq(Int) /\ Len(rest(c)) = m - n
  <2> DEFINE k == kept(c)
  <2>1. k \in Seq(Int) /\ Len(k) = m /\ n \in Nat /\ m \in Nat /\ n <= m
    BY <1>2, <1>3, <1>6, <1>7
  <2> HIDE DEF k
  <2>2. SubSeq(k, n + 1, m) \in Seq(Int) /\ Len(SubSeq(k, n + 1, m)) = m - n
    BY <2>1
  <2> QED
    BY <2>2 DEF k
<1> HIDE DEF rest
<1>8. ASSUME NEW c \in C
      PROVE  s1'[c] \in Seq(Int) /\ Len(s1'[c]) = IF replace THEN m ELSE m + n
  <2>1. CASE replace
    <3>1. s1'[c] = given(c) \o rest(c)
      BY <1>4, <2>1
    <3>2. rest(c) \in Seq(Int) /\ Len(rest(c)) = m - n
      BY <1>7, <2>1
    <3> QED
      BY <1>2, <1>6, <2>1, <3>1, <3>2
  <2>2. CASE ~replace
    <3>1. s1'[c] = kept(c) \o given(c)
      BY <1>4, <2>2
    <3> DEFINE k == kept(c)  g == given(c)
    <3>2. k \in Seq(Int) /\ Len(k) = m /\ g \in Seq(Int) /\ Len(g) = n
      BY <1>6
    <3> HIDE DEF k, g
    <3>3. k \o g \in Seq(Int) /\ Len(k \o g) = m + n
      BY <3>2
    <3> QED
      BY <2>2, <3>1, <3>3 DEF k, g
  <2> QED
    BY <2>1, <2>2
<1>9. DOMAIN s1' = C /\ C # {}
  BY <1>4 DEF Profiles!IsTable
<1>10. Profiles!IsTable(s1')
  BY <1>8, <1>9 DEF Profiles!IsTable
<1>11. ASSUME NEW c \in DOMAIN s1 \cap DOMAIN batch, ~replace PROVE s1'[c] = s1[c] \o batch[c]
  BY <1>4, <1>11 DEF kept, given
<1> QED
  BY <1>4, <1>9, <1>10, <1>11

LEMMA ProfilesStep == Profiles!IInv /\ [Profiles!Next]_(Profiles!vars) => Profiles!IInv'
<1> SUFFICES ASSUME Profiles!IInv, [Profiles!Next]_(Profiles!vars) PROVE Profiles!IInv'
  OBVIOUS
<1>1. ASSUME NEW batch \in Arrival, NEW replace \in BOOLEAN, NEW decay \in BOOLEAN,
             Profiles!Ingest(batch, replace, decay)
      PROVE  Profiles!IInv'
  <2>1. Profiles!IsTable(s1)
    BY DEF Profiles!IInv
  <2>2. /\ Profiles!IsTable(s1') /\ DOMAIN s1' = DOMAIN s1 \cup DOMAIN batch
        /\ \A c \in DOMAIN s1 \cap DOMAIN batch : ~replace => s1'[c] = s1[c] \o batch[c]
        /\ Profiles!Refreshed(s1', batch, decay)
    BY <1>1, <2>1, IngestedIsTable
  <2>3. /\ s4' = s4 /\ s7' = FALSE
        /\ s6' = (s6 /\ ~replace /\ ~decay /\ DOMAIN s1 = DOMAIN batch)
    BY <1>1 DEF Profiles!Ingest
  <2>4. Profiles!ForcedRolesHold'
    BY <2>2, <2>3, RefreshedIsForced
  <2>5. ASSUME s6'
        PROVE  /\ DOMAIN s2'.stats = DOMAIN s1' /\ DOMAIN s5' = DOMAIN s1'
               /\ \A c \in DOMAIN s1' : s5'[c] = s1'[c] /\ Profiles!Summed(s2'.stats[c], s1'[c])
    <3>1. /\ s6 /\ ~replace /\ ~decay /\ DOMAIN batch = DOMAIN s1 /\ DOMAIN s1' = DOMAIN s1
          /\ DOMAIN s1 # {}
      BY <2>1, <2>2, <2>3, <2>5 DEF Profiles!IsTable
    <3>2. /\ DOMAIN s2.stats = DOMAIN s1 /\ DOMAIN s5 = DOMAIN s1
          /\ \A c \in DOMAIN s1 : s5[c] = s1[c] /\ Profiles!Summed(s2.stats[c], s1[c])
      BY <3>1 DEF Profiles!IInv
    <3>3. s2 # Profiles!NoProfile /\ batch # <<>>
      <4>1. DOMAIN Profiles!NoProfile.stats = {} /\ DOMAIN <<>> = {}
        BY DEF Profiles!NoProfile
      <4> QED
        BY <3>1, <3>2, <4>1
    <3>4. /\ s2' = Profiles!Update(s2, s1', batch, decay)
          /\ s5' = Profiles!Fed(s1', batch)
      BY <2>2, <3>3 DEF Profiles!Refreshed
    <3> DEFINE stats == [c \in DOMAIN s1 |->
                            Profiles!Merge(s2.stats[c], Profiles!FromBatch(batch[c]))]
    <3>5. s2'.stats = stats
      <4>1. \E rels : s2' = Profiles!Profile(stats, rels)
        BY <3>1, <3>2, <3>3, <3>4 DEF Profiles!Update
      <4> HIDE DEF stats
      <4> QED
        BY <4>1, ProfileIsForced
    <3>6. /\ DOMAIN s5' = DOMAIN s1
          /\ \A c \in DOMAIN s1 : s5'[c] = s1[c] \o batch[c]
      BY <3>1, <3>2, <3>3, <3>4 DEF Profiles!Fed
    <3>7. ASSUME NEW c \in DOMAIN s1
          PROVE  s1'[c] = s1[c] \o batch[c] /\ Profiles!Summed(stats[c], s1'[c])
      <4>1. s1[c] \in Seq(Int) /\ batch[c] \in Seq(Int)
        BY <2>1, <3>1, ArrivalAssumption DEF Profiles!IsTable
      <4>2. s1'[c] = s1[c] \o batch[c]
        BY <2>2, <3>1
      <4>3. Profiles!Summed(s2.stats[c], s1[c])
        BY <3>2
      <4>4. Profiles!Summed(Profiles!FromBatch(batch[c]), batch[c])
        BY <4>1, StatIsSummed
      <4>5. Profiles!Summed(Profiles!Merge(s2.stats[c], Profiles!FromBatch(batch[c])),
                            s1[c] \o batch[c])
        BY <4>1, <4>3, <4>4, MergeIsSummed
      <4> QED
        BY <4>2, <4>5
    <3>8. DOMAIN stats = DOMAIN s1
      OBVIOUS
    <3> HIDE DEF stats
    <3> QED
      BY <3>1, <3>5, <3>6, <3>7, <3>8
  <2> QED
    BY <2>2, <2>4, <2>5 DEF Profiles!IInv
<1>2. ASSUME Profiles!Refresh PROVE Profiles!IInv'
  <2>1. /\ s1' = s1 /\ s4' = s4 /\ s6' = FALSE /\ Profiles!IsTable(s1)
        /\ Profiles!Refreshed(s1, <<>>, FALSE)
    BY <1>2 DEF Profiles!Refresh, Profiles!IInv
  <2>2. Profiles!ForcedRolesHold'
    BY <2>1, RefreshedIsForced
  <2> QED
    BY <2>1, <2>2 DEF Profiles!IInv
<1>3. ASSUME UNCHANGED Profiles!vars PROVE Profiles!IInv'
  BY <1>3 DEF Profiles!vars, Profiles!IInv, Profiles!ForcedRolesHold
<1> QED
  BY <1>1, <1>2, <1>3 DEF Profiles!Next

(* While the profile is exact it is, in what it counts, that of the table. *)
LEMMA ProfilesFollow == Profiles!IInv => Profiles!CountsFollowStream /\ Profiles!ForcedRolesHold
<1> SUFFICES ASSUME Profiles!IInv, s6, NEW c \in DOMAIN s2.stats
    PROVE  LET s == s2.stats[c]
               u == Profiles!ProfileColumn(s5[c])
           IN  /\ s5[c] = s1[c]
               /\ s.rows = u.rows /\ s.nulls = u.nulls /\ s.min = u.min /\ s.max = u.max
               /\ s.nulls = 0 => Profiles!Same(s.sum, u.sum) /\ Profiles!Same(s.mean, u.mean)
  BY DEF Profiles!IInv, Profiles!CountsFollowStream
<1> DEFINE s == s2.stats[c]  u == Profiles!ProfileColumn(s1[c])
           n == Len(s1[c])  t == Profiles!Total(s1[c])  k == Profiles!Missing(s1[c])
           there == Profiles!Present(s1[c])
<1>1. c \in DOMAIN s1 /\ s5[c] = s1[c] /\ s1[c] \in Seq(Int) /\ Profiles!Summed(s, s1[c])
  BY DEF Profiles!IInv, Profiles!IsTable
<1>2. n \in Nat /\ t \in Int /\ k \in Nat
  BY <1>1, TotalAdds, MissingAdds
<1>3. /\ u.rows = n /\ u.nulls = k
      /\ u.min = IF there = {} THEN Profiles!NoValue ELSE Profiles!Min(there)
      /\ u.max = IF there = {} THEN Profiles!NoValue ELSE Profiles!Max(there)
      /\ u.sum = IF there = {} THEN <<0, 0>> ELSE <<t * n, n - k>>
      /\ u.mean = IF there = {} THEN <<0, 0>> ELSE <<t, n - k>>
  BY DEF Profiles!ProfileColumn, Profiles!Stat, Profiles!NoNumber
<1>4. /\ s.rows = n /\ s.nulls = k
      /\ s.min = IF there = {} THEN Profiles!NoValue ELSE Profiles!Min(there)
      /\ s.max = IF there = {} THEN Profiles!NoValue ELSE Profiles!Max(there)
      /\ s.sum \in Int \X Int /\ s.mean \in Int \X Int
      /\ s.nulls = 0 => s.sum[1] = t * s.sum[2] /\ s.mean[1] * n = t * s.mean[2]
  BY <1>1 DEF Profiles!Summed
<1> DEFINE p == s.sum[1]  q == s.sum[2]  v == s.mean[1]  w == s.mean[2]
<1>5. p \in Int /\ q \in Int /\ v \in Int /\ w \in Int
  BY <1>4
<1> HIDE DEF u, s, n, t, k, there
<1>6. ASSUME s.nulls = 0 PROVE Profiles!Same(s.sum, u.sum) /\ Profiles!Same(s.mean, u.mean)
  <2>1. p = t * q /\ v * n = t * w /\ k = 0
    BY <1>4, <1>6
  <2> HIDE DEF p, q, v, w
  <2>2. CASE there = {}
    <3>1. u.sum[1] = 0 /\ u.sum[2] = 0 /\ u.mean[1] = 0 /\ u.mean[2] = 0
      BY <1>3, <2>2
    <3>2. p * 0 = 0 * q /\ v * 0 = 0 * w
      BY <1>5
    <3> QED
      BY <3>1, <3>2 DEF Profiles!Same, p, q, v, w
  <2>3. CASE there # {}
    <3>1. u.sum[1] = t * n /\ u.sum[2] = n /\ u.mean[1] = t /\ u.mean[2] = n
      BY <1>2, <1>3, <2>1, <2>3
    <3>2. p * n = (t * n) * q
      <4>1. (t * q) * n = (t * n) * q
        BY <1>2, <1>5
      <4> QED
        BY <2>1, <4>1
    <3>3. v * n = t * w
      BY <2>1
    <3> QED
      BY <3>1, <3>2, <3>3 DEF Profiles!Same, p, q, v, w
  <2> QED
    BY <2>2, <2>3
<1> QED
  BY <1>1, <1>3, <1>4, <1>6 DEF u, s

-----------------------------------------------------------------------------
(* Sums of a frame are those that Facts is about. *)
LEMMA SizeIsSum == \A f : Predictor!Size(f) = SumFunctionOnSet(f, DOMAIN f)
BY Zenon DEF Predictor!Size, Predictor!SumFunction, Predictor!SumFunctionOnSet,
             Predictor!FoldFunctionOnSet, Predictor!MapThenFoldSet,
             SumFunctionOnSet, FoldFunctionOnSet, MapThenFoldSet

LEMMA FiniteAgain == \A D : Predictor!IsFiniteSet(D) <=> IsFiniteSet(D)
BY Zenon DEF Predictor!IsFiniteSet, IsFiniteSet

LEMMA LnTyped ==
    /\ Len(LnMilli) \in Nat /\ Len(LnMilli) >= 11 /\ DOMAIN LnMilli = 1 .. Len(LnMilli)
    /\ \A i \in 1 .. Len(LnMilli) : LnMilli[i] \in Int
<1>1. LnMilli \in Seq(Int) /\ Len(LnMilli) >= 11
  BY LnAssumption, Zenon
<1> QED
  BY <1>1

(* Without some of its rows a frame is one, and not larger. *)
LEMMA FrameLess ==
    ASSUME NEW f, Predictor!IsFrame(f), NEW g \in [DOMAIN f -> Nat],
           \A v \in DOMAIN f : g[v] <= f[v]
    PROVE  /\ Predictor!IsFrame(g) /\ Predictor!Size(f) \in Nat /\ Predictor!Size(g) \in Nat
           /\ Predictor!Size(g) <= Predictor!Size(f)
<1> DEFINE D == DOMAIN f
<1>1. /\ IsFiniteSet(D) /\ f \in [D -> Nat] /\ Predictor!Size(f) <= Len(LnMilli)
      /\ f \in [D -> Int] /\ g \in [D -> Int] /\ DOMAIN g = D /\ Len(LnMilli) \in Nat
  <2>1. IsFiniteSet(D) /\ f \in [D -> Nat] /\ Predictor!Size(f) <= Len(LnMilli)
    BY FiniteAgain DEF Predictor!IsFrame
  <2>2. f \in [D -> Int] /\ g \in [D -> Int] /\ DOMAIN g = D
    BY <2>1
  <2> QED
    BY <2>1, <2>2, LnTyped
<1>2. Predictor!Size(f) = SumFunctionOnSet(f, D) /\ Predictor!Size(g) = SumFunctionOnSet(g, D)
  BY <1>1, SizeIsSum
<1>3. ASSUME NEW h \in [D -> Nat] PROVE SumFunctionOnSet(h, D) \in Nat
  <2> DEFINE k == Cardinality(D)
  <2>1. h \in [D -> Int] /\ 0 \in Int /\ \A x \in D : 0 + (IF x = D THEN 0 ELSE 0) <= h[x]
    OBVIOUS
  <2>2. k \in Nat
    BY <1>1, FS_CardinalityType
  <2> HIDE DEF D
  <2>3. /\ SumFunctionOnSet(h, D) \in Int
        /\ k * 0 + (IF D \in D THEN 0 ELSE 0) <= SumFunctionOnSet(h, D)
    BY <1>1, <2>1, SumAtLeast
  <2> QED
    BY <2>2, <2>3
<1>4. SumFunctionOnSet(g, D) <= SumFunctionOnSet(f, D)
  <2>1. CASE D = {}
    <3>1. f = g
      BY <1>1, <2>1
    <3> QED
      BY <1>1, <1>3, <3>1
  <2>2. CASE D # {}
    <3>1. PICK a \in D : TRUE
      BY <2>2
    <3>2. g[a] + 0 <= f[a] /\ \A x \in D : x # a => g[x] <= f[x]
      BY <1>1
    <3> HIDE DEF D
    <3>3. SumFunctionOnSet(g, D) + 0 <= SumFunctionOnSet(f, D)
      BY <1>1, <3>1, <3>2, SumMonotone
    <3>4. SumFunctionOnSet(g, D) \in Nat
      BY <1>3 DEF D
    <3> QED
      BY <3>3, <3>4
  <2> QED
    BY <2>1, <2>2
<1>5. SumFunctionOnSet(f, D) \in Nat /\ SumFunctionOnSet(g, D) \in Nat
  BY <1>1, <1>3
<1> HIDE DEF D
<1>6. Predictor!IsFrame(g)
  BY FiniteAgain, <1>1, <1>2, <1>4, <1>5 DEF Predictor!IsFrame
<1> QED
  BY <1>2, <1>4, <1>5, <1>6

LEMMA OnlyIsFrame ==
    ASSUME NEW f, Predictor!IsFrame(f), NEW kept
    PROVE  /\ Predictor!IsFrame(Predictor!Only(f, kept))
           /\ Predictor!Size(f) \in Nat /\ Predictor!Size(Predictor!Only(f, kept)) \in Nat
           /\ Predictor!Size(Predictor!Only(f, kept)) <= Predictor!Size(f)
<1> DEFINE g == [v \in DOMAIN f |-> IF v \in kept THEN f[v] ELSE 0]
<1>1. g \in [DOMAIN f -> Nat] /\ \A v \in DOMAIN f : g[v] <= f[v]
  BY DEF Predictor!IsFrame
<1>2. Predictor!Only(f, kept) = g
  BY DEF Predictor!Only
<1> HIDE DEF g
<1> QED
  BY <1>1, <1>2, FrameLess

LEMMA SampledIsFrame ==
    ASSUME NEW f, Predictor!IsFrame(f), NEW cap \in Nat, NEW g \in Predictor!Sampled(f, cap)
    PROVE  Predictor!IsFrame(g)
<1> DEFINE surplus == Predictor!Size(f) - cap
<1>1. CASE g = f
  BY <1>1
<1>2. CASE g # f
  <2>1. PICK o \in [DOMAIN f -> 0 .. surplus] :
           /\ \A v \in DOMAIN f : o[v] <= f[v]
           /\ g = [v \in DOMAIN f |-> f[v] - o[v]]
    BY <1>2 DEF Predictor!Sampled
  <2>2. surplus \in Int
    <3>1. Predictor!Size(f) \in Nat
      BY OnlyIsFrame
    <3> QED
      BY <3>1
  <2>3. ASSUME NEW v \in DOMAIN f PROVE f[v] - o[v] \in Nat /\ f[v] - o[v] <= f[v]
    BY <2>1, <2>2 DEF Predictor!IsFrame
  <2>4. g \in [DOMAIN f -> Nat] /\ \A v \in DOMAIN f : g[v] <= f[v]
    BY <2>1, <2>3
  <2> QED
    BY <2>4, FrameLess
<1> QED
  BY <1>1, <1>2

(* There are at most eleven deciles, so many bins at most. *)
LEMMA FewBins ==
    ASSUME NEW trained
    PROVE  LET bins == Predictor!Bins(Predictor!Deciles(trained))
           IN  IsFiniteSet(bins) /\ Cardinality(bins) \in 0 .. 11
               /\ Predictor!Cardinality(bins) = Cardinality(bins)
<1> DEFINE edges == Predictor!Deciles(trained)  bins == Predictor!Bins(edges)
           q == [i \in 0 .. 10 |-> Predictor!Quantile(trained, i)]
<1>1. q \in Surjection(0 .. 10, edges)
  BY DEF Surjection, Predictor!Deciles
<1>2. IsFiniteSet(0 .. 10)
  <2>1. 0 \in Int /\ 10 \in Int
    OBVIOUS
  <2> QED
    BY <2>1, FS_Interval, Zenon
<1>3. Cardinality(0 .. 10) = 11
  <2>1. Cardinality(0 .. 10) = IF 0 > 10 THEN 0 ELSE 10 - 0 + 1
    <3>1. 0 \in Int /\ 10 \in Int
      OBVIOUS
    <3> QED
      BY <3>1, FS_Interval, Zenon
  <2> QED
    BY <2>1
<1> HIDE DEF edges, q
<1>4. IsFiniteSet(edges) /\ Cardinality(edges) <= 11
  BY <1>1, <1>2, <1>3, FS_Surjection
<1>5. bins \subseteq edges
  BY DEF Predictor!Bins
<1> HIDE DEF bins
<1>6. IsFiniteSet(bins) /\ Cardinality(bins) <= Cardinality(edges)
  BY <1>4, <1>5, FS_Subset
<1>7. Cardinality(edges) \in Nat /\ Cardinality(bins) \in Nat
  BY <1>4, <1>6, FS_CardinalityType
<1>8. Predictor!Cardinality(bins) = Cardinality(bins)
  BY Zenon DEF Predictor!Cardinality, Cardinality
<1> QED
  BY <1>4, <1>6, <1>7, <1>8 DEF bins, edges

(* One bin's term of the index is hardly negative, and large when the bin is empty. *)
TermBounded(c, n, b) ==
    /\ Predictor!PsiTerm(c, n, b) \in Int
    /\ (-22) * n <= Predictor!PsiTerm(c, n, b)
    /\ c = 0 => 11416 * n <= Predictor!PsiTerm(c, n, b)

LEMMA TermAtLeast ==
    ASSUME NEW n \in 1 .. Len(LnMilli), NEW c \in 0 .. n, NEW b \in 1 .. 11
    PROVE  TermBounded(c, n, b)
<1> USE DEF TermBounded
<1>1. /\ Len(LnMilli) \in Nat /\ Len(LnMilli) >= 11 /\ \A i \in 1 .. Len(LnMilli) : LnMilli[i] \in Int
      /\ LnMilli[b] <= 2400
  <2>1. LnMilli[b] <= 2400
    <3>1. \A i \in 1 .. 11 : LnMilli[i] <= 2400
      BY LnAssumption, Zenon
    <3>2. b \in 1 .. 11
      OBVIOUS
    <3> HIDE DEF TermBounded
    <3> QED
      BY <3>1, <3>2
  <2> QED
    BY <2>1, LnTyped
<1>2. LnMilli[n] \in Int /\ LnMilli[b] \in Int /\ n \in Nat /\ c \in Nat /\ b \in Nat /\ c <= n
  BY <1>1
<1>3. \A i, j \in Nat : i * j \in Nat
  OBVIOUS
<1>4. CASE c = 0
  <2> DEFINE m == 2400 - LnMilli[b]
  <2>1. m \in Nat /\ LnMilli[b] - 13816 = 0 - (m + 11416)
    BY <1>1, <1>2
  <2>2. Predictor!PsiTerm(c, n, b) = (0 * b - n) * (LnMilli[b] - 13816)
    BY <1>4 DEF Predictor!PsiTerm
  <2> HIDE DEF m
  <2>3. (0 * b - n) * (0 - (m + 11416)) = n * m + 11416 * n
    BY <1>2, <2>1
  <2>4. n * m \in Nat
    BY <1>2, <1>3, <2>1
  <2> QED
    BY <1>2, <2>1, <2>2, <2>3, <2>4
<1>5. CASE c # 0
  <2> DEFINE l == LnMilli[c] + LnMilli[b] - LnMilli[n]
  <2>1. c \in 1 .. Len(LnMilli) /\ LnMilli[c] \in Int
    BY <1>1, <1>2, <1>5
  <2>2. l \in Int
    BY <1>2, <2>1
  <2>3. (c * b >= n => l >= -2) /\ (c * b <= n => l <= 2)
    <3>1. c \in DOMAIN LnMilli /\ n \in DOMAIN LnMilli
      BY <2>1, LnTyped
    <3> QED
      BY <3>1, LnAdds, Zenon
  <2>4. Predictor!PsiTerm(c, n, b) = (c * b - n) * l
    BY <1>5 DEF Predictor!PsiTerm
  <2>5. c * b \in Nat /\ c * b <= 11 * n
    <3>1. c * b \in Nat /\ c * (11 - b) \in Nat /\ c * 11 = c * b + c * (11 - b)
      <4>1. 11 - b \in Nat
        OBVIOUS
      <4>2. c * b \in Nat /\ c * (11 - b) \in Nat
        BY <1>2, <1>3, <4>1
      <4>3. c * 11 = c * b + c * (11 - b)
        BY <1>2
      <4> QED
        BY <4>2, <4>3
    <3>2. c * 11 <= 11 * n
      BY <1>2
    <3> QED
      BY <1>2, <3>1, <3>2
  <2> DEFINE e == c * b
  <2> HIDE DEF l, e
  <2>6. CASE e >= n
    <3>1. e - n \in Nat /\ l + 2 \in Nat /\ e \in Nat /\ e <= 11 * n
      BY <1>2, <2>2, <2>3, <2>5, <2>6 DEF e
    <3>2. (e - n) * (l + 2) \in Nat
      BY <1>3, <3>1
    <3>3. (e - n) * (l + 2) = (e - n) * l + 2 * (e - n)
      BY <1>2, <2>2, <3>1
    <3>4. (e - n) * l \in Int
      BY <1>2, <2>2, <3>1
    <3>5. (-22) * n <= (e - n) * l
      BY <1>2, <3>1, <3>2, <3>3, <3>4
    <3> QED
      BY <1>5, <2>4, <3>4, <3>5 DEF e
  <2>7. CASE e < n
    <3>1. n - e \in Nat /\ 2 - l \in Nat /\ e \in Nat
      BY <1>2, <2>2, <2>3, <2>5, <2>7 DEF e
    <3>2. (n - e) * (2 - l) \in Nat
      BY <1>3, <3>1
    <3>3. (n - e) * (2 - l) = 2 * (n - e) + (e - n) * l
      BY <1>2, <2>2, <3>1
    <3>4. (e - n) * l \in Int
      BY <1>2, <2>2, <3>1
    <3>5. (-22) * n <= (e - n) * l
      BY <1>2, <3>1, <3>2, <3>3, <3>4
    <3> QED
      BY <1>5, <2>4, <3>4, <3>5 DEF e
  <2>8. e \in Nat
    BY <2>5 DEF e
  <2> QED
    BY <1>2, <2>6, <2>7, <2>8
<1> QED
  BY <1>4, <1>5

(* Rows that leave a bin empty drift, by the index: the term of the empty bin
   outweighs all others. *)
LEMMA EmptyBinIsDrift ==
    ASSUME NEW trained, NEW scored, Predictor!IsFrame(scored), Predictor!Size(scored) # 0,
           NEW bin \in Predictor!Bins(Predictor!Deciles(trained)),
           Predictor!CountIn(Predictor!Deciles(trained), scored, bin) = 0
    PROVE  Predictor!PsiDrift(trained, scored)
<1> DEFINE edges == Predictor!Deciles(trained)
           D == Predictor!Bins(edges)  n == Predictor!Size(scored)
           k == Cardinality(D)
           terms == [b \in D |-> Predictor!PsiTerm(Predictor!CountIn(edges, scored, b), n, k)]
<1>1. IsFiniteSet(D) /\ k \in 0 .. 11 /\ Predictor!Cardinality(D) = k
  BY FewBins
<1>2. k \in 1 .. 11
  <2>1. D # {}
    OBVIOUS
  <2> HIDE DEF D
  <2>2. k # 0
    BY <1>1, <2>1, FS_EmptySet
  <2> QED
    BY <1>1, <2>2
<1>3. n \in Nat /\ n <= Len(LnMilli) /\ Len(LnMilli) \in Nat
  BY OnlyIsFrame, LnTyped DEF Predictor!IsFrame
<1>4. n \in 1 .. Len(LnMilli)
  BY <1>3
<1> HIDE DEF D, n, k
<1>5. ASSUME NEW b \in D PROVE Predictor!CountIn(edges, scored, b) \in 0 .. n
  BY OnlyIsFrame DEF Predictor!CountIn, n
<1>6. ASSUME NEW b \in D
      PROVE  /\ terms[b] \in Int /\ (-22) * n <= terms[b]
             /\ b = bin => 11416 * n <= terms[b]
  <2>1. Predictor!CountIn(edges, scored, b) \in 0 .. n
    BY <1>5
  <2>2. b = bin => Predictor!CountIn(edges, scored, b) = 0
    OBVIOUS
  <2>3. terms[b] = Predictor!PsiTerm(Predictor!CountIn(edges, scored, b), n, k)
    OBVIOUS
  <2> DEFINE c == Predictor!CountIn(edges, scored, b)
  <2> HIDE DEF terms, edges, c
  <2>4. c \in 0 .. n /\ (b = bin => c = 0) /\ terms[b] = Predictor!PsiTerm(c, n, k)
    BY <2>1, <2>2, <2>3 DEF c
  <2>5. /\ Predictor!PsiTerm(c, n, k) \in Int
        /\ (-22) * n <= Predictor!PsiTerm(c, n, k)
        /\ c = 0 => 11416 * n <= Predictor!PsiTerm(c, n, k)
    <3>1. TermBounded(c, n, k)
      BY <1>2, <1>4, <2>4, TermAtLeast, Zenon
    <3> QED
      BY <3>1 DEF TermBounded
  <2> QED
    BY <2>4, <2>5
<1>7. DOMAIN terms = D /\ terms \in [D -> Int]
  BY <1>6
<1>8. Predictor!PsiDrift(trained, scored) <=> k > 0 /\ Predictor!Size(terms) > 250 * n * k
  BY <1>1 DEF Predictor!PsiDrift, Predictor!Size, D, n
<1> HIDE DEF terms, edges
<1>9. \A b \in D : (-22) * n + (IF b = bin THEN 11438 * n ELSE 0) <= terms[b]
  BY <1>3, <1>6
<1>10. bin \in D
  BY DEF D, edges
<1>11. /\ SumFunctionOnSet(terms, D) \in Int
       /\ k * ((-22) * n) + 11438 * n <= SumFunctionOnSet(terms, D)
  <2>1. (-22) * n \in Int /\ 11438 * n \in Int
    BY <1>3
  <2> QED
    <3> DEFINE low == (-22) * n  more == 11438 * n
    <3>1. /\ low \in Int /\ more \in Int
          /\ \A b \in D : low + (IF b = bin THEN more ELSE 0) <= terms[b]
      BY <1>9, <2>1
    <3> HIDE DEF low, more
    <3>2. /\ SumFunctionOnSet(terms, D) \in Int
          /\ Cardinality(D) * low + (IF bin \in D THEN more ELSE 0) <= SumFunctionOnSet(terms, D)
      BY <1>1, <1>7, <3>1, SumAtLeast
    <3> QED
      BY <1>10, <3>2 DEF k, low, more
<1>12. 250 * n * k < k * ((-22) * n) + 11438 * n
  <2>1. n * k \in Nat /\ n * (11 - k) \in Nat /\ n * 11 = n * k + n * (11 - k)
    <3>1. \A i, j \in Nat : i * j \in Nat
      OBVIOUS
    <3>2. k \in Nat /\ 11 - k \in Nat
      BY <1>2
    <3>3. n * k \in Nat /\ n * (11 - k) \in Nat
      BY <1>3, <3>1, <3>2
    <3>4. n * 11 = n * k + n * (11 - k)
      BY <1>3, <3>2
    <3> QED
      BY <3>3, <3>4
  <2> DEFINE m == n * k
  <2>2. 250 * n * k = 250 * m /\ k * ((-22) * n) = (-22) * m
    BY <1>2, <1>3
  <2> HIDE DEF m
  <2>3. m \in Nat /\ m <= 11 * n
    BY <1>3, <2>1 DEF m
  <2> QED
    BY <1>4, <2>2, <2>3
<1>13. Predictor!Size(terms) = SumFunctionOnSet(terms, D)
  BY <1>7, SizeIsSum
<1>14. 250 * n * k \in Int /\ k * ((-22) * n) + 11438 * n \in Int
  BY <1>2, <1>3
<1> QED
  BY <1>2, <1>8, <1>11, <1>12, <1>13, <1>14

LEMMA PredictorInit == Predictor!Init => Predictor!IInv
BY DEF Predictor!Init, Predictor!IInv, Predictor!Failed, Predictor!Answer

LEMMA PredictorStep == Predictor!IInv /\ [Predictor!Next]_(Predictor!vars) => Predictor!IInv'
<1> SUFFICES ASSUME Predictor!IInv, [Predictor!Next]_(Predictor!vars) PROVE Predictor!IInv'
  OBVIOUS
<1>0. s1 \in Setups /\ s2 \in Frames /\ Predictor!IsFrame(s2) /\ s1.cap \in Nat
  BY FramesAssumption DEF Predictor!IInv
<1>1. ASSUME s1' = s1, s2' \in Frames, s4'.tool # "predict" \/ ~s4'.ok PROVE Predictor!IInv'
  BY <1>0, <1>1 DEF Predictor!IInv
<1>2. ASSUME NEW tool, s4' = Predictor!Failed(tool), UNCHANGED <<s1, s2>>
      PROVE  Predictor!IInv'
  BY <1>0, <1>1, <1>2 DEF Predictor!Failed, Predictor!Answer
<1>3. ASSUME NEW tool, tool # "predict", NEW n, NEW t, NEW s, NEW d,
             s4' = Predictor!Answer(tool, n, t, s, d), UNCHANGED <<s1, s2>>
      PROVE  Predictor!IInv'
  BY <1>0, <1>1, <1>3 DEF Predictor!Answer
<1>4. CASE Predictor!Load
  BY <1>0, <1>1, <1>4 DEF Predictor!Load, Predictor!Failed, Predictor!Answer
<1>5. CASE Predictor!BuildModel
  BY <1>2, <1>3, <1>5 DEF Predictor!BuildModel, Predictor!TrainOrLoad,
                          Predictor!TrainingFails, Predictor!Reply
<1>6. CASE Predictor!Predict
  <2>1. UNCHANGED <<s1, s2>>
    BY <1>6 DEF Predictor!Predict, Predictor!TrainOrLoad, Predictor!TrainingFails, Predictor!Reply
  <2>3. \/ s4' = Predictor!Failed("predict")
        \/ \E fitted, frame : Predictor!ScoreThere(fitted, frame)
        \/ \E fitted, kept : \E frame \in Predictor!Sampled(Predictor!Only(s2, kept), s1.cap) :
              Predictor!ScoreHere(fitted, frame)
    BY <1>6 DEF Predictor!Predict, Predictor!TrainingFails, Predictor!Reply
  <2>4. CASE s4' = Predictor!Failed("predict")
    BY <1>2, <2>1, <2>4
  <2>5. ASSUME NEW fitted, NEW frame, Predictor!ScoreThere(fitted, frame) PROVE Predictor!IInv'
    BY <1>2, <1>3, <2>1, <2>5 DEF Predictor!ScoreThere
  <2>6. ASSUME NEW fitted, NEW kept,
               NEW frame \in Predictor!Sampled(Predictor!Only(s2, kept), s1.cap),
               Predictor!ScoreHere(fitted, frame)
        PROVE  Predictor!IInv'
    <3> DEFINE scored == Predictor!Scorable(frame)
    <3>1. Predictor!IsFrame(frame)
      BY <1>0, OnlyIsFrame, SampledIsFrame
    <3>2. Predictor!IsFrame(scored)
      BY <3>1, OnlyIsFrame DEF Predictor!Scorable, Predictor!Numeric
    <3>3. CASE Predictor!Size(scored) = 0
      BY <1>2, <2>1, <2>6, <3>3 DEF Predictor!ScoreHere
    <3>4. CASE Predictor!Size(scored) # 0
      <4>1. s4' = Predictor!Answer("predict", Predictor!Size(scored), fitted, scored,
                                   Predictor!PsiDrift(fitted, scored))
        BY <2>6, <3>4 DEF Predictor!ScoreHere
      <4>2. /\ s4'.scored = scored /\ s4'.trained = fitted
            /\ s4'.drift = Predictor!PsiDrift(fitted, scored)
        BY <4>1 DEF Predictor!Answer
      <4> HIDE DEF scored
      <4> QED
        BY <1>0, <2>1, <3>2, <3>4, <4>2 DEF Predictor!IInv
    <3> QED
      BY <3>3, <3>4
  <2> QED
    BY <2>3, <2>4, <2>5, <2>6
<1>7. CASE Predictor!Forecast
  BY <1>2, <1>3, <1>7 DEF Predictor!Forecast, Predictor!Reply
<1>8. CASE Predictor!AbTest
  BY <1>2, <1>3, <1>8 DEF Predictor!AbTest, Predictor!Reply
<1>9. ASSUME NEW tool, tool # "predict", NEW data, NEW enough,
             Predictor!Enough(tool, data, enough)
      PROVE  Predictor!IInv'
  <2>1. /\ \/ s4' = Predictor!Answer(tool, Predictor!Size(data), Predictor!NoFrame, data, FALSE)
           \/ s4' = Predictor!Failed(tool)
        /\ UNCHANGED <<s1, s2>>
    BY <1>9, Zenon DEF Predictor!Enough, Predictor!Reply
  <2> QED
    BY <1>2, <1>3, <1>9, <2>1
<1>10. CASE Predictor!CausalEffect
  BY <1>9, <1>10 DEF Predictor!CausalEffect
<1>11. CASE Predictor!Uplift
  BY <1>9, <1>11 DEF Predictor!Uplift
<1>12. CASE Predictor!Cluster
  BY <1>9, <1>12 DEF Predictor!Cluster, Predictor!RowTool
<1>13. CASE Predictor!AnomalyDetection
  BY <1>9, <1>13 DEF Predictor!AnomalyDetection, Predictor!RowTool
<1>14. CASE UNCHANGED Predictor!vars
  BY <1>14 DEF Predictor!vars, Predictor!IInv
<1> QED
  BY <1>4, <1>5, <1>6, <1>7, <1>8, <1>10, <1>11, <1>12, <1>13, <1>14 DEF Predictor!Next

LEMMA PredictorFlags == Predictor!IInv => Predictor!ShiftIsFlagged
BY EmptyBinIsDrift DEF Predictor!IInv, Predictor!ShiftIsFlagged
-----------------------------------------------------------------------------
(* Joins: the tables, and what is picked from a sequence are its elements. *)
Tabs == Joins!Range(Tables)

LEMMA JoinsCardinality == \A S : Joins!Cardinality(S) = Cardinality(S)
BY Zenon DEF Joins!Cardinality, Cardinality

LEMMA PickedIs ==
    ASSUME NEW S, NEW s \in Seq(S), NEW at
    PROVE  Joins!Picked(s, at) \in Seq(S)
<1> DEFINE h == CHOOSE h : IsPicked(h, s, at)
<1>1. PICK g : IsPicked(g, s, at) /\ g[Len(s)] \in Seq(S)
  BY PickedExists
<1>2. IsPicked(h, s, at)
  BY <1>1, Zenon
<1>3. Joins!Picked(s, at) = h[Len(s)]
  BY Zenon DEF Joins!Picked, IsPicked
<1> HIDE DEF h
<1> QED
  BY <1>1, <1>2, <1>3, PickedUnique
-----------------------------------------------------------------------------
(* Joins: the breadth-first search. *)
Edges == {Joins!Edge(s2[i], TRUE) : i \in DOMAIN s2} \cup {Joins!Edge(s2[i], FALSE) : i \in DOMAIN s2}
Frontier == [queue : Seq(Tabs), edges : SUBSET Edges]

(* The tables on the edges of a tree, and what is reached over edges only. *)
Visited(root, edges) == {root} \cup {e.child : e \in edges}
Spans(root, edges) ==
    \A X \in SUBSET Tabs :
        root \in X /\ (\A e \in edges : e.parent \in X => e.child \in X)
            => Visited(root, edges) \subseteq X

(* The edges form a tree that starts at the root. *)
Rooted(root, edges) ==
    /\ edges \subseteq Edges /\ IsFiniteSet(edges)
    /\ \A e \in edges : e.parent \in Visited(root, edges) /\ e.child # root
    /\ \A e, f \in edges : e.child = f.child => e = f
    /\ Spans(root, edges)

Searching(root, s) ==
    /\ s \in Frontier /\ Rooted(root, s.edges)
    /\ \A i \in 1 .. Len(s.queue) : s.queue[i] \in Visited(root, s.edges)

(* From one state of the search to a later one: what is new waits in the queue. *)
Grew(root, s, u) ==
    /\ s.edges \subseteq u.edges
    /\ Cardinality(u.edges) - Len(u.queue) = Cardinality(s.edges) - Len(s.queue)
    /\ \A i \in 1 .. Len(s.queue) : \E j \in 1 .. Len(u.queue) : u.queue[j] = s.queue[i]
    /\ \A t \in Visited(root, u.edges) \ Visited(root, s.edges) :
          \E j \in 1 .. Len(u.queue) : u.queue[j] = t

LEMMA EdgesTyped ==
    ASSUME s2 \in Seq(Joins!Relation), NEW e \in Edges
    PROVE  e.parent \in Tabs /\ e.child \in Tabs
<1>1. PICK i \in DOMAIN s2 : e = Joins!Edge(s2[i], TRUE) \/ e = Joins!Edge(s2[i], FALSE)
  BY DEF Edges
<1>2. s2[i].from \in Tabs /\ s2[i].to \in Tabs
  BY DEF Joins!Relation, Tabs
<1> QED
  BY <1>1, <1>2 DEF Joins!Edge

LEMMA GrewTransitive ==
    ASSUME NEW root, NEW s, NEW u, NEW v, Searching(root, s), Searching(root, u), Searching(root, v),
           Grew(root, s, u), Grew(root, u, v)
    PROVE  Grew(root, s, v)
<1>1. s.edges \subseteq v.edges
  BY DEF Grew
<1>2. Cardinality(v.edges) - Len(v.queue) = Cardinality(s.edges) - Len(s.queue)
  BY DEF Grew
<1>3. \A i \in 1 .. Len(s.queue) : \E j \in 1 .. Len(v.queue) : v.queue[j] = s.queue[i]
  BY DEF Grew
<1>4. ASSUME NEW t \in Visited(root, v.edges) \ Visited(root, s.edges)
      PROVE  \E j \in 1 .. Len(v.queue) : v.queue[j] = t
  <2>1. CASE t \in Visited(root, u.edges)
    <3>1. PICK i \in 1 .. Len(u.queue) : u.queue[i] = t
      BY <1>4, <2>1 DEF Grew
    <3> QED
      BY <3>1 DEF Grew
  <2>2. CASE t \notin Visited(root, u.edges)
    BY <1>4, <2>2 DEF Grew
  <2> QED
    BY <2>1, <2>2
<1> QED
  BY <1>1, <1>2, <1>3, <1>4 DEF Grew

LEMMA VisitKeeps ==
    ASSUME s2 \in Seq(Joins!Relation), NEW root \in Tabs, NEW s, Searching(root, s),
           NEW e \in Edges, e.parent \in Visited(root, s.edges)
    PROVE  LET u == Joins!Visit(root, s, e) IN
           /\ Searching(root, u) /\ Grew(root, s, u) /\ e.child \in Visited(root, u.edges)
<1> DEFINE u == Joins!Visit(root, s, e)
<1>0. s \in Frontier /\ s.queue \in Seq(Tabs) /\ s.edges \subseteq Edges /\ Rooted(root, s.edges)
  BY DEF Searching, Frontier
<1>c. Cardinality(s.edges) \in Nat /\ Len(s.queue) \in Nat
  BY <1>0, FS_CardinalityType DEF Rooted
<1>1. CASE e.child \in Visited(root, s.edges)
  <2>1. u = s
    BY <1>1 DEF Joins!Visit, Visited
  <2>2. Grew(root, s, s)
    BY <1>c DEF Grew
  <2> QED
    BY <1>1, <2>1, <2>2
<1>2. CASE e.child \notin Visited(root, s.edges)
  <2>1. u = [queue |-> Append(s.queue, e.child), edges |-> s.edges \cup {e}]
    BY <1>2 DEF Joins!Visit, Visited
  <2>2. e.child \in Tabs /\ e.child # root /\ e \notin s.edges
    BY <1>2, EdgesTyped DEF Visited
  <2>3. Visited(root, s.edges \cup {e}) = Visited(root, s.edges) \cup {e.child}
    BY DEF Visited
  <2>4. IsFiniteSet(s.edges \cup {e}) /\ Cardinality(s.edges \cup {e}) = Cardinality(s.edges) + 1
    BY <1>0, <2>2, FS_AddElement DEF Rooted
  <2>5. Rooted(root, s.edges \cup {e})
    <3>1. \A f \in s.edges \cup {e} : f.parent \in Visited(root, s.edges \cup {e}) /\ f.child # root
      BY <1>0, <2>2, <2>3 DEF Rooted
    <3>2. \A f, g \in s.edges \cup {e} : f.child = g.child => f = g
      BY <1>0, <1>2 DEF Rooted, Visited
    <3>3. ASSUME NEW X \in SUBSET Tabs, root \in X,
                 \A f \in s.edges \cup {e} : f.parent \in X => f.child \in X
          PROVE  Visited(root, s.edges \cup {e}) \subseteq X
      <4>1. Visited(root, s.edges) \subseteq X
        BY <1>0, <3>3 DEF Rooted, Spans
      <4> QED
        BY <2>3, <3>3, <4>1
    <3> QED
      BY <1>0, <2>4, <3>1, <3>2, <3>3 DEF Rooted, Spans
  <2>6. u.queue = Append(s.queue, e.child) /\ u.edges = s.edges \cup {e}
    BY <2>1
  <2> HIDE DEF u
  <2>7. /\ Append(s.queue, e.child) \in Seq(Tabs)
        /\ Len(Append(s.queue, e.child)) = Len(s.queue) + 1
        /\ \A i \in 1 .. Len(s.queue) : Append(s.queue, e.child)[i] = s.queue[i]
        /\ Append(s.queue, e.child)[Len(s.queue) + 1] = e.child
    BY <1>0, <2>2
  <2>8. u \in Frontier
    BY <1>0, <2>1, <2>7 DEF Frontier
  <2>9. \A i \in 1 .. Len(u.queue) : u.queue[i] \in Visited(root, u.edges)
    <3>1. ASSUME NEW i \in 1 .. (Len(s.queue) + 1)
          PROVE  Append(s.queue, e.child)[i] \in Visited(root, s.edges) \cup {e.child}
      <4>1. CASE i \in 1 .. Len(s.queue)
        BY <2>7, <4>1 DEF Searching
      <4>2. CASE i = Len(s.queue) + 1
        BY <2>7, <4>2
      <4> QED
        BY <1>c, <4>1, <4>2
    <3> QED
      BY <2>3, <2>6, <2>7, <3>1
  <2>10. Searching(root, u)
    BY <2>5, <2>6, <2>8, <2>9 DEF Searching
  <2>11. Grew(root, s, u)
    <3>1. Cardinality(u.edges) - Len(u.queue) = Cardinality(s.edges) - Len(s.queue)
      <4>1. Cardinality(u.edges) = Cardinality(s.edges) + 1
        BY <2>4, <2>6
      <4>2. Len(u.queue) = Len(s.queue) + 1
        BY <2>6, <2>7
      <4> QED
        BY <1>c, <4>1, <4>2
    <3>2. \A i \in 1 .. Len(s.queue) : \E j \in 1 .. Len(u.queue) : u.queue[j] = s.queue[i]
      BY <1>c, <2>6, <2>7
    <3>3. \A t \in Visited(root, u.edges) \ Visited(root, s.edges) :
              \E j \in 1 .. Len(u.queue) : u.queue[j] = t
      <4>1. Len(s.queue) + 1 \in 1 .. Len(u.queue) /\ u.queue[Len(s.queue) + 1] = e.child
        BY <1>c, <2>6, <2>7
      <4> QED
        BY <2>3, <2>6, <4>1
    <3> QED
      BY <2>6, <3>1, <3>2, <3>3 DEF Grew
  <2> QED
    BY <2>3, <2>6, <2>10, <2>11 DEF u
<1> QED
  BY <1>1, <1>2

(* All relationships of a table lead to tables that were reached. *)
Meets(root, edges, t, i) ==
    /\ s2[i].from = t => s2[i].to \in Visited(root, edges)
    /\ s2[i].to = t => s2[i].from \in Visited(root, edges)
Closed(root, edges, t) == \A i \in 1 .. Len(s2) : Meets(root, edges, t, i)

LEMMA MoreVisited ==
    ASSUME NEW root, NEW edges, NEW more, edges \subseteq more
    PROVE  /\ Visited(root, edges) \subseteq Visited(root, more)
           /\ \A t, i : Meets(root, edges, t, i) => Meets(root, more, t, i)
           /\ \A t : Closed(root, edges, t) => Closed(root, more, t)
<1>1. Visited(root, edges) \subseteq Visited(root, more)
  BY DEF Visited
<1>2. \A t, i : Meets(root, edges, t, i) => Meets(root, more, t, i)
  BY <1>1 DEF Meets
<1> QED
  BY <1>1, <1>2 DEF Closed

IsAdjacent(g, root, start, t) ==
    g = [i \in 0 .. Len(s2) |->
            IF i = 0 THEN start
            ELSE IF s2[i].from = t THEN Joins!Visit(root, g[i - 1], Joins!Edge(s2[i], TRUE))
            ELSE IF s2[i].to = t THEN Joins!Visit(root, g[i - 1], Joins!Edge(s2[i], FALSE))
            ELSE g[i - 1]]

LEMMA AdjacentExists ==
    ASSUME s2 \in Seq(Joins!Relation), NEW root, NEW start \in Frontier, NEW t
    PROVE  \E g : IsAdjacent(g, root, start, t)
<1> DEFINE N == Len(s2)
           see(i, v) == IF s2[i].from = t THEN Joins!Visit(root, v, Joins!Edge(s2[i], TRUE))
                        ELSE IF s2[i].to = t THEN Joins!Visit(root, v, Joins!Edge(s2[i], FALSE))
                        ELSE v
           step == [n \in Nat |-> [v \in Frontier |-> IF n \in 1 .. N THEN see(n, v) ELSE v]]
<1>1. N \in Nat /\ DOMAIN s2 = 1 .. N
  OBVIOUS
<1>2. ASSUME NEW v \in Frontier, NEW e \in Edges PROVE Joins!Visit(root, v, e) \in Frontier
  <2>1. v.queue \in Seq(Tabs) /\ v.edges \subseteq Edges /\ e.child \in Tabs
    BY EdgesTyped DEF Frontier
  <2>2. [queue |-> Append(v.queue, e.child), edges |-> v.edges \cup {e}] \in Frontier
    BY <2>1 DEF Frontier
  <2> QED
    BY <2>2 DEF Joins!Visit
<1>3. ASSUME NEW n \in 1 .. N, NEW v \in Frontier PROVE see(n, v) \in Frontier
  <2>1. Joins!Edge(s2[n], TRUE) \in Edges /\ Joins!Edge(s2[n], FALSE) \in Edges
    BY <1>1 DEF Edges
  <2> QED
    BY <1>2, <2>1
<1> HIDE DEF see
<1>4. \A n \in Nat, v \in Frontier : step[n][v] \in Frontier
  BY <1>3
<1>5. \A n \in 1 .. N, v \in Frontier : step[n][v] = see(n, v)
  BY <1>1
<1> HIDE DEF step, N
<1>6. PICK g : IsRecursion(g, N, Frontier, start, step)
  <2>1. \E g : IsRecursion(g, N, Frontier, start, step)
    BY <1>1, <1>4, RecursionExists
  <2> QED
    BY <2>1
<1>7. g \in [0 .. N -> Frontier] /\ g[0] = start /\ \A n \in 1 .. N : g[n] = step[n][g[n - 1]]
  BY <1>6 DEF IsRecursion
<1>8. ASSUME NEW n \in 0 .. N
      PROVE g[n] = IF n = 0 THEN start ELSE see(n, g[n - 1])
  <2>1. CASE n = 0
    BY <1>7, <2>1
  <2>2. CASE n # 0
    <3>1. n \in 1 .. N /\ n - 1 \in 0 .. N
      BY <1>1, <2>2
    <3> QED
      BY <1>5, <1>7, <2>2, <3>1
  <2> QED
    BY <2>1, <2>2
<1>9. IsAdjacent(g, root, start, t)
  BY <1>7, <1>8, Zenon DEF IsAdjacent, N, see
<1> QED
  BY <1>9

LEMMA AdjacentIs ==
    ASSUME s2 \in Seq(Joins!Relation), NEW root, NEW start \in Frontier, NEW t
    PROVE  \E g : IsAdjacent(g, root, start, t) /\ Joins!Adjacent(root, start, t) = g[Len(s2)]
<1> DEFINE h == CHOOSE h : IsAdjacent(h, root, start, t)
<1>1. IsAdjacent(h, root, start, t)
  BY AdjacentExists, Zenon
<1>2. Joins!Adjacent(root, start, t) = h[Len(s2)]
  BY Zenon DEF Joins!Adjacent, IsAdjacent
<1> QED
  BY <1>1, <1>2

LEMMA AdjacentKeeps ==
    ASSUME s2 \in Seq(Joins!Relation), NEW root \in Tabs, NEW start, Searching(root, start),
           NEW t \in Visited(root, start.edges)
    PROVE  LET u == Joins!Adjacent(root, start, t) IN
           Searching(root, u) /\ Grew(root, start, u) /\ Closed(root, u.edges, t)
<1>0. start \in Frontier
  BY DEF Searching
<1>1. PICK g : IsAdjacent(g, root, start, t) /\ Joins!Adjacent(root, start, t) = g[Len(s2)]
  BY <1>0, AdjacentIs
<1> DEFINE N == Len(s2)
           Good == {n \in Nat : n <= N => /\ Searching(root, g[n]) /\ Grew(root, start, g[n])
                                          /\ \A i \in 1 .. n : Meets(root, g[n].edges, t, i)}
<1>2. N \in Nat /\ DOMAIN s2 = 1 .. N
  OBVIOUS
<1>3. 0 \in Good
  <2>1. g[0] = start
    BY <1>1, <1>2 DEF IsAdjacent
  <2>2. Cardinality(start.edges) \in Nat /\ Len(start.queue) \in Nat
    BY <1>0, FS_CardinalityType DEF Searching, Rooted, Frontier
  <2>3. Grew(root, start, start)
    BY <2>2 DEF Grew
  <2> QED
    BY <2>1, <2>3
<1>4. ASSUME NEW n \in Nat, n \in Good PROVE n + 1 \in Good
  <2>1. SUFFICES ASSUME n + 1 <= N
                 PROVE  /\ Searching(root, g[n + 1]) /\ Grew(root, start, g[n + 1])
                        /\ \A i \in 1 .. (n + 1) : Meets(root, g[n + 1].edges, t, i)
    OBVIOUS
  <2> DEFINE i == n + 1
             s == g[n]
  <2>2. i \in 1 .. N /\ i \in 0 .. N /\ i # 0 /\ i - 1 = n /\ n <= N
    BY <1>2, <2>1
  <2>3. g[i] = IF s2[i].from = t THEN Joins!Visit(root, s, Joins!Edge(s2[i], TRUE))
               ELSE IF s2[i].to = t THEN Joins!Visit(root, s, Joins!Edge(s2[i], FALSE))
               ELSE s
    BY <1>1, <2>2 DEF IsAdjacent
  <2>4. /\ Searching(root, s) /\ Grew(root, start, s)
        /\ \A k \in 1 .. n : Meets(root, s.edges, t, k)
    BY <1>4, <2>2
  <2>5. t \in Visited(root, s.edges)
    BY <2>4, MoreVisited DEF Grew
  <2>6. Joins!Edge(s2[i], TRUE) \in Edges /\ Joins!Edge(s2[i], FALSE) \in Edges
    BY <1>2, <2>2 DEF Edges
  <2> HIDE DEF s, i
  <2>7. Searching(root, g[i]) /\ Grew(root, s, g[i]) /\ Meets(root, g[i].edges, t, i)
    <3>1. CASE s2[i].from = t
      <4> DEFINE e == Joins!Edge(s2[i], TRUE)
      <4>1. e.parent = t /\ e.child = s2[i].to
        BY <3>1 DEF Joins!Edge
      <4> HIDE DEF e
      <4>2. g[i] = Joins!Visit(root, s, e)
        BY <2>3, <3>1 DEF e
      <4>3. Searching(root, g[i]) /\ Grew(root, s, g[i]) /\ e.child \in Visited(root, g[i].edges)
        BY <2>4, <2>5, <2>6, <4>1, <4>2, VisitKeeps DEF e
      <4>4. t \in Visited(root, g[i].edges)
        BY <2>5, <4>3, MoreVisited DEF Grew
      <4> QED
        BY <3>1, <4>1, <4>3, <4>4 DEF Meets
    <3>2. CASE s2[i].from # t /\ s2[i].to = t
      <4> DEFINE e == Joins!Edge(s2[i], FALSE)
      <4>1. e.parent = t /\ e.child = s2[i].from
        BY <3>2 DEF Joins!Edge
      <4> HIDE DEF e
      <4>2. g[i] = Joins!Visit(root, s, e)
        BY <2>3, <3>2 DEF e
      <4>3. Searching(root, g[i]) /\ Grew(root, s, g[i]) /\ e.child \in Visited(root, g[i].edges)
        BY <2>4, <2>5, <2>6, <4>1, <4>2, VisitKeeps DEF e
      <4> QED
        BY <3>2, <4>1, <4>3 DEF Meets
    <3>3. CASE s2[i].from # t /\ s2[i].to # t
      <4>1. g[i] = s
        BY <2>3, <3>3
      <4>2. Cardinality(s.edges) \in Nat /\ Len(s.queue) \in Nat
        BY <2>4, FS_CardinalityType DEF Searching, Rooted, Frontier
      <4>3. Grew(root, s, s)
        BY <4>2 DEF Grew
      <4> QED
        BY <2>4, <3>3, <4>1, <4>3 DEF Meets
    <3> QED
      BY <3>1, <3>2, <3>3
  <2>8. Searching(root, start)
    OBVIOUS
  <2>9. Grew(root, start, g[i])
    BY <2>4, <2>7, <2>8, GrewTransitive
  <2>10. \A k \in 1 .. n : Meets(root, g[i].edges, t, k)
    BY <2>4, <2>7, MoreVisited DEF Grew
  <2>11. \A k \in 1 .. (n + 1) : k \in 1 .. n \/ k = i
    BY DEF i
  <2> QED
    BY <2>7, <2>9, <2>10, <2>11 DEF i
<1> HIDE DEF Good
<1>5. N \in Good
  BY <1>2, <1>3, <1>4, NatSetInduction
<1> QED
  BY <1>1, <1>2, <1>5 DEF Good, Closed

(* Between two pops every table that was reached waits or has been looked at. *)
Whole(root, s) ==
    /\ Searching(root, s)
    /\ \A t \in Visited(root, s.edges) :
          Closed(root, s.edges, t) \/ \E i \in 1 .. Len(s.queue) : s.queue[i] = t

LEMMA PopKeeps ==
    ASSUME s2 \in Seq(Joins!Relation), NEW root \in Tabs, NEW s, Whole(root, s)
    PROVE  LET u == Joins!Pop(root, s) IN
           /\ Whole(root, u)
           /\ IF s.queue = <<>> THEN u = s
              ELSE Cardinality(u.edges) - Len(u.queue) = Cardinality(s.edges) - Len(s.queue) + 1
<1>1. CASE s.queue = <<>>
  BY <1>1 DEF Joins!Pop
<1>2. CASE s.queue # <<>>
  <2> DEFINE mid == [queue |-> Tail(s.queue), edges |-> s.edges]
             t == Head(s.queue)
             u == Joins!Adjacent(root, mid, t)
  <2>1. Joins!Pop(root, s) = u
    BY <1>2 DEF Joins!Pop
  <2>2. mid.queue = Tail(s.queue) /\ mid.edges = s.edges
    OBVIOUS
  <2>3. s \in Frontier /\ s.queue \in Seq(Tabs) /\ Searching(root, s)
    BY DEF Whole, Searching, Frontier
  <2>4. /\ Tail(s.queue) \in Seq(Tabs) /\ Len(s.queue) \in Nat /\ Len(s.queue) # 0
        /\ Len(Tail(s.queue)) = Len(s.queue) - 1
        /\ \A i \in 1 .. (Len(s.queue) - 1) : Tail(s.queue)[i] = s.queue[i + 1]
        /\ t = s.queue[1]
    BY <1>2, <2>3
  <2>5. mid \in Frontier
    BY <2>3, <2>4 DEF Frontier
  <2> HIDE DEF mid, t
  <2>6. Searching(root, mid)
    <3>1. ASSUME NEW i \in 1 .. Len(mid.queue) PROVE mid.queue[i] \in Visited(root, mid.edges)
      <4>1. i + 1 \in 1 .. Len(s.queue) /\ mid.queue[i] = s.queue[i + 1]
        BY <2>2, <2>4
      <4> QED
        BY <2>2, <2>3, <4>1 DEF Searching
    <3> QED
      BY <2>2, <2>3, <2>5, <3>1 DEF Searching
  <2>7. t \in Visited(root, mid.edges)
    BY <2>2, <2>3, <2>4 DEF Searching
  <2>8. Searching(root, u) /\ Grew(root, mid, u) /\ Closed(root, u.edges, t)
    BY <2>6, <2>7, AdjacentKeeps
  <2> HIDE DEF u
  <2>9. s.edges \subseteq u.edges
    BY <2>2, <2>8 DEF Grew
  <2>10. ASSUME NEW v \in Visited(root, u.edges)
         PROVE  Closed(root, u.edges, v) \/ \E i \in 1 .. Len(u.queue) : u.queue[i] = v
    <3>1. CASE v \notin Visited(root, s.edges)
      BY <2>2, <2>8, <3>1 DEF Grew
    <3>2. CASE v \in Visited(root, s.edges) /\ Closed(root, s.edges, v)
      BY <2>9, <3>2, MoreVisited
    <3>3. CASE v \in Visited(root, s.edges) /\ ~Closed(root, s.edges, v)
      <4>1. PICK i \in 1 .. Len(s.queue) : s.queue[i] = v
        BY <3>3 DEF Whole
      <4>2. CASE i = 1
        BY <2>4, <2>8, <4>1, <4>2
      <4>3. CASE i # 1
        <5>1. i - 1 \in 1 .. Len(mid.queue) /\ mid.queue[i - 1] = v
          BY <2>2, <2>4, <4>1, <4>3
        <5> QED
          BY <2>8, <5>1 DEF Grew
      <4> QED
        BY <4>2, <4>3
    <3> QED
      BY <3>1, <3>2, <3>3
  <2>11. Cardinality(u.edges) - Len(u.queue) = Cardinality(s.edges) - Len(s.queue) + 1
    <3>1. Cardinality(u.edges) - Len(u.queue) = Cardinality(s.edges) - Len(Tail(s.queue))
      BY <2>2, <2>8 DEF Grew
    <3>2. Cardinality(s.edges) \in Nat
      BY <2>3, FS_CardinalityType DEF Searching, Rooted
    <3> QED
      BY <2>4, <3>1, <3>2
  <2> QED
    BY <1>2, <2>1, <2>8, <2>10, <2>11 DEF Whole
<1> QED
  BY <1>1, <1>2

IsBfs(g, root) ==
    g = [n \in 0 .. Len(Tables) |->
            IF n = 0 THEN [queue |-> <<root>>, edges |-> {}] ELSE Joins!Pop(root, g[n - 1])]

LEMMA StartIsWhole ==
    ASSUME s2 \in Seq(Joins!Relation), NEW root \in Tabs
    PROVE  Whole(root, [queue |-> <<root>>, edges |-> {}])
<1> DEFINE s == [queue |-> <<root>>, edges |-> {}]
<1>1. s.queue = <<root>> /\ s.edges = {} /\ s \in Frontier /\ Len(s.queue) = 1 /\ s.queue[1] = root
  BY DEF Frontier
<1> HIDE DEF s
<1>2. Visited(root, s.edges) = {root}
  BY <1>1 DEF Visited
<1>3. Rooted(root, s.edges)
  BY <1>1, <1>2, FS_EmptySet DEF Rooted, Spans
<1>4. Whole(root, s)
  BY <1>1, <1>2, <1>3 DEF Whole, Searching
<1> QED
  BY <1>4 DEF s

LEMMA BfsExists ==
    ASSUME Tables \in Seq(Tabs), s2 \in Seq(Joins!Relation), NEW root \in Tabs
    PROVE  \E g : IsBfs(g, root)
<1> DEFINE N == Len(Tables)
           V == {s \in Frontier : Whole(root, s)}
           start == [queue |-> <<root>>, edges |-> {}]
           step == [n \in Nat |-> [v \in V |-> Joins!Pop(root, v)]]
<1>1. N \in Nat
  OBVIOUS
<1>2. ASSUME NEW v \in V PROVE Joins!Pop(root, v) \in V
  <2>1. Whole(root, v)
    OBVIOUS
  <2>2. Whole(root, Joins!Pop(root, v))
    BY <2>1, PopKeeps
  <2>3. Joins!Pop(root, v) \in Frontier
    BY <2>2 DEF Whole, Searching
  <2> QED
    BY <2>2, <2>3
<1>3. start \in V
  BY StartIsWhole DEF Whole, Searching
<1> HIDE DEF V
<1>4. \A n \in Nat, v \in V : step[n][v] \in V /\ step[n][v] = Joins!Pop(root, v)
  BY <1>2
<1> HIDE DEF step, N, start
<1>6. PICK g : IsRecursion(g, N, V, start, step)
  <2>1. \E g : IsRecursion(g, N, V, start, step)
    BY <1>1, <1>3, <1>4, RecursionExists
  <2> QED
    BY <2>1
<1>7. g \in [0 .. N -> V] /\ g[0] = start /\ \A n \in 1 .. N : g[n] = step[n][g[n - 1]]
  BY <1>6 DEF IsRecursion
<1>8. ASSUME NEW n \in 0 .. N PROVE g[n] = IF n = 0 THEN start ELSE Joins!Pop(root, g[n - 1])
  <2>1. CASE n = 0
    BY <1>7, <2>1
  <2>2. CASE n # 0
    <3>1. n \in Nat /\ n \in 1 .. N /\ n - 1 \in 0 .. N
      BY <1>1, <2>2
    <3> QED
      BY <1>4, <1>7, <2>2, <3>1
  <2> QED
    BY <2>1, <2>2
<1>9. IsBfs(g, root)
  BY <1>7, <1>8, Zenon DEF IsBfs, N, start
<1> QED
  BY <1>9

LEMMA BfsIs ==
    ASSUME Tables \in Seq(Tabs), s2 \in Seq(Joins!Relation), NEW root \in Tabs
    PROVE  \E g : IsBfs(g, root) /\ Joins!Bfs(root) = g[Len(Tables)].edges
<1> DEFINE h == CHOOSE h : IsBfs(h, root)
<1>1. IsBfs(h, root)
  BY BfsExists, Zenon
<1>2. Joins!Bfs(root) = h[Len(Tables)].edges
  BY Zenon DEF Joins!Bfs, IsBfs
<1> QED
  BY <1>1, <1>2

(* There are at most as many tables as the sequence is long. *)
LEMMA TabsFinite ==
    ASSUME Tables \in Seq(Tabs)
    PROVE  IsFiniteSet(Tabs) /\ Cardinality(Tabs) \in Nat /\ Cardinality(Tabs) <= Len(Tables)
<1> DEFINE D == 1 .. Len(Tables)
<1>1. DOMAIN Tables = D /\ Len(Tables) \in Nat
  OBVIOUS
<1>2. Tabs = {Tables[i] : i \in D}
  BY <1>1, Zenon DEF Tabs, Joins!Range
<1>3. Tables \in Surjection(D, Tabs)
  BY <1>1, <1>2 DEF Surjection
<1>4. IsFiniteSet(D) /\ Cardinality(D) = Len(Tables)
  <2>1. 1 \in Int /\ Len(Tables) \in Int
    BY <1>1
  <2> HIDE DEF D
  <2>2. IsFiniteSet(1 .. Len(Tables)) /\ Cardinality(1 .. Len(Tables)) = IF 1 > Len(Tables) THEN 0 ELSE Len(Tables) - 1 + 1
    BY <2>1, FS_Interval
  <2> QED
    BY <1>1, <2>2 DEF D
<1> HIDE DEF D
<1> QED
  BY <1>3, <1>4, FS_Surjection, FS_CardinalityType

(* The edges of a tree lead to different tables, none of them the root. *)
LEMMA ChildrenCounted ==
    ASSUME Tables \in Seq(Tabs), s2 \in Seq(Joins!Relation), NEW root \in Tabs, NEW edges,
           edges \subseteq Edges, \A e \in edges : e.child # root,
           \A e, f \in edges : e.child = f.child => e = f
    PROVE  LET reached == Visited(root, edges) IN
           /\ IsFiniteSet(edges) /\ IsFiniteSet(reached) /\ reached \subseteq Tabs
           /\ Cardinality(edges) \in Nat /\ Cardinality(reached) = Cardinality(edges) + 1
<1> DEFINE C == {e.child : e \in edges}
           f == [e \in edges |-> e.child]
<1>1. C \subseteq Tabs /\ root \notin C
  BY EdgesTyped
<1>2. f \in Bijection(edges, C)
  <2>1. f \in Injection(edges, C)
    BY DEF Injection, IsInjective
  <2>2. f \in Surjection(edges, C)
    BY DEF Surjection
  <2> QED
    BY <2>1, <2>2 DEF Bijection
<1>3. IsFiniteSet(C)
  BY <1>1, TabsFinite, FS_Subset
<1>4. Visited(root, edges) = C \cup {root}
  BY DEF Visited
<1> HIDE DEF C, f
<1>5. IsFiniteSet(edges) /\ Cardinality(edges) = Cardinality(C)
  <2>1. ExistsBijection(edges, C)
    BY <1>2 DEF ExistsBijection
  <2> QED
    BY <1>3, <2>1, FS_Bijection, FS_Injection, <1>2 DEF Bijection
<1>6. IsFiniteSet(C \cup {root}) /\ Cardinality(C \cup {root}) = Cardinality(C) + 1
  BY <1>1, <1>3, FS_AddElement
<1>7. Cardinality(edges) \in Nat
  BY <1>5, FS_CardinalityType
<1> QED
  BY <1>1, <1>4, <1>5, <1>6, <1>7

(* The search ends with every table looked at: it reaches all that can be reached. *)
LEMMA BfsSpans ==
    ASSUME Tables \in Seq(Tabs), s2 \in Seq(Joins!Relation), NEW root \in Tabs
    PROVE  /\ Rooted(root, Joins!Bfs(root))
           /\ \A t \in Visited(root, Joins!Bfs(root)) : Closed(root, Joins!Bfs(root), t)
           /\ Joins!Reached(root) = Visited(root, Joins!Bfs(root))
<1>1. PICK g : IsBfs(g, root) /\ Joins!Bfs(root) = g[Len(Tables)].edges
  BY BfsIs
<1> DEFINE N == Len(Tables)
           Behind(s, n) == s.queue = <<>> \/ Cardinality(s.edges) - Len(s.queue) + 1 >= n
           Good == {n \in Nat : n <= N => Whole(root, g[n]) /\ Behind(g[n], n)}
<1>2. N \in Nat
  OBVIOUS
<1>3. 0 \in Good
  <2>1. g[0] = [queue |-> <<root>>, edges |-> {}]
    BY <1>1, <1>2 DEF IsBfs
  <2>2. g[0].queue = <<root>> /\ g[0].edges = {} /\ Len(<<root>>) = 1 /\ Cardinality({}) = 0
    BY <2>1, FS_EmptySet
  <2>3. Whole(root, g[0])
    BY <2>1, StartIsWhole
  <2>4. Cardinality(g[0].edges) = 0 /\ Len(g[0].queue) = 1
    BY <2>2
  <2>5. Behind(g[0], 0)
    BY <2>4
  <2> HIDE DEF Behind
  <2> QED
    BY <2>3, <2>5
<1>4. ASSUME NEW n \in Nat, n \in Good PROVE n + 1 \in Good
  <2>1. SUFFICES ASSUME n + 1 <= N PROVE Whole(root, g[n + 1]) /\ Behind(g[n + 1], n + 1)
    OBVIOUS
  <2>2. g[n + 1] = Joins!Pop(root, g[n])
    <3>1. n + 1 \in 0 .. N /\ n + 1 # 0 /\ (n + 1) - 1 = n
      BY <1>2, <2>1
    <3> QED
      BY <1>1, <3>1 DEF IsBfs
  <2>3. Whole(root, g[n]) /\ Behind(g[n], n)
    BY <1>2, <1>4, <2>1
  <2> HIDE DEF Good
  <2>4. /\ Whole(root, g[n + 1])
        /\ IF g[n].queue = <<>> THEN g[n + 1] = g[n]
           ELSE Cardinality(g[n + 1].edges) - Len(g[n + 1].queue)
                    = Cardinality(g[n].edges) - Len(g[n].queue) + 1
    BY <2>2, <2>3, PopKeeps
  <2>5. Cardinality(g[n].edges) - Len(g[n].queue) \in Int
    <3>1. Cardinality(g[n].edges) \in Nat /\ Len(g[n].queue) \in Nat
      BY <2>3, FS_CardinalityType DEF Whole, Searching, Rooted, Frontier
    <3> QED
      BY <3>1
  <2> QED
    BY <2>3, <2>4, <2>5
<1> HIDE DEF Good
<1>5. N \in Good
  BY <1>2, <1>3, <1>4, NatSetInduction
<1> DEFINE s == g[N]
<1>6. Whole(root, s) /\ Behind(s, N) /\ Joins!Bfs(root) = s.edges
  BY <1>1, <1>2, <1>5 DEF Good
<1> HIDE DEF s
<1>7. s.queue = <<>>
  <2>1. /\ IsFiniteSet(s.edges) /\ Cardinality(s.edges) \in Nat
        /\ Visited(root, s.edges) \subseteq Tabs
        /\ Cardinality(Visited(root, s.edges)) = Cardinality(s.edges) + 1
    <3>1. /\ s.edges \subseteq Edges /\ \A e \in s.edges : e.child # root
          /\ \A e, f \in s.edges : e.child = f.child => e = f
      BY <1>6 DEF Whole, Searching, Rooted
    <3> QED
      BY <3>1, ChildrenCounted
  <2>2. Cardinality(Visited(root, s.edges)) <= Cardinality(Tabs)
    BY <2>1, TabsFinite, FS_Subset
  <2>3. Cardinality(s.edges) + 1 <= N
    BY <1>2, <2>1, <2>2, TabsFinite
  <2>4. s.queue \in Seq(Tabs) /\ Len(s.queue) \in Nat
    BY <1>6 DEF Whole, Searching, Frontier
  <2>5. CASE s.queue # <<>>
    <3>1. Len(s.queue) >= 1
      BY <2>4, <2>5
    <3>2. Cardinality(s.edges) - Len(s.queue) + 1 >= N
      BY <1>6, <2>5
    <3> QED
      BY <1>2, <2>1, <2>3, <2>4, <3>1, <3>2
  <2> QED
    BY <2>5
<1>8. \A t \in Visited(root, s.edges) : Closed(root, s.edges, t)
  BY <1>6, <1>7 DEF Whole
<1> QED
  BY <1>6, <1>8 DEF Whole, Searching, Joins!Reached, Visited

-----------------------------------------------------------------------------
(* Joins: when there is one way between any two tables, a tree has the same edges from
   wherever it starts, up to their direction. *)
Flip(e) == [parent |-> e.child, pcols |-> e.ccols, child |-> e.parent,
            ccols |-> e.pcols, kind |-> e.kind]
Same(e, f) == f = e \/ f = Flip(e)

LEMMA EdgeOf ==
    ASSUME s2 \in Seq(Joins!Relation), NEW i \in DOMAIN s2
    PROVE  LET e == Joins!Edge(s2[i], TRUE)
               f == Joins!Edge(s2[i], FALSE) IN
           /\ e \in Edges /\ f \in Edges /\ f = Flip(e) /\ e = Flip(f)
           /\ e.parent = s2[i].from /\ e.child = s2[i].to
           /\ f.parent = s2[i].to /\ f.child = s2[i].from
           /\ DOMAIN e.pcols = DOMAIN e.ccols /\ DOMAIN f.pcols = DOMAIN f.ccols
<1>1. s2[i] \in Joins!Relation
  OBVIOUS
<1>2. DOMAIN s2[i].fcols = DOMAIN s2[i].tcols
  <2>1. \E S : s2[i].fcols \in Seq(S) /\ s2[i].tcols \in Seq(S) /\ Len(s2[i].fcols) = Len(s2[i].tcols)
    BY <1>1 DEF Joins!Relation, Joins!Keys
  <2> QED
    BY <2>1
<1> QED
  BY <1>2 DEF Joins!Edge, Flip, Edges

LEMMA EdgeIs ==
    ASSUME s2 \in Seq(Joins!Relation), NEW e \in Edges
    PROVE  \E i \in DOMAIN s2 : /\ e = Joins!Edge(s2[i], TRUE) \/ e = Joins!Edge(s2[i], FALSE)
                                /\ {e.parent, e.child} = {s2[i].from, s2[i].to}
<1>1. PICK i \in DOMAIN s2 : e = Joins!Edge(s2[i], TRUE) \/ e = Joins!Edge(s2[i], FALSE)
  BY DEF Edges
<1>2. LET a == Joins!Edge(s2[i], TRUE)
          b == Joins!Edge(s2[i], FALSE) IN
      a.parent = s2[i].from /\ a.child = s2[i].to /\ b.parent = s2[i].to /\ b.child = s2[i].from
  BY EdgeOf
<1> QED
  BY <1>1, <1>2

(* No two edges of a tree lead to and fro. *)
LEMMA NoReturn ==
    ASSUME s2 \in Seq(Joins!Relation), NEW root \in Tabs, NEW edges, Rooted(root, edges),
           NEW e \in edges, NEW f \in edges, e.child = f.parent, f.child = e.parent
    PROVE  FALSE
<1> DEFINE X == Visited(root, edges) \ {e.child, f.child}
<1>1. edges \subseteq Edges /\ \A g \in edges : g.parent \in Tabs /\ g.child \in Tabs
  BY EdgesTyped DEF Rooted
<1>2. Visited(root, edges) \subseteq Tabs /\ \A g \in edges : g.child \in Visited(root, edges)
  BY <1>1 DEF Visited
<1>3. root \in X
  BY DEF Rooted, Visited
<1>4. ASSUME NEW g \in edges, g.parent \in X PROVE g.child \in X
  <2>1. g.child # e.child
    <3>1. CASE g = e
      BY <1>4, <3>1
    <3> QED
      BY <3>1 DEF Rooted
  <2>2. g.child # f.child
    <3>1. CASE g = f
      BY <1>4, <3>1
    <3> QED
      BY <3>1 DEF Rooted
  <2> QED
    BY <1>2, <2>1, <2>2
<1>5. X \in SUBSET Tabs
  BY <1>2
<1>6. Visited(root, edges) \subseteq X
  BY <1>3, <1>4, <1>5 DEF Rooted, Spans
<1> QED
  BY <1>2, <1>6

(* With one way between any two tables the relationships of a component are as many as its
   tables less one. *)
Sparse(root, edges) ==
    Cardinality({i \in DOMAIN s2 : s2[i].from \in Visited(root, edges)})
        = Cardinality(Visited(root, edges)) - 1

LEMMA AllUsed ==
    ASSUME Tables \in Seq(Tabs), s2 \in Seq(Joins!Relation), NEW root \in Tabs, NEW edges,
           Rooted(root, edges), Sparse(root, edges),
           NEW i \in DOMAIN s2, s2[i].from \in Visited(root, edges)
    PROVE  \E e \in edges : e = Joins!Edge(s2[i], TRUE) \/ e = Joins!Edge(s2[i], FALSE)
<1> DEFINE I == {k \in DOMAIN s2 : s2[k].from \in Visited(root, edges)}
           Of(e, k) == e = Joins!Edge(s2[k], TRUE) \/ e = Joins!Edge(s2[k], FALSE)
           some(e) == CHOOSE k \in DOMAIN s2 : Of(e, k)
           index == [e \in edges |-> some(e)]
<1>1. edges \subseteq Edges
  BY DEF Rooted
<1>2. ASSUME NEW e \in edges PROVE index[e] \in DOMAIN s2 /\ Of(e, index[e])
  <2>1. \E k \in DOMAIN s2 : Of(e, k)
    BY <1>1, EdgeIs
  <2> HIDE DEF Of
  <2> QED
    BY <2>1
<1>3. \A e \in edges : e.parent \in Visited(root, edges) /\ e.child \in Visited(root, edges)
  BY DEF Rooted, Visited
<1> HIDE DEF some
<1>4. \A e \in edges : index[e] = some(e)
  OBVIOUS
<1>5. ASSUME NEW e \in edges PROVE index[e] \in I
  BY <1>2, <1>3, EdgeOf
<1>6. ASSUME NEW e \in edges, NEW f \in edges, index[e] = index[f] PROVE e = f
  <2>1. CASE e # f
    <3> DEFINE k == index[e]
    <3>1. k \in DOMAIN s2 /\ Of(e, k) /\ Of(f, k)
      BY <1>2, <1>6
    <3> HIDE DEF k
    <3>2. LET a == Joins!Edge(s2[k], TRUE)
              b == Joins!Edge(s2[k], FALSE) IN
          a.parent = b.child /\ a.child = b.parent
      BY <3>1, EdgeOf
    <3>3. e.child = f.parent /\ f.child = e.parent
      <4> DEFINE a == Joins!Edge(s2[k], TRUE)
                 b == Joins!Edge(s2[k], FALSE)
      <4>1. (e = a \/ e = b) /\ (f = a \/ f = b) /\ a.parent = b.child /\ a.child = b.parent
        BY <3>1, <3>2
      <4> HIDE DEF a, b
      <4> QED
        BY <2>1, <4>1
    <3> QED
      BY <3>3, NoReturn
  <2> QED
    BY <2>1
<1>7. index \in Injection(edges, I)
  <2> HIDE DEF I
  <2>1. index \in [edges -> I]
    BY <1>4, <1>5
  <2> HIDE DEF index
  <2> QED
    BY <1>6, <2>1 DEF Injection, IsInjective
<1>8. IsFiniteSet(I)
  <2>1. DOMAIN s2 = 1 .. Len(s2) /\ Len(s2) \in Nat
    OBVIOUS
  <2>2. IsFiniteSet(1 .. Len(s2))
    <3>1. 1 \in Int /\ Len(s2) \in Int
      BY <2>1
    <3> QED
      BY <3>1, FS_Interval
  <2>3. I \in SUBSET (1 .. Len(s2))
    BY <2>1
  <2> HIDE DEF I
  <2> QED
    BY <2>2, <2>3, FS_Subset
<1>9. Cardinality(edges) \in Nat /\ Cardinality(Visited(root, edges)) = Cardinality(edges) + 1
  <2>1. \A e \in edges : e.child # root
    BY DEF Rooted
  <2>2. \A e, f \in edges : e.child = f.child => e = f
    BY DEF Rooted
  <2> QED
    BY <1>1, <2>1, <2>2, ChildrenCounted
<1>10. Cardinality(I) = Cardinality(edges)
  <2>1. Cardinality(I) = Cardinality(Visited(root, edges)) - 1
    BY DEF Sparse
  <2> HIDE DEF I
  <2> QED
    BY <1>9, <2>1
<1>11. i \in I
  OBVIOUS
<1> HIDE DEF I, index
<1>12. index \in Surjection(edges, I)
  BY <1>7, <1>8, <1>10, FS_Injection
<1>13. PICK e \in edges : index[e] = i
  BY <1>11, <1>12 DEF Surjection
<1> QED
  BY <1>2, <1>13

LEMMA ReachedFrom ==
    ASSUME s2 \in Seq(Joins!Relation), NEW a \in Tabs, NEW F, NEW b \in Tabs, NEW G,
           Rooted(a, F), \A t \in Visited(a, F) : Closed(a, F, t), Rooted(b, G), b \in Visited(a, F)
    PROVE  Visited(b, G) \subseteq Visited(a, F)
<1> DEFINE X == Visited(a, F)
<1>1. X \in SUBSET Tabs
  BY EdgesTyped DEF Visited, Rooted
<1>2. ASSUME NEW e \in G, e.parent \in X PROVE e.child \in X
  <2>1. e \in Edges
    BY DEF Rooted
  <2>2. PICK i \in DOMAIN s2 : e = Joins!Edge(s2[i], TRUE) \/ e = Joins!Edge(s2[i], FALSE)
    BY <2>1, EdgeIs
  <2>3. Meets(a, F, e.parent, i)
    BY <1>2 DEF Closed
  <2> QED
    BY <2>2, <2>3, EdgeOf DEF Meets
<1> HIDE DEF X
<1>3. b \in X
  BY DEF X
<1> QED
  BY <1>1, <1>2, <1>3 DEF Rooted, Spans, X

LEMMA EdgesAgree ==
    ASSUME Tables \in Seq(Tabs), s2 \in Seq(Joins!Relation), NEW a \in Tabs, NEW F, NEW b \in Tabs, NEW G,
           Rooted(a, F), \A t \in Visited(a, F) : Closed(a, F, t), a \in Visited(b, G),
           Rooted(b, G), \A t \in Visited(b, G) : Closed(b, G, t), b \in Visited(a, F),
           Sparse(b, G), NEW e \in F
    PROVE  \E f \in G : Same(e, f)
<1>1. Visited(a, F) = Visited(b, G)
  <2>1. Visited(b, G) \subseteq Visited(a, F)
    BY ReachedFrom
  <2>2. Visited(a, F) \subseteq Visited(b, G)
    BY ReachedFrom
  <2> QED
    BY <2>1, <2>2
<1>2. e \in Edges
  BY DEF Rooted
<1>3. PICK i \in DOMAIN s2 : /\ e = Joins!Edge(s2[i], TRUE) \/ e = Joins!Edge(s2[i], FALSE)
                             /\ {e.parent, e.child} = {s2[i].from, s2[i].to}
  BY <1>2, EdgeIs
<1>4. s2[i].from \in Visited(b, G)
  <2>1. e.parent \in Visited(a, F) /\ e.child \in Visited(a, F)
    BY DEF Rooted, Visited
  <2>2. s2[i].from = e.parent \/ s2[i].from = e.child
    BY <1>3
  <2> QED
    BY <1>1, <2>1, <2>2
<1>5. PICK f \in G : f = Joins!Edge(s2[i], TRUE) \/ f = Joins!Edge(s2[i], FALSE)
  BY <1>4, AllUsed
<1> QED
  BY <1>3, <1>5, EdgeOf DEF Same

-----------------------------------------------------------------------------
(* Joins: what is kept of a tree. *)
LEMMA KeepIs ==
    ASSUME s2 \in Seq(Joins!Relation), NEW root, NEW F, Rooted(root, F),
           NEW requested \in SUBSET Tabs
    PROVE  \E K \in Joins!Ways(F, requested) :
              /\ Joins!Prune(F, requested) = {e \in F : e.child \in K}
              /\ \A keep \in Joins!Ways(F, requested) : K \subseteq keep
<1> DEFINE W == Joins!Ways(F, requested)
           K == {t \in Tabs : \A keep \in W : t \in keep}
<1>1. \A keep : keep \in W <=> /\ keep \in SUBSET Tabs /\ requested \subseteq keep
                              /\ \A e \in F : e.child \in keep => e.parent \in keep
  BY DEF Joins!Ways, Tabs
<1>2. \A e \in F : e.parent \in Tabs /\ e.child \in Tabs
  BY EdgesTyped DEF Rooted
<1>3. Joins!Prune(F, requested) = {e \in F : \A keep \in W : e.child \in keep}
  BY DEF Joins!Prune
<1> HIDE DEF W
<1>4. K \in W
  <2>1. requested \subseteq K
    BY <1>1
  <2>2. ASSUME NEW e \in F, e.child \in K PROVE e.parent \in K
    BY <1>1, <1>2, <2>2
  <2>3. K \in SUBSET Tabs
    OBVIOUS
  <2> HIDE DEF K
  <2> QED
    BY <1>1, <2>1, <2>2, <2>3
<1>5. {e \in F : \A keep \in W : e.child \in keep} = {e \in F : e.child \in K}
  BY <1>2
<1>6. \A keep \in W : K \subseteq keep
  OBVIOUS
<1> HIDE DEF K
<1> QED
  BY <1>3, <1>4, <1>5, <1>6 DEF W

LEMMA WaysAre ==
    ASSUME NEW F, NEW requested, NEW keep
    PROVE  keep \in Joins!Ways(F, requested) <=>
              /\ keep \in SUBSET Tabs /\ requested \subseteq keep
              /\ \A e \in F : e.child \in keep => e.parent \in keep
BY DEF Joins!Ways, Tabs

(* A pruned tree is a tree, and ends in requested tables only. *)
LEMMA PrunedIsTree ==
    ASSUME Tables \in Seq(Tabs), s2 \in Seq(Joins!Relation), NEW root \in Tabs,
           NEW requested \in SUBSET Tabs, root \in requested
    PROVE  LET tr == Joins!TreeFrom(root, requested) IN
           /\ tr.root = root /\ tr.edges \subseteq Edges
           /\ \A e \in tr.edges : e.parent \in Joins!TablesOf(tr)
           /\ Cardinality(tr.edges) = Cardinality(Joins!TablesOf(tr)) - 1
           /\ \A t \in Joins!TablesOf(tr) \ requested : \E e \in tr.edges : e.parent = t
<1> DEFINE tr == Joins!TreeFrom(root, requested)
           F == Joins!Bfs(root)
<1>1. Rooted(root, F)
  BY BfsSpans
<1>2. tr.root = root /\ tr.edges = Joins!Prune(F, requested)
  BY DEF Joins!TreeFrom
<1> HIDE DEF F
<1>3. PICK K \in Joins!Ways(F, requested) :
              /\ Joins!Prune(F, requested) = {e \in F : e.child \in K}
              /\ \A keep \in Joins!Ways(F, requested) : K \subseteq keep
  BY <1>1, KeepIs
<1>4. Joins!TablesOf(tr) = Visited(root, tr.edges)
  BY <1>2 DEF Joins!TablesOf, Visited
<1> HIDE DEF tr
<1>5. tr.edges = {e \in F : e.child \in K}
  BY <1>2, <1>3
<1>6. /\ K \in SUBSET Tabs /\ requested \subseteq K
      /\ \A e \in F : e.child \in K => e.parent \in K
  BY <1>3, WaysAre
<1>7. F \subseteq Edges /\ \A e \in F : e.parent \in Visited(root, F) /\ e.child # root
  BY <1>1 DEF Rooted
<1>8. ASSUME NEW e \in tr.edges PROVE e.parent \in Visited(root, tr.edges)
  <2>1. e \in F /\ e.parent \in K
    BY <1>5, <1>6
  <2>2. CASE e.parent = root
    BY <2>2 DEF Visited
  <2>3. CASE e.parent # root
    <3>1. PICK f \in F : f.child = e.parent
      BY <1>7, <2>1, <2>3 DEF Visited
    <3> QED
      BY <1>5, <2>1, <3>1 DEF Visited
  <2> QED
    BY <2>2, <2>3
<1>9. Cardinality(tr.edges) = Cardinality(Visited(root, tr.edges)) - 1
  <2>1. /\ tr.edges \subseteq Edges /\ \A e \in tr.edges : e.child # root
        /\ \A e, f \in tr.edges : e.child = f.child => e = f
    BY <1>1, <1>5, <1>7 DEF Rooted
  <2>2. /\ Cardinality(tr.edges) \in Nat
        /\ Cardinality(Visited(root, tr.edges)) = Cardinality(tr.edges) + 1
    BY <2>1, ChildrenCounted
  <2> QED
    BY <2>2
<1>10. ASSUME NEW t \in Visited(root, tr.edges) \ requested
       PROVE  \E e \in tr.edges : e.parent = t
  <2>1. SUFFICES ASSUME \A e \in tr.edges : e.parent # t PROVE FALSE
    OBVIOUS
  <2>2. PICK e \in tr.edges : e.child = t
    BY DEF Visited
  <2>3. t \in K
    BY <1>5, <2>2
  <2> DEFINE keep == K \ {t}
  <2>4. keep \in Joins!Ways(F, requested)
    <3>1. keep \in SUBSET Tabs /\ requested \subseteq keep
      BY <1>6
    <3>2. ASSUME NEW f \in F, f.child \in keep PROVE f.parent \in keep
      BY <1>5, <1>6, <2>1, <3>2
    <3> HIDE DEF keep
    <3> QED
      BY <3>1, <3>2, WaysAre
  <2>5. K \subseteq keep
    BY <1>3, <2>4
  <2> QED
    BY <2>3, <2>5
<1> QED
  BY <1>2, <1>4, <1>5, <1>7, <1>8, <1>9, <1>10 DEF tr

(* What is kept of one tree is also kept of another one with the same edges, whichever
   way they point. *)
LEMMA WaysAgree ==
    ASSUME s2 \in Seq(Joins!Relation), NEW a \in Tabs, NEW F, Rooted(a, F),
           NEW b, NEW G, Rooted(b, G), \A e \in F : \E f \in G : Same(e, f),
           NEW K \in SUBSET Tabs, a \in K, \A f \in G : f.child \in K => f.parent \in K,
           NEW e \in F, e.child \in K
    PROVE  e.parent \in K
<1> DEFINE Bad == {v \in Tabs : v \notin K /\ \E f \in G : \E g \in F :
                      f.child = v /\ g.parent = v /\ g.child = f.parent}
           X == Tabs \ Bad
<1>1. \A g \in F : g.parent \in Tabs /\ g.child \in Tabs /\ g.parent \in Visited(a, F)
  BY EdgesTyped DEF Rooted
<1>2. a \in X
  OBVIOUS
<1>3. ASSUME NEW c \in F, c.parent \in X PROVE c.child \in X
  <2>1. SUFFICES ASSUME c.child \in Bad PROVE FALSE
    BY <1>1
  <2> DEFINE v == c.child
  <2>2. v \notin K
    BY <2>1
  <2>3. PICK f \in G, g \in F : f.child = v /\ g.parent = v /\ g.child = f.parent
    BY <2>1
  <2>4. PICK h \in G : Same(c, h)
    OBVIOUS
  <2>5. CASE h = c
    <3>1. h = f
      BY <2>3, <2>5 DEF Rooted
    <3> QED
      BY <2>3, <2>5, <3>1, NoReturn
  <2>6. CASE h = Flip(c)
    <3>1. h.child = c.parent /\ h.parent = v
      BY <2>6 DEF Flip
    <3>2. c.parent \notin K
      BY <2>2, <3>1
    <3> QED
      BY <1>1, <1>3, <3>1, <3>2
  <2> QED
    BY <2>4, <2>5, <2>6 DEF Same
<1>4. X \in SUBSET Tabs
  OBVIOUS
<1> HIDE DEF X
<1>5. Visited(a, F) \subseteq X
  BY <1>2, <1>3, <1>4 DEF Rooted, Spans
<1>6. SUFFICES ASSUME e.parent \notin K PROVE FALSE
  OBVIOUS
<1>7. PICK f \in G : Same(e, f)
  OBVIOUS
<1>8. f = Flip(e)
  BY <1>6, <1>7 DEF Same
<1>9. f.child = e.parent /\ f.parent = e.child
  BY <1>8 DEF Flip
<1>10. e.parent \in Bad
  BY <1>1, <1>6, <1>9
<1> QED
  BY <1>1, <1>5, <1>10 DEF X

LEMMA TreesAgree ==
    ASSUME Tables \in Seq(Tabs), s2 \in Seq(Joins!Relation), NEW requested \in SUBSET Tabs,
           NEW a \in requested, NEW b \in requested,
           Sparse(a, Joins!Bfs(a)), Sparse(b, Joins!Bfs(b)),
           requested \subseteq Joins!TablesOf(Joins!TreeFrom(a, requested)),
           requested \subseteq Joins!TablesOf(Joins!TreeFrom(b, requested))
    PROVE  LET tr == Joins!TreeFrom(a, requested)
               other == Joins!TreeFrom(b, requested) IN
           /\ Joins!TablesOf(tr) \subseteq Joins!TablesOf(other)
           /\ \A e \in tr.edges : \E f \in other.edges : Same(e, f)
<1> DEFINE tr == Joins!TreeFrom(a, requested)
           other == Joins!TreeFrom(b, requested)
           F == Joins!Bfs(a)
           G == Joins!Bfs(b)
<1>1. Rooted(a, F) /\ Rooted(b, G)
  BY BfsSpans
<1>2. (\A t \in Visited(a, F) : Closed(a, F, t)) /\ (\A t \in Visited(b, G) : Closed(b, G, t))
  BY BfsSpans
<1>3. /\ tr.edges = Joins!Prune(F, requested) /\ other.edges = Joins!Prune(G, requested)
      /\ Joins!TablesOf(tr) = Visited(a, tr.edges) /\ Joins!TablesOf(other) = Visited(b, other.edges)
  BY DEF Joins!TreeFrom, Joins!TablesOf, Visited
<1>4. requested \subseteq Visited(a, tr.edges) /\ requested \subseteq Visited(b, other.edges)
  BY <1>3
<1>s. Sparse(a, F) /\ Sparse(b, G)
  OBVIOUS
<1> HIDE DEF F, G, tr, other
<1>5. PICK K \in Joins!Ways(F, requested) :
              /\ Joins!Prune(F, requested) = {e \in F : e.child \in K}
              /\ \A keep \in Joins!Ways(F, requested) : K \subseteq keep
  BY <1>1, KeepIs
<1>6. PICK L \in Joins!Ways(G, requested) :
              /\ Joins!Prune(G, requested) = {e \in G : e.child \in L}
              /\ \A keep \in Joins!Ways(G, requested) : L \subseteq keep
  BY <1>1, KeepIs
<1>7. tr.edges = {e \in F : e.child \in K} /\ other.edges = {e \in G : e.child \in L}
  BY <1>3, <1>5, <1>6
<1>8. /\ K \in SUBSET Tabs /\ requested \subseteq K
      /\ \A e \in F : e.child \in K => e.parent \in K
  BY <1>5, WaysAre
<1>9. /\ L \in SUBSET Tabs /\ requested \subseteq L
      /\ \A e \in G : e.child \in L => e.parent \in L
  BY <1>6, WaysAre
<1>10. b \in Visited(a, F) /\ a \in Visited(b, G)
  BY <1>4, <1>7 DEF Visited
<1>11. \A e \in F : \E f \in G : Same(e, f)
  BY <1>1, <1>2, <1>10, <1>s, EdgesAgree
<1>12. K \subseteq L
  <2>1. \A e \in F : e.child \in L => e.parent \in L
    BY <1>1, <1>9, <1>11, WaysAgree
  <2>2. L \in Joins!Ways(F, requested)
    BY <1>9, <2>1, WaysAre
  <2> QED
    BY <1>5, <2>2
<1>13. \A e \in tr.edges : \E f \in other.edges : Same(e, f)
  <2>1. TAKE e \in tr.edges
  <2>2. e \in F /\ e.child \in L /\ e.parent \in L
    BY <1>7, <1>8, <1>12
  <2>3. PICK f \in G : Same(e, f)
    BY <1>11, <2>2
  <2>4. f.child \in L
    BY <2>2, <2>3 DEF Same, Flip
  <2> QED
    BY <1>7, <2>3, <2>4
<1>14. Visited(a, tr.edges) \subseteq Visited(b, other.edges)
  <2>1. a \in Visited(b, other.edges)
    BY <1>4
  <2>2. ASSUME NEW e \in tr.edges PROVE e.child \in Visited(b, other.edges)
    <3>1. PICK f \in other.edges : Same(e, f)
      BY <1>13
    <3>2. CASE f = e
      BY <3>2 DEF Visited
    <3>3. CASE f = Flip(e)
      <4>1. f.parent = e.child /\ f \in G /\ f.child \in L
        BY <1>7, <3>3 DEF Flip
      <4>2. f.parent \in L /\ f.parent \in Visited(b, G)
        BY <1>1, <1>9, <4>1 DEF Rooted
      <4>3. CASE f.parent = b
        BY <4>1, <4>3 DEF Visited
      <4>4. CASE f.parent # b
        <5>1. PICK h \in G : h.child = f.parent
          BY <4>2, <4>4 DEF Visited
        <5> QED
          BY <1>7, <4>1, <4>2, <5>1 DEF Visited
      <4> QED
        BY <4>3, <4>4
    <3> QED
      BY <3>1, <3>2, <3>3 DEF Same
  <2> QED
    BY <2>1, <2>2 DEF Visited
<1> QED
  BY <1>3, <1>13, <1>14 DEF tr, other

-----------------------------------------------------------------------------
(* Joins: the answer does not depend on the directions of the edges. *)
LEMMA MatchFlips ==
    ASSUME s2 \in Seq(Joins!Relation), NEW e \in Edges, NEW f, Same(e, f), NEW r
    PROVE  /\ Joins!MatchAt(e, r[e.parent], r[e.child]) <=> Joins!MatchAt(f, r[f.parent], r[f.child])
           /\ {e.parent, e.child} = {f.parent, f.child}
<1>1. CASE f = e
  BY <1>1
<1>2. CASE f = Flip(e)
  <2>1. /\ f.parent = e.child /\ f.child = e.parent /\ f.pcols = e.ccols /\ f.ccols = e.pcols
    BY <1>2 DEF Flip
  <2>2. DOMAIN e.pcols = DOMAIN e.ccols
    BY EdgeIs, EdgeOf
  <2> QED
    BY <2>1, <2>2 DEF Joins!MatchAt
<1> QED
  BY <1>1, <1>2 DEF Same

LEMMA JoinedAgrees ==
    ASSUME s2 \in Seq(Joins!Relation), NEW q, NEW tr, NEW other,
           Joins!TablesOf(tr) = Joins!TablesOf(other), tr.edges \subseteq Edges,
           other.edges \subseteq Edges,
           \A e \in tr.edges : \E f \in other.edges : Same(e, f),
           \A e \in other.edges : \E f \in tr.edges : Same(e, f)
    PROVE  Joins!Joined(q, tr) = Joins!Joined(q, other)
<1> DEFINE Fits(edges, r) == \A e \in edges : Joins!MatchAt(e, r[e.parent], r[e.child])
           T == Joins!TablesOf(tr)
           D == [T -> UNION {Joins!Row(t) : t \in T}]
           Rows(r) == \A t \in T : r[t] \in Joins!Row(t) /\ Joins!Kept(q, t, r[t])
<1>1. ASSUME NEW r PROVE Fits(tr.edges, r) <=> Fits(other.edges, r)
  <2>1. ASSUME Fits(tr.edges, r), NEW e \in other.edges
        PROVE  Joins!MatchAt(e, r[e.parent], r[e.child])
    <3>1. PICK f \in tr.edges : Same(e, f)
      OBVIOUS
    <3>2. e \in Edges
      OBVIOUS
    <3> QED
      BY <2>1, <3>1, <3>2, MatchFlips
  <2>2. ASSUME Fits(other.edges, r), NEW e \in tr.edges
        PROVE  Joins!MatchAt(e, r[e.parent], r[e.child])
    <3>1. PICK f \in other.edges : Same(e, f)
      OBVIOUS
    <3>2. e \in Edges
      OBVIOUS
    <3> QED
      BY <2>2, <3>1, <3>2, MatchFlips
  <2> QED
    BY <2>1, <2>2
<1>2. Joins!Joined(q, tr) = {r \in D : Rows(r) /\ Fits(tr.edges, r)}
  BY DEF Joins!Joined
<1>3. Joins!Joined(q, other) = {r \in D : Rows(r) /\ Fits(other.edges, r)}
  BY DEF Joins!Joined
<1> HIDE DEF Fits, D, Rows
<1> QED
  BY <1>1, <1>2, <1>3

LEMMA ColumnsAgree ==
    ASSUME s2 \in Seq(Joins!Relation), NEW q, NEW tr, NEW other,
           Joins!TablesOf(tr) = Joins!TablesOf(other),
           \A e \in tr.edges : \E f \in other.edges : Same(e, f),
           \A e \in other.edges : \E f \in tr.edges : Same(e, f)
    PROVE  Joins!GroupColumns(q, tr) = Joins!GroupColumns(q, other)
<1> DEFINE Ends(e, t) == (IF e.parent = t THEN Joins!Range(e.pcols) ELSE {})
                         \cup (IF e.child = t THEN Joins!Range(e.ccols) ELSE {})
           Asked(t) == {d[2] : d \in {d \in q.dimensions : d[1] = t}}
           T == Joins!TablesOf(tr)
<1>1. \A e, f, t : Same(e, f) => Ends(e, t) = Ends(f, t)
  BY DEF Same, Flip
<1>2. Joins!GroupColumns(q, tr) = [t \in T |-> UNION {Ends(e, t) : e \in tr.edges} \cup Asked(t)]
  BY DEF Joins!GroupColumns
<1>3. Joins!GroupColumns(q, other) = [t \in T |-> UNION {Ends(e, t) : e \in other.edges} \cup Asked(t)]
  BY DEF Joins!GroupColumns
<1> HIDE DEF Ends, Asked, T
<1>4. ASSUME NEW t PROVE UNION {Ends(e, t) : e \in tr.edges} = UNION {Ends(e, t) : e \in other.edges}
  BY <1>1
<1> QED
  BY <1>2, <1>3, <1>4

LEMMA AnswerAgrees ==
    ASSUME s2 \in Seq(Joins!Relation), NEW q, NEW tr, NEW other,
           Joins!TablesOf(tr) = Joins!TablesOf(other), tr.edges \subseteq Edges,
           other.edges \subseteq Edges,
           \A e \in tr.edges : \E f \in other.edges : Same(e, f),
           \A e \in other.edges : \E f \in tr.edges : Same(e, f)
    PROVE  Joins!Answer(q, tr) = Joins!Answer(q, other)
<1>1. Joins!Joined(q, tr) = Joins!Joined(q, other)
  BY JoinedAgrees
<1>2. Joins!GroupColumns(q, tr) = Joins!GroupColumns(q, other)
  BY ColumnsAgree
<1> QED
  BY <1>1, <1>2 DEF Joins!Answer

-----------------------------------------------------------------------------
(* Joins: a plan is sound. *)
LEMMA OnlyOne ==
    ASSUME NEW S, IsFiniteSet(S), Cardinality(S) = 1, NEW x \in S
    PROVE  S = {x}
<1>1. IsFiniteSet(S \ {x}) /\ Cardinality(S \ {x}) = Cardinality(S) - 1
  BY FS_RemoveElement
<1>2. Cardinality(S \ {x}) = 0
  BY <1>1
<1>3. S \ {x} = {}
  BY <1>1, <1>2, FS_EmptySet
<1> QED
  BY <1>3

PlanOf(q, tr) ==
    /\ tr.edges \subseteq Edges
    /\ \A e \in tr.edges : e.parent \in Joins!TablesOf(tr)
    /\ Cardinality(tr.edges) = Cardinality(Joins!TablesOf(tr)) - 1
    /\ Joins!Requested(q) \subseteq Joins!TablesOf(tr)
    /\ \A t \in Joins!TablesOf(tr) \ Joins!Requested(q) : \E e \in tr.edges : e.parent = t

LEMMA PlansAre ==
    ASSUME Tables \in Seq(Tabs), s2 \in Seq(Joins!Relation), NEW q,
           Joins!Requested(q) \subseteq Tabs, NEW tr \in Joins!Plans(q)
    PROVE  /\ PlanOf(q, tr)
           /\ Joins!OneWay => \A other \in Joins!Plans(q) :
                                 Joins!Answer(q, other) = Joins!Answer(q, tr)
<1> DEFINE R == Joins!Requested(q)
<1>0. R \in SUBSET Tabs /\ IsFiniteSet(R)
  BY TabsFinite, FS_Subset
<1>1. CASE Cardinality(R) = 1
  <2>1. Joins!Plans(q) = {[root |-> t, edges |-> {}] : t \in R}
    BY <1>1, JoinsCardinality DEF Joins!Plans
  <2> HIDE DEF R
  <2>2. PICK t \in R : tr = [root |-> t, edges |-> {}]
    BY <2>1
  <2>3. R = {t}
    BY <1>0, <1>1, OnlyOne
  <2>4. tr.edges = {} /\ tr.root = t
    BY <2>2
  <2>5. Joins!TablesOf(tr) = {t}
    BY <2>4 DEF Joins!TablesOf
  <2>6. Cardinality({}) = 0 /\ Cardinality({t}) = 1
    BY FS_EmptySet, FS_Singleton
  <2>7. PlanOf(q, tr)
    BY <2>3, <2>4, <2>5, <2>6 DEF PlanOf, R
  <2>8. \A other \in Joins!Plans(q) : other = tr
    BY <2>1, <2>2, <2>3
  <2> QED
    BY <2>7, <2>8
<1>2. CASE Cardinality(R) # 1
  <2>1. Joins!Plans(q) = Joins!Trees(R)
    BY <1>2, JoinsCardinality DEF Joins!Plans
  <2> HIDE DEF R
  <2>2. \A t \in Joins!Plans(q) : \E a \in R : t = Joins!TreeFrom(a, R) /\ R \subseteq Joins!TablesOf(t)
    BY <2>1 DEF Joins!Trees, Joins!Roots
  <2>3. PICK a \in R : tr = Joins!TreeFrom(a, R) /\ R \subseteq Joins!TablesOf(tr)
    BY <2>2
  <2>4. PlanOf(q, tr)
    BY <1>0, <2>3, PrunedIsTree DEF PlanOf, R
  <2>5. ASSUME Joins!OneWay, NEW other \in Joins!Plans(q)
        PROVE  Joins!Answer(q, other) = Joins!Answer(q, tr)
    <3>1. PICK b \in R : other = Joins!TreeFrom(b, R) /\ R \subseteq Joins!TablesOf(other)
      BY <2>2
    <3>2. ASSUME NEW c \in R PROVE Sparse(c, Joins!Bfs(c))
      <4>1. Joins!Reached(c) = Visited(c, Joins!Bfs(c))
        BY <1>0, BfsSpans
      <4>2. Joins!Cardinality({i \in DOMAIN s2 : s2[i].from \in Joins!Reached(c)})
                = Joins!Cardinality(Joins!Reached(c)) - 1
        BY <1>0, <2>5 DEF Joins!OneWay, Tabs
      <4> QED
        BY <4>1, <4>2, JoinsCardinality DEF Sparse
    <3>3. /\ Joins!TablesOf(tr) \subseteq Joins!TablesOf(other)
          /\ \A e \in tr.edges : \E f \in other.edges : Same(e, f)
      BY <1>0, <2>3, <3>1, <3>2, TreesAgree
    <3>4. /\ Joins!TablesOf(other) \subseteq Joins!TablesOf(tr)
          /\ \A e \in other.edges : \E f \in tr.edges : Same(e, f)
      BY <1>0, <2>3, <3>1, <3>2, TreesAgree
    <3>5. tr.edges \subseteq Edges /\ other.edges \subseteq Edges
      BY <1>0, <2>3, <3>1, PrunedIsTree
    <3>6. Joins!TablesOf(tr) = Joins!TablesOf(other)
      BY <3>3, <3>4
    <3>7. Joins!Answer(q, tr) = Joins!Answer(q, other)
      <4> HIDE DEF Joins!Answer
      <4> QED
        BY <3>3, <3>4, <3>5, <3>6, AnswerAgrees, Zenon
    <3> QED
      BY <3>7
  <2> QED
    BY <2>4, <2>5
<1> QED
  BY <1>1, <1>2

-----------------------------------------------------------------------------
(* Joins: the discovery finds relationships between tables of the profile. *)
LEMMA OrderTyped ==
    ASSUME NEW R, NEW S \in SUBSET R, IsFiniteSet(S), NEW order \in Joins!SetToSeqs(S)
    PROVE  order \in Seq(R)
<1>1. Joins!Cardinality(S) \in Nat
  BY JoinsCardinality, FS_CardinalityType
<1>2. order \in [1 .. Joins!Cardinality(S) -> S]
  BY DEF Joins!SetToSeqs
<1>3. order \in [1 .. Joins!Cardinality(S) -> R]
  BY <1>2
<1> QED
  BY <1>1, <1>3

(* What a function gives for the pairs of two finite sets is finite. *)
LEMMA PairsFinite ==
    ASSUME NEW A, NEW B, IsFiniteSet(A), IsFiniteSet(B), NEW f, NEW S,
           \A z \in S : \E p \in A \X B : z = f[p]
    PROVE  IsFiniteSet(S)
<1> DEFINE P == A \X B
           g == [p \in P |-> f[p]]
           T == {f[p] : p \in P}
<1>1. IsFiniteSet(P)
  BY FS_Product
<1>2. g \in Surjection(P, T)
  BY DEF Surjection
<1>3. IsFiniteSet(T)
  <2> HIDE DEF P, g, T
  <2> QED
    BY <1>1, <1>2, FS_Surjection
<1>4. S \subseteq T
  OBVIOUS
<1> HIDE DEF T
<1> QED
  BY <1>3, <1>4, FS_Subset

Names == UNION {Joins!Column(t) : t \in Tabs}

LEMMA RelationTyped ==
    ASSUME NEW t1 \in Tabs, NEW t2 \in Tabs, NEW cols1, NEW cols2,
           cols1 \in Seq(Names) \ {<<>>}, cols2 \in Seq(Names) \ {<<>>}, Len(cols1) = Len(cols2),
           NEW kind \in {"one_to_one", "many_to_one", "many_to_many"}, NEW matched, NEW total
    PROVE  Joins!Relationship(t1, cols1, t2, cols2, kind, matched, total) \in Joins!Relation
<1>1. Joins!Keys = Seq(Names) \ {<<>>}
  BY DEF Joins!Keys, Names, Tabs
<1>2. (total > 0 /\ 20 * matched >= total) \in BOOLEAN /\ (total > 0 /\ 10 * matched >= 8 * total) \in BOOLEAN
  OBVIOUS
<1> DEFINE found == total > 0 /\ 20 * matched >= total
           strong == total > 0 /\ 10 * matched >= 8 * total
           r == [from |-> t1, fcols |-> cols1, to |-> t2, tcols |-> cols2, kind |-> kind,
                 found |-> found, strong |-> strong]
<1>3. Joins!Relationship(t1, cols1, t2, cols2, kind, matched, total) = r
  BY DEF Joins!Relationship
<1>4. found \in BOOLEAN /\ strong \in BOOLEAN
  BY <1>2
<1> HIDE DEF found, strong
<1>5. r \in Joins!Relation
  BY <1>1, <1>4 DEF Joins!Relation, Tabs
<1> QED
  BY <1>3, <1>5

LEMMA PairTyped ==
    ASSUME NEW t1 \in Tabs, NEW t2 \in Tabs, NEW c1 \in Joins!Column(t1), NEW c2 \in Joins!Column(t2)
    PROVE  Joins!TestPair(t1, c1, t2, c2) \in Joins!Relation
<1>1. c1 \in Names /\ c2 \in Names
  BY DEF Names
<1>2. <<c1>> \in Seq(Names) \ {<<>>} /\ <<c2>> \in Seq(Names) \ {<<>>} /\ Len(<<c1>>) = Len(<<c2>>)
  BY <1>1
<1> DEFINE from == Joins!Values(t1, c1)
           to == Joins!Values(t2, c2)
           kind == Joins!JoinKind(1000 * Joins!Cardinality(from) >= 999 * Len(s1[t1]),
                                  Joins!Cardinality(to) >= Len(s1[t1]))
           matched == Joins!Cardinality(from \cap to)
           total == Joins!Cardinality(from)
<1>3. kind \in {"one_to_one", "many_to_one", "many_to_many"}
  BY DEF Joins!JoinKind
<1>4. Joins!TestPair(t1, c1, t2, c2)
          = Joins!Relationship(t1, <<c1>>, t2, <<c2>>, kind, matched, total)
  BY Zenon DEF Joins!TestPair
<1> HIDE DEF kind, matched, total
<1>5. Joins!Relationship(t1, <<c1>>, t2, <<c2>>, kind, matched, total) \in Joins!Relation
  BY <1>2, <1>3, RelationTyped
<1> QED
  BY <1>4, <1>5

LEMMA TuplesTyped ==
    ASSUME NEW t1 \in Tabs, NEW t2 \in Tabs, NEW cols1, NEW cols2,
           cols1 \in Seq(Names) \ {<<>>}, cols2 \in Seq(Names) \ {<<>>}, Len(cols1) = Len(cols2)
    PROVE  Joins!TestComposite(t1, cols1, t2, cols2) \in Joins!Relation
<1> DEFINE total == Len(s1[t1])
           kind == Joins!JoinKind(1000 * Joins!Cardinality(Joins!Tuples(t1, cols1)) >= 999 * total,
                                  1000 * Joins!Cardinality(Joins!Tuples(t2, cols2)) >= 999 * total)
           matched == Joins!Cardinality({r \in Joins!Row(t1) :
                          Joins!Tuple(t1, r, cols1) \in Joins!Tuples(t2, cols2)})
<1>1. kind \in {"one_to_one", "many_to_one", "many_to_many"}
  BY DEF Joins!JoinKind
<1>2. Joins!TestComposite(t1, cols1, t2, cols2)
          = Joins!Relationship(t1, cols1, t2, cols2, kind, matched, total)
  BY Zenon DEF Joins!TestComposite
<1> HIDE DEF kind, matched, total
<1>3. Joins!Relationship(t1, cols1, t2, cols2, kind, matched, total) \in Joins!Relation
  BY <1>1, RelationTyped
<1> QED
  BY <1>2, <1>3

Composed(s, cols1, cols2) ==
    {r \in {Joins!TestComposite(s[1].from, k1, s[1].to, k2) :
                k1 \in Joins!Ordered2(cols1), k2 \in Joins!Ordered2(cols2)} : r.strong}

LEMMA CompositesTyped ==
    ASSUME NEW s \in Seq(Joins!Relation)
    PROVE  Joins!CompositesOf(s) \subseteq Joins!Relation /\ IsFiniteSet(Joins!CompositesOf(s))
<1> DEFINE from == [i \in DOMAIN s |-> s[i].fcols[1]]
           to   == [i \in DOMAIN s |-> s[i].tcols[1]]
           cols1 == Joins!Distinct(from)
           cols2 == Joins!Distinct(to)
<1>1. CASE Len(s) < 2
  BY <1>1, FS_EmptySet DEF Joins!CompositesOf
<1>2. CASE ~(Len(s) < 2)
  <2>1. \A i \in DOMAIN s : s[i].fcols[1] \in Names /\ s[i].tcols[1] \in Names
    <3>1. \A k \in Joins!Keys : k[1] \in Names
      <4>1. Joins!Keys = Seq(Names) \ {<<>>}
        BY DEF Joins!Keys, Names, Tabs
      <4> HIDE DEF Joins!Keys
      <4>2. \A k \in Seq(Names) : k # <<>> => k[1] \in Names
        OBVIOUS
      <4> QED
        BY <4>1, <4>2
    <3> QED
      BY <3>1 DEF Joins!Relation
  <2>2. from \in Seq(Names) /\ to \in Seq(Names)
    BY <2>1
  <2> HIDE DEF from, to
  <2>3. cols1 \in Seq(Names) /\ cols2 \in Seq(Names)
    BY <2>2, PickedIs DEF Joins!Distinct
  <2>4. s[1].from \in Tabs /\ s[1].to \in Tabs
    BY <1>2 DEF Joins!Relation, Tabs
  <2>5. ASSUME NEW cols \in Seq(Names)
        PROVE  /\ \A k \in Joins!Ordered2(cols) : k \in Seq(Names) \ {<<>>} /\ Len(k) = 2
               /\ IsFiniteSet(Joins!Ordered2(cols))
    <3> DEFINE D == DOMAIN cols
               f == [p \in D \X D |-> <<cols[p[1]], cols[p[2]]>>]
    <3>1. \A k \in Joins!Ordered2(cols) : \E i, j \in D : k = <<cols[i], cols[j]>>
      BY DEF Joins!Ordered2
    <3>2. \A p \in D \X D : f[p] = <<cols[p[1]], cols[p[2]]>>
      OBVIOUS
    <3>3. IsFiniteSet(D)
      <4>1. D = 1 .. Len(cols) /\ 1 \in Int /\ Len(cols) \in Int
        OBVIOUS
      <4> HIDE DEF D
      <4>2. IsFiniteSet(1 .. Len(cols))
        BY <4>1, FS_Interval
      <4> QED
        BY <4>1, <4>2
    <3>4. \A i \in D : cols[i] \in Names
      OBVIOUS
    <3> HIDE DEF D, f
    <3>5. IsFiniteSet(Joins!Ordered2(cols))
      <4>1. \A k \in Joins!Ordered2(cols) : \E p \in D \X D : k = f[p]
        <5>1. TAKE k \in Joins!Ordered2(cols)
        <5>2. PICK i \in D, j \in D : k = <<cols[i], cols[j]>>
          BY <3>1
        <5>3. <<i, j>> \in D \X D /\ <<i, j>>[1] = i /\ <<i, j>>[2] = j
          OBVIOUS
        <5> QED
          BY <3>2, <5>2, <5>3
      <4> QED
        BY <3>3, <4>1, PairsFinite
    <3>6. \A k \in Joins!Ordered2(cols) : k \in Seq(Names) \ {<<>>} /\ Len(k) = 2
      <4>1. TAKE k \in Joins!Ordered2(cols)
      <4>2. PICK i \in D, j \in D : k = <<cols[i], cols[j]>>
        BY <3>1
      <4> DEFINE a == cols[i]
                 b == cols[j]
      <4>3. a \in Names /\ b \in Names
        BY <3>4
      <4> HIDE DEF a, b
      <4>4. <<a, b>> \in Seq(Names) \ {<<>>} /\ Len(<<a, b>>) = 2
        BY <4>3
      <4> QED
        BY <4>2, <4>4 DEF a, b
    <3> QED
      BY <3>5, <3>6
  <2> HIDE DEF cols1, cols2
  <2> DEFINE A == Joins!Ordered2(cols1)
             B == Joins!Ordered2(cols2)
             f == [p \in A \X B |-> Joins!TestComposite(s[1].from, p[1], s[1].to, p[2])]
  <2>6. \A z \in Joins!CompositesOf(s) : \E k1 \in A, k2 \in B :
            z = Joins!TestComposite(s[1].from, k1, s[1].to, k2)
    <3>1. Joins!CompositesOf(s) = IF Len(s) < 2 THEN {} ELSE Composed(s, cols1, cols2)
      BY SMTT(30) DEF Joins!CompositesOf, Composed, cols1, cols2, from, to
    <3>2. Joins!CompositesOf(s) = Composed(s, cols1, cols2)
      BY <1>2, <3>1
    <3>3. \A z \in Composed(s, cols1, cols2) : \E k1 \in A, k2 \in B :
              z = Joins!TestComposite(s[1].from, k1, s[1].to, k2)
      BY DEF Composed
    <3> QED
      BY <3>2, <3>3
  <2>7. \A p \in A \X B : f[p] = Joins!TestComposite(s[1].from, p[1], s[1].to, p[2])
    OBVIOUS
  <2>8. \A k1 \in A, k2 \in B :
            Joins!TestComposite(s[1].from, k1, s[1].to, k2) \in Joins!Relation
    BY <2>3, <2>4, <2>5, TuplesTyped
  <2>9. IsFiniteSet(A) /\ IsFiniteSet(B)
    BY <2>3, <2>5
  <2> HIDE DEF A, B, f
  <2>10. \A z \in Joins!CompositesOf(s) : \E p \in A \X B : z = f[p]
    <3>1. TAKE z \in Joins!CompositesOf(s)
    <3>2. PICK k1 \in A, k2 \in B : z = Joins!TestComposite(s[1].from, k1, s[1].to, k2)
      BY <2>6
    <3>3. <<k1, k2>> \in A \X B /\ <<k1, k2>>[1] = k1 /\ <<k1, k2>>[2] = k2
      OBVIOUS
    <3> QED
      BY <2>7, <3>2, <3>3
  <2>11. IsFiniteSet(Joins!CompositesOf(s))
    BY <2>9, <2>10, PairsFinite
  <2> QED
    BY <2>6, <2>8, <2>11
<1> QED
  BY <1>1, <1>2
-----------------------------------------------------------------------------
(* Joins: the discovery keeps its invariant. *)
LEMMA TestedTyped ==
    ASSUME NEW t1 \in Tabs, NEW t2 \in Tabs, NEW S,
           \A z \in S : \E c1 \in Joins!Candidate(t1), c2 \in Joins!Candidate(t2) :
               z = Joins!TestPair(t1, c1, t2, c2)
    PROVE  S \subseteq Joins!Relation /\ IsFiniteSet(S)
<1> DEFINE A == Joins!Candidate(t1)
           B == Joins!Candidate(t2)
           f == [p \in A \X B |-> Joins!TestPair(t1, p[1], t2, p[2])]
<1>1. A \subseteq Joins!Column(t1) /\ B \subseteq Joins!Column(t2)
  BY DEF Joins!Candidate
<1>2. IsFiniteSet(A) /\ IsFiniteSet(B)
  <2>1. IsFiniteSet(Joins!Column(t1)) /\ IsFiniteSet(Joins!Column(t2))
    BY JoinsAssumption DEF Tabs
  <2> HIDE DEF A, B
  <2> QED
    BY <1>1, <2>1, FS_Subset
<1>3. \A z \in S : \E c1 \in A, c2 \in B : z = Joins!TestPair(t1, c1, t2, c2)
  OBVIOUS
<1>4. \A p \in A \X B : f[p] = Joins!TestPair(t1, p[1], t2, p[2])
  OBVIOUS
<1> HIDE DEF A, B, f
<1>5. \A z \in S : \E p \in A \X B : z = f[p]
  <2>1. TAKE z \in S
  <2>2. PICK c1 \in A, c2 \in B : z = Joins!TestPair(t1, c1, t2, c2)
    BY <1>3
  <2>3. <<c1, c2>> \in A \X B /\ <<c1, c2>>[1] = c1 /\ <<c1, c2>>[2] = c2
    OBVIOUS
  <2> QED
    BY <1>4, <2>2, <2>3
<1>6. IsFiniteSet(S)
  BY <1>2, <1>5, PairsFinite
<1>7. \A c1 \in A, c2 \in B : Joins!TestPair(t1, c1, t2, c2) \in Joins!Relation
  BY <1>1, PairTyped
<1> QED
  BY <1>3, <1>6, <1>7

LEMMA ProbeKeeps ==
    ASSUME Joins!DiscoveryInv, Joins!Probe
    PROVE  Joins!DiscoveryInv'
<1> USE DEF Joins!DiscoveryInv
<1> DEFINE R == Joins!Relation
           t1 == Tables[s5[1]]
           t2 == Tables[s5[2]]
           S == Joins!Related(t1, t2)
<1>1. s5 \in Nat \X Nat /\ 1 <= s5[1] /\ s5[1] < s5[2] /\ s5[2] <= Len(Tables)
  BY DEF Joins!Probe
<1>2. t1 \in Tabs /\ t2 \in Tabs
  BY <1>1, JoinsAssumption DEF Tabs
<1>3. S \in SUBSET R /\ IsFiniteSet(S)
  <2> HIDE DEF t1, t2
  <2>1. \A z \in S : \E c1 \in Joins!Candidate(t1), c2 \in Joins!Candidate(t2) :
            z = Joins!TestPair(t1, c1, t2, c2)
    BY DEF Joins!Related
  <2> HIDE DEF S
  <2>2. S \subseteq R /\ IsFiniteSet(S)
    BY <1>2, <2>1, TestedTyped
  <2> QED
    BY <2>2
<1>4. \E order \in Joins!SetToSeqs(S) : \E a, b, c :
          /\ s2' = s2 \o Joins!Picked(order, a)
          /\ s3' = s3 \o Joins!Picked(order, b)
          /\ s4' = Append(s4, Joins!Picked(order, c))
  BY Zenon DEF Joins!Probe
<1>5. s5' = IF s5[2] < Len(Tables) THEN <<s5[1], s5[2] + 1>> ELSE <<s5[1] + 1, s5[1] + 2>>
  BY DEF Joins!Probe
<1> HIDE DEF S
<1>60. PICK order \in Joins!SetToSeqs(S) : \E a, b, c :
          /\ s2' = s2 \o Joins!Picked(order, a)
          /\ s3' = s3 \o Joins!Picked(order, b)
          /\ s4' = Append(s4, Joins!Picked(order, c))
  BY <1>4
<1>6. PICK a, b, c :
          /\ s2' = s2 \o Joins!Picked(order, a)
          /\ s3' = s3 \o Joins!Picked(order, b)
          /\ s4' = Append(s4, Joins!Picked(order, c))
  BY <1>60
<1> HIDE DEF R
<1>7. order \in Seq(R)
  BY <1>3, OrderTyped
<1>8. Joins!Picked(order, a) \in Seq(R) /\ Joins!Picked(order, b) \in Seq(R)
      /\ Joins!Picked(order, c) \in Seq(R)
  BY <1>7, PickedIs
<1>9. s2 \in Seq(R) /\ s3 \in Seq(R) /\ s4 \in Seq(Seq(R))
  BY DEF R
<1>10. s2' \in Seq(R) /\ s3' \in Seq(R)
  BY <1>6, <1>8, <1>9
<1>11. s4' \in Seq(Seq(R))
  <2> DEFINE Q == Seq(R)
             p == Joins!Picked(order, c)
  <2>1. p \in Q /\ s4 \in Seq(Q) /\ s4' = Append(s4, p)
    BY <1>6, <1>8, <1>9
  <2> HIDE DEF Q, p
  <2>2. s4' \in Seq(Q)
    BY <2>1
  <2> QED
    BY <2>2 DEF Q
<1>12. s5' \in Nat \X Nat /\ 1 <= s5'[1] /\ s5'[1] < s5'[2]
  <2>1. CASE s5[2] < Len(Tables)
    BY <1>1, <1>5, <2>1
  <2>2. CASE ~(s5[2] < Len(Tables))
    BY <1>1, <1>5, <2>2
  <2> QED
    BY <2>1, <2>2
<1> QED
  BY <1>10, <1>11, <1>12 DEF R

LEMMA CompositesKeep ==
    ASSUME Joins!DiscoveryInv, Joins!Composites
    PROVE  Joins!DiscoveryInv'
<1> USE DEF Joins!DiscoveryInv
<1> DEFINE R == Joins!Relation
           found == [i \in DOMAIN s4 |-> Joins!CompositesOf(s4[i])]
           U == UNION Joins!Range(found)
<1>1. s2 \in Seq(R) /\ s3 \in Seq(R) /\ s4 \in Seq(Seq(R))
  OBVIOUS
<1>2. \A i \in DOMAIN s4 : found[i] \subseteq R /\ IsFiniteSet(found[i])
  <2>1. \A i \in DOMAIN s4 : s4[i] \in Seq(Joins!Relation)
    <3> HIDE DEF R
    <3>1. \A i \in DOMAIN s4 : s4[i] \in Seq(R)
      BY <1>1
    <3> QED
      BY <3>1 DEF R
  <2> QED
    BY <2>1, CompositesTyped
<1>3. DOMAIN found = 1 .. Len(s4) /\ Len(s4) \in Nat
  BY <1>1
<1>4. DOMAIN s4 = 1 .. Len(s4)
  BY <1>1
<1> HIDE DEF found
<1>5. Joins!Range(found) = {found[i] : i \in DOMAIN found}
  BY DEF Joins!Range
<1>6. IsFiniteSet(Joins!Range(found))
  <2>1. 1 \in Int /\ Len(s4) \in Int
    BY <1>3
  <2>2. IsFiniteSet(1 .. Len(s4))
    BY <2>1, FS_Interval
  <2>3. found \in [DOMAIN found -> Joins!Range(found)]
    <3>1. found = [i \in DOMAIN s4 |-> found[i]]
      BY <1>3, <1>4 DEF found
    <3> QED
      BY <1>3, <1>4, <1>5, <3>1
  <2>4. found \in Surjection(DOMAIN found, Joins!Range(found))
    BY <1>5, <2>3 DEF Surjection
  <2> QED
    BY <1>3, <2>2, <2>4, FS_Surjection
<1>7. \A X \in Joins!Range(found) : X \subseteq R /\ IsFiniteSet(X)
  BY <1>2, <1>3, <1>4, <1>5
<1>8. U \in SUBSET R /\ IsFiniteSet(U)
  <2>1. IsFiniteSet(U)
    BY <1>6, <1>7, FS_UNION
  <2> QED
    BY <1>7, <2>1
<1>9. \E order \in Joins!SetToSeqs(U) : \E a : s2' = (s2 \o Joins!Picked(s3, a)) \o order
  BY DEF Joins!Composites, found
<1> HIDE DEF U, R
<1>90. PICK order \in Joins!SetToSeqs(U) : \E a : s2' = (s2 \o Joins!Picked(s3, a)) \o order
  BY <1>9
<1>10. PICK a : s2' = (s2 \o Joins!Picked(s3, a)) \o order
  BY <1>90
<1>11. order \in Seq(R) /\ Joins!Picked(s3, a) \in Seq(R)
  BY <1>1, <1>8, OrderTyped, PickedIs
<1>12. s2' \in Seq(R)
  BY <1>1, <1>10, <1>11
<1>13. s3' = s3 /\ s4' = s4 /\ s5' = s5
  BY DEF Joins!Composites
<1> QED
  BY <1>12, <1>13 DEF R

LEMMA DiscoveryKeeps ==
    ASSUME Joins!DiscoveryInv, [Joins!DiscoveryNext]_(Joins!discoveryVars)
    PROVE  Joins!DiscoveryInv'
<1>1. CASE Joins!Probe
  BY <1>1, ProbeKeeps
<1>2. CASE Joins!PairsDone
  BY <1>2 DEF Joins!DiscoveryInv, Joins!PairsDone
<1>3. CASE Joins!Composites
  BY <1>3, CompositesKeep
<1>4. CASE UNCHANGED Joins!discoveryVars
  BY <1>4 DEF Joins!DiscoveryInv, Joins!discoveryVars
<1> QED
  BY <1>1, <1>2, <1>3, <1>4 DEF Joins!DiscoveryNext
-----------------------------------------------------------------------------
(* Joins: the inductive invariant. *)
LEMMA JoinsInit == Joins!Init => Joins!IInv
<1> SUFFICES ASSUME Joins!Init PROVE Joins!IInv
  OBVIOUS
<1>1. Joins!DiscoveryInv
  BY DEF Joins!Init, Joins!DiscoveryInit, Joins!DiscoveryInv
<1>2. s7.metrics = {} /\ s7.dimensions = {} /\ s8.metrics = {} /\ s8.dimensions = {}
  BY DEF Joins!Init, Joins!NoQuestion
<1> QED
  BY <1>1, <1>2 DEF Joins!Init, Joins!IInv

LEMMA AskKeeps ==
    ASSUME Joins!IInv, NEW q \in Questions, Joins!Ask(q)
    PROVE  Joins!IInv'
<1>1. Joins!DiscoveryInv'
  BY DEF Joins!IInv, Joins!DiscoveryInv, Joins!Ask, Joins!discoveryVars
<1>2. s11' = {} /\ s7' = q /\ s8' = q /\ s13' = "validate" /\ s6' = "found"
  BY DEF Joins!IInv, Joins!Ask, Joins!discoveryVars
<1> QED
  BY <1>1, <1>2 DEF Joins!IInv

(* A table is left out because the source lacks a column of it, or all of it. *)
LEMMA BreachedIsGone ==
    ASSUME NEW q, NEW t \in Joins!Breaches(q)
    PROVE  \E ref \in s9 : ref[1] = t
<1>1. CASE t \in Joins!RefBreaches(q)
  <2>1. PICK y : Joins!Lost(y) /\ t = y[1]
    BY <1>1 DEF Joins!RefBreaches
  <2>2. <<y[1], "">>[1] = y[1]
    OBVIOUS
  <2> QED
    BY <2>1, <2>2 DEF Joins!Lost
<1>2. CASE \E tr \in Joins!Plans(q) : t \in Joins!UseBreaches(q, tr)
  <2>1. PICK y : y \in s9 /\ t = y[1]
    BY <1>2 DEF Joins!UseBreaches
  <2> QED
    BY <2>1
<1> QED
  BY <1>1, <1>2 DEF Joins!Breaches

LEMMA DropKeeps ==
    ASSUME Joins!IInv, NEW t, Joins!Drop(t)
    PROVE  Joins!IInv'
<1>1. Joins!DiscoveryInv' /\ s6' = s6 /\ s7' = s7 /\ s9' = s9 /\ s10' = s10
      /\ s13' = "validate" /\ s10 /\ s11' = s11 \cup {t} /\ s6 = "found"
  BY DEF Joins!IInv, Joins!DiscoveryInv, Joins!Drop, Joins!discoveryVars
<1>2. \E ref \in s9 : ref[1] = t
  BY BreachedIsGone DEF Joins!Drop
<1>3. s8'.metrics = {m \in s7'.metrics : m[1] \notin s11'}
  <2>1. s8'.metrics = {ref \in s8.metrics : ref[1] # t}
    BY DEF Joins!Drop, Joins!Without, Joins!Keep
  <2> QED
    BY <1>1, <2>1 DEF Joins!IInv
<1>4. s8'.dimensions = {m \in s7'.dimensions : m[1] \notin s11'}
  <2>1. s8'.dimensions = {ref \in s8.dimensions : ref[1] # t}
    BY DEF Joins!Drop, Joins!Without, Joins!Keep
  <2> QED
    BY <1>1, <2>1 DEF Joins!IInv
<1> QED
  BY <1>1, <1>2, <1>3, <1>4 DEF Joins!IInv

(* The plans depend on the relationships only: the search, over relationships r. *)
AdjacentOver(r, root, start, t) ==
    LET upto[i \in 0 .. Len(r)] ==
            IF i = 0 THEN start
            ELSE IF r[i].from = t THEN Joins!Visit(root, upto[i - 1], Joins!Edge(r[i], TRUE))
            ELSE IF r[i].to = t THEN Joins!Visit(root, upto[i - 1], Joins!Edge(r[i], FALSE))
            ELSE upto[i - 1]
    IN  upto[Len(r)]

PopOver(r, root, s) ==
    IF s.queue = <<>> THEN s
    ELSE AdjacentOver(r, root, [queue |-> Tail(s.queue), edges |-> s.edges], Head(s.queue))

BfsOver(r, root) ==
    LET popped[n \in 0 .. Len(Tables)] ==
            IF n = 0 THEN [queue |-> <<root>>, edges |-> {}] ELSE PopOver(r, root, popped[n - 1])
    IN  popped[Len(Tables)].edges

LEMMA BfsIsOver == \A root : Joins!Bfs(root) = BfsOver(s2, root)
BY Zenon DEF Joins!Bfs, Joins!Pop, Joins!Adjacent, BfsOver, PopOver, AdjacentOver

LEMMA PlansStay ==
    ASSUME s2' = s2, s8' = s8
    PROVE  Joins!Plans(s8)' = Joins!Plans(s8)
<1>1. (\A root : Joins!Bfs(root) = BfsOver(s2, root))'
  BY BfsIsOver, PTL
<1>2. \A root : Joins!Bfs(root)' = Joins!Bfs(root)
  BY <1>1, BfsIsOver
<1>3. \A root, R : Joins!TreeFrom(root, R)' = Joins!TreeFrom(root, R)
  BY <1>2 DEF Joins!TreeFrom
<1>4. \A root : Joins!Reached(root)' = Joins!Reached(root)
  BY <1>2 DEF Joins!Reached
<1>5. \A R : Joins!Roots(R)' = Joins!Roots(R)
  BY <1>4 DEF Joins!Roots
<1>6. \A R : Joins!Trees(R)' = Joins!Trees(R)
  BY <1>3, <1>5 DEF Joins!Trees
<1> QED
  BY <1>6 DEF Joins!Plans

LEMMA JoinsStays ==
    ASSUME Joins!IInv, UNCHANGED <<s1, s2, s3, s4, s5, s6, s7, s8, s9, s10, s11>>,
           s13' # "idle" => s6 = "found", s13' = "idle" => s13 = "idle",
           s13' = "planned" => Joins!RefBreaches(s8)' = {} /\ s12' \in Joins!Plans(s8)'
    PROVE  Joins!IInv'
BY DEF Joins!IInv, Joins!DiscoveryInv

LEMMA JoinsStep == Joins!IInv /\ [Joins!Next]_(Joins!vars) => Joins!IInv'
<1> SUFFICES ASSUME Joins!IInv, [Joins!Next]_(Joins!vars) PROVE Joins!IInv'
  OBVIOUS
<1>1. CASE Joins!DiscoveryNext /\ UNCHANGED Joins!planVars
  <2>1. Joins!DiscoveryInv'
    BY <1>1, DiscoveryKeeps DEF Joins!IInv
  <2>2. s6 # "found"
    BY <1>1 DEF Joins!DiscoveryNext, Joins!Probe, Joins!PairsDone, Joins!Composites
  <2>3. s13 = "idle"
    BY <2>2 DEF Joins!IInv
  <2> QED
    BY <1>1, <2>1, <2>3 DEF Joins!IInv, Joins!planVars
<1>2. CASE \E q \in Questions : Joins!Ask(q)
  BY <1>2, AskKeeps
<1>3. CASE \E t \in Joins!Range(Tables) : Joins!Drop(t)
  BY <1>3, DropKeeps
<1>4. CASE Joins!Raise
  <2>1. s13' = "refused" /\ s6 = "found"
        /\ UNCHANGED <<s1, s2, s3, s4, s5, s6, s7, s8, s9, s10, s11>>
    BY <1>4 DEF Joins!Raise, Joins!discoveryVars, Joins!IInv
  <2> QED
    BY <2>1, JoinsStays
<1>5. CASE \E tr \in Joins!Plans(s8) : Joins!Plan(tr)
  <2>1. PICK tr \in Joins!Plans(s8) : Joins!Plan(tr)
    BY <1>5
  <2>2. s13' = "planned" /\ s6 = "found" /\ s12' = tr /\ Joins!RefBreaches(s8) = {}
        /\ UNCHANGED <<s1, s2, s3, s4, s5, s6, s7, s8, s9, s10, s11>>
    BY <2>1 DEF Joins!Plan, Joins!discoveryVars, Joins!IInv
  <2>3. Joins!RefBreaches(s8)' = Joins!RefBreaches(s8)
    BY <2>2 DEF Joins!RefBreaches, Joins!Lost
  <2>4. Joins!Plans(s8)' = Joins!Plans(s8)
    BY <2>2, PlansStay
  <2> QED
    BY <2>1, <2>2, <2>3, <2>4, JoinsStays
<1>6. CASE \E t \in Joins!Range(Tables) : \E o \in SUBSET (Joins!Range(Tables) \ {t}) :
              Joins!Frame(t, o)
  <2>1. /\ s13' \in {"framed", "refused"} /\ s6 = "found"
        /\ UNCHANGED <<s1, s2, s3, s4, s5, s6, s7, s8, s9, s10, s11>>
    BY <1>6 DEF Joins!Frame, Joins!discoveryVars
  <2> QED
    BY <2>1, JoinsStays
<1>7. CASE UNCHANGED Joins!vars
  <2>1. UNCHANGED <<s1, s2, s3, s4, s5, s6, s7, s8, s9, s10, s11, s12, s13>>
    BY <1>7 DEF Joins!vars, Joins!discoveryVars, Joins!planVars
  <2>2. Joins!RefBreaches(s8)' = Joins!RefBreaches(s8) /\ Joins!Plans(s8)' = Joins!Plans(s8)
    BY <2>1, PlansStay DEF Joins!RefBreaches, Joins!Lost
  <2> QED
    BY <2>1, <2>2, JoinsStays DEF Joins!IInv
<1> QED
  BY <1>1, <1>2, <1>3, <1>4, <1>5, <1>6, <1>7 DEF Joins!Next

(* A plan is a tree over the tables it needs, and the tables that were left out are
   those the source lacks. *)
LEMMA JoinsSound == Joins!IInv => Joins!PlanIsSound /\ Joins!DropsAreScoped
<1> SUFFICES ASSUME Joins!IInv, s13 = "planned"
             PROVE  Joins!PlanIsSound /\ Joins!DropsAreScoped
  BY DEF Joins!PlanIsSound, Joins!DropsAreScoped
<1>1. Tables \in Seq(Tabs) /\ s2 \in Seq(Joins!Relation)
  BY JoinsAssumption DEF Tabs, Joins!IInv, Joins!DiscoveryInv
<1>2. Joins!Requested(s8) \subseteq Tabs
  <2>1. Joins!Requested(s7) \subseteq Tabs
    <3>1. CASE s7 \in Questions
      BY <3>1, JoinsAssumption DEF Tabs
    <3>2. CASE s7 = Joins!NoQuestion
      BY <3>2 DEF Joins!NoQuestion, Joins!Requested, Joins!Facts, Joins!TablesIn
    <3> QED
      BY <3>1, <3>2 DEF Joins!IInv
  <2>2. s8.metrics \subseteq s7.metrics /\ s8.dimensions \subseteq s7.dimensions
    BY DEF Joins!IInv
  <2>3. Joins!Requested(s8) \subseteq Joins!Requested(s7)
    BY <2>2 DEF Joins!Requested, Joins!Facts, Joins!TablesIn
  <2> QED
    BY <2>1, <2>3
<1>3. s12 \in Joins!Plans(s8) /\ Joins!RefBreaches(s8) = {}
  BY DEF Joins!IInv
<1>4. /\ PlanOf(s8, s12)
      /\ Joins!OneWay => \A other \in Joins!Plans(s8) :
                            Joins!Answer(s8, other) = Joins!Answer(s8, s12)
  BY <1>1, <1>2, <1>3, PlansAre
<1>5. Joins!PlanIsSound
  BY <1>4, JoinsCardinality DEF Joins!PlanIsSound, PlanOf
<1>6. Joins!DropsAreScoped
  <2>1. \A ref \in s8.metrics \cup s8.dimensions : ~Joins!Lost(ref)
    BY <1>3 DEF Joins!RefBreaches
  <2> QED
    BY <2>1 DEF Joins!DropsAreScoped, Joins!IInv
<1> QED
  BY <1>5, <1>6
-----------------------------------------------------------------------------
(* A step of the composition is a step of the part it is about. *)
LEMMA OnePart ==
    ASSUME [AnalyticsNext]_all
    PROVE  /\ part' = part
           /\ part = "trust" => [Trust!Next]_(Trust!vars)
           /\ part = "toolbox" => [Toolbox!Next]_(Toolbox!vars)
           /\ part = "models" => [Models!Next]_(Models!vars)
           /\ part = "topic" => [Topic!Next]_(Topic!vars)
           /\ part = "session" => [Session!Next]_(Session!vars)
           /\ part = "profiles" => [Profiles!Next]_(Profiles!vars)
           /\ part = "predictor" => [Predictor!Next]_(Predictor!vars)
           /\ part = "joins" => [Joins!Next]_(Joins!vars)
BY DEF AnalyticsNext, all, others, Trust!vars, Toolbox!vars, Toolbox!lineage, Models!vars,
       Topic!vars, Session!vars, Profiles!vars, Predictor!vars, Joins!vars, Joins!discoveryVars,
       Joins!planVars

(* The thresholds in force are in order and follow from the audited tunings, for
   any configured thresholds in their range, whatever outcomes were recorded and
   however often the process restarts (TrustConfig, auto_tune_thresholds). *)
THEOREM TuningIsAuditedAlways == AnalyticsSpec => []TuningIsAudited
<1> DEFINE J == part = "trust" => Trust!IInv
<1>1. AnalyticsInit => J
  BY TrustInit DEF AnalyticsInit
<1>2. J /\ [AnalyticsNext]_all => J'
  BY TrustStep, OnePart
<1>3. J => TuningIsAudited
  BY DEF TuningIsAudited, Trust!IInv
<1> QED
  BY <1>1, <1>2, <1>3, PTL DEF AnalyticsSpec

(* A raise of the thresholds never makes an answer look better and a lower never
   worse, however often a threshold was clamped (tune_thresholds, _grade). *)
THEOREM TuningIsMonotoneAlways == AnalyticsSpec => TuningIsMonotone
<1> DEFINE J == part = "trust" => Trust!IInv
<1>1. AnalyticsInit => J
  BY TrustInit DEF AnalyticsInit
<1>2. J /\ [AnalyticsNext]_all => J'
  BY TrustStep, OnePart
<1>3. J /\ [AnalyticsNext]_all => [part = "trust" => Trust!TuningIsMonotone]_all
  BY TrustMonotone, OnePart
<1> QED
  BY <1>1, <1>2, <1>3, PTL DEF AnalyticsSpec, TuningIsMonotone

(* No call, and no engine that waits for one, uses a model older than the
   toolset's; no answer whose SQL the planner wrote rests on a table older than
   its source; and no effect is asserted that the sample does not carry
   (AnalyticsToolset.refresh_model, _apply_freshness_gate, trust_gate). *)
THEOREM AnswersAreSupportedAlways == AnalyticsSpec => []AnswersAreSupported
<1> DEFINE J == part = "toolbox" => Toolbox!IInv
<1>1. AnalyticsInit => J
  BY ToolboxInit DEF AnalyticsInit
<1>2. J /\ [AnalyticsNext]_all => J'
  BY ToolboxStep, OnePart
<1>3. J => AnswersAreSupported
  BY ToolboxSupported DEF AnswersAreSupported
<1> QED
  BY <1>1, <1>2, <1>3, PTL DEF AnalyticsSpec

(* Each answer of a scope leads back to all the earlier ones, one at a time, over
   restarts, failed recordings and errors of tools (DecisionLineage.record). *)
THEOREM LineageCompleteAlways == AnalyticsSpec => []LineageComplete
<1> DEFINE J == part = "toolbox" => Toolbox!IInv
<1>1. AnalyticsInit => J
  BY ToolboxInit DEF AnalyticsInit
<1>2. J /\ [AnalyticsNext]_all => J'
  BY ToolboxStep, OnePart
<1>3. J => LineageComplete
  BY ToolboxLineage DEF LineageComplete
<1> QED
  BY <1>1, <1>2, <1>3, PTL DEF AnalyticsSpec

(* With a signing key no altered or unsigned model file is served, with or without
   one no file that is too old, and a worker that was not started before a change
   of the data serves models of these data (ModelCache.get, put). *)
THEOREM CachedModelsSoundAlways == AnalyticsSpec => []CachedModelsSound
<1> DEFINE J == part = "models" => Models!IInv
<1>1. AnalyticsInit => J
  BY ModelsInit DEF AnalyticsInit
<1>2. J /\ [AnalyticsNext]_all => J'
  BY ModelsStep, OnePart
<1>3. J => CachedModelsSound
  BY ModelsSound DEF CachedModelsSound
<1> QED
  BY <1>1, <1>2, <1>3, PTL DEF AnalyticsSpec

(* While nothing failed, what is committed is in the table unless a record was not
   JSON; what is committed was fetched; and every load that misses its control
   total is counted as a breach, and no other (StreamRunner.run_cycle,
   StreamController). *)
THEOREM StreamIsServedAlways == AnalyticsSpec => StreamIsServed
<1> DEFINE J == part = "topic" => Topic!IInv
<1>1. AnalyticsInit => J
  BY TopicInit DEF AnalyticsInit
<1>2. J /\ [AnalyticsNext]_all => J'
  BY TopicStep, OnePart
<1>3. J /\ [AnalyticsNext]_all =>
        [part = "topic" => Topic!CommittedIsServed' /\ Topic!BreachesCounted]_all
  <2>1. (Topic!IInv => Topic!CommittedIsServed)'
    BY TopicCommitted, PTL
  <2> QED
    BY <2>1, TopicStep, TopicCounted, OnePart
<1> QED
  BY <1>1, <1>2, <1>3, PTL DEF AnalyticsSpec, StreamIsServed

(* The rows that are charted below an answer were read for that question from the
   data that is loaded, and the agent that answers works on these data, whatever
   reruns stopped a question, a load or a panel's call (app.py, main). *)
THEOREM ChartsAreOfTheQuestionAlways == AnalyticsSpec => []ChartsAreOfTheQuestion
<1> DEFINE J == part = "session" => Session!IInv
<1>1. AnalyticsInit => J
  BY SessionInit DEF AnalyticsInit
<1>2. J /\ [AnalyticsNext]_all => J'
  BY SessionStep, OnePart
<1>3. J => ChartsAreOfTheQuestion
  BY DEF ChartsAreOfTheQuestion, Session!IInv
<1> QED
  BY <1>1, <1>2, <1>3, PTL DEF AnalyticsSpec

(* However an ingest's rows are split into batches, the profile kept up to date by
   merging counts the rows and nulls of the table, and has its bounds and, without
   nulls, its sum and mean, until a row is replaced or profiled twice; and the
   roles and relationships the user forced hold in every profile and in the model
   that answers (merge_column_profiles, Catalog.role_for, refresh_after_ingest). *)
THEOREM ProfileFollowsAlways == AnalyticsSpec => []ProfileFollows
<1> DEFINE J == part = "profiles" => Profiles!IInv
<1>1. AnalyticsInit => J
  BY ProfilesInit DEF AnalyticsInit
<1>2. J /\ [AnalyticsNext]_all => J'
  BY ProfilesStep, OnePart
<1>3. J => ProfileFollows
  BY ProfilesFollow DEF ProfileFollows
<1> QED
  BY <1>1, <1>2, <1>3, PTL DEF AnalyticsSpec

(* A prediction over rows that leave a bin of the training rows empty says that the
   rows have drifted, for any tables, samples and filters and however old the stored
   model is: the term of the empty bin outweighs all others (_psi, predict). *)
THEOREM ShiftIsFlaggedAlways == AnalyticsSpec => []ShiftIsFlagged
<1> DEFINE J == part = "predictor" => Predictor!IInv
<1>1. AnalyticsInit => J
  BY PredictorInit DEF AnalyticsInit
<1>2. J /\ [AnalyticsNext]_all => J'
  BY PredictorStep, OnePart
<1>3. J => ShiftIsFlagged
  BY PredictorFlags DEF ShiftIsFlagged
<1> QED
  BY <1>1, <1>2, <1>3, PTL DEF AnalyticsSpec

(* The joins of a plan are a tree that reaches all the tables the question names and
   ends in such tables only; where there is one way between any two tables, another
   root, by the order of a set of strings, gives the same answer; and at best effort
   only tables that are broken are left out, for any tables, relationships and
   questions (JoinTree.connect, _bfs, _prune, plan_query). *)
THEOREM PlansAreSoundAlways == AnalyticsSpec => []PlansAreSound
<1> DEFINE J == part = "joins" => Joins!IInv
<1>1. AnalyticsInit => J
  BY JoinsInit DEF AnalyticsInit
<1>2. J /\ [AnalyticsNext]_all => J'
  BY JoinsStep, OnePart
<1>3. J => PlansAreSound
  BY JoinsSound DEF PlansAreSound
<1> QED
  BY <1>1, <1>2, <1>3, PTL DEF AnalyticsSpec
==============================================================================
