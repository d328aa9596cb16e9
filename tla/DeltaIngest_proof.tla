------------------------- MODULE DeltaIngest_proof -------------------------
(***************************************************************************)
(* Theorems about DeltaIngest: for any files, deltas, tables and bounds.   *)
(***************************************************************************)
EXTENDS DeltaIngest, FiniteSetTheorems, TLAPS

-----------------------------------------------------------------------------
(* What the statements of upsert keep of a table, whatever the batch. *)
LEMMA BatchRows ==
    ASSUME NEW batch \in Seq(BatchRow), NEW i \in DOMAIN batch
    PROVE  /\ batch[i] \in BatchRow
           /\ i \in Nat
OBVIOUS

(* A picked match is a row of the batch. *)
LEMMA PickedRow ==
    ASSUME NEW rows, NEW batch \in Seq(BatchRow), NEW pick \in Picks(rows, batch),
           NEW row \in rows, Matches(rows, batch, row) # {}
    PROVE  pick[row.id] \in DOMAIN batch
BY DEF Picks, Matches, Accepted

(* What UPDATE makes of one row. *)
NewVersion(rows, batch, pick, row) ==
    IF Matches(rows, batch, row) = {} THEN row
    ELSE [row EXCEPT !.time = batch[pick[row.id]].time,
                     !.value = batch[pick[row.id]].value]

(* UPDATE changes neither the key nor the identity of a row. *)
LEMMA UpdatedRow ==
    ASSUME NEW rows \in SUBSET Row, NEW batch \in Seq(BatchRow),
           NEW pick \in Picks(rows, batch), NEW row \in rows
    PROVE  LET new == NewVersion(rows, batch, pick, row)
           IN  new \in Row /\ new.key = row.key /\ new.id = row.id
<1>1. CASE Matches(rows, batch, row) = {}
  BY <1>1 DEF NewVersion
<1>2. CASE Matches(rows, batch, row) # {}
  <2>1. batch[pick[row.id]] \in BatchRow
    BY <1>2, PickedRow, BatchRows
  <2>2. /\ batch[pick[row.id]].time \in Nat
        /\ batch[pick[row.id]].value \in Value
    BY <2>1 DEF BatchRow
  <2>3. row \in Row
    OBVIOUS
  <2> QED
    BY <1>2, <2>2, <2>3 DEF NewVersion, Row
<1> QED
  BY <1>1, <1>2

LEMMA UpdatedRows ==
    ASSUME NEW rows, NEW batch, NEW pick
    PROVE  Updated(rows, batch, pick) = {NewVersion(rows, batch, pick, row) : row \in rows}
BY Zenon DEF Updated, NewVersion

LEMMA UpdatedKeepsKeys ==
    ASSUME NEW rows \in SUBSET Row, NEW batch \in Seq(BatchRow),
           NEW pick \in Picks(rows, batch), KeyedRows(rows)
    PROVE  /\ Updated(rows, batch, pick) \in SUBSET Row
           /\ KeyedRows(Updated(rows, batch, pick))
           /\ \A new \in Updated(rows, batch, pick) : \E row \in rows : row.key = new.key
<1> DEFINE V(row) == NewVersion(rows, batch, pick, row)
<1>1. Updated(rows, batch, pick) = {V(row) : row \in rows}
  BY UpdatedRows
<1>2. \A row \in rows : V(row) \in Row /\ V(row).key = row.key
  BY UpdatedRow
<1> HIDE DEF V
<1> QED
  BY <1>1, <1>2 DEF KeyedRows

(* The rows of the INSERT: each comes from a row of the batch whose key the
   table does not have. *)
LEMMA InsertedRow ==
    ASSUME NEW rows, NEW batch \in Seq(BatchRow), NEW n \in Nat,
           NEW new \in Inserted(rows, batch, n)
    PROVE  /\ new \in Row
           /\ \E i \in DOMAIN batch : new = NewRow(batch[i], n, i)
                                      /\ ~HasKey(rows, batch[i].key)
<1>1. PICK i \in DOMAIN batch : new = NewRow(batch[i], n, i) /\ ~HasKey(rows, batch[i].key)
  BY DEF Inserted, Accepted
<1>2. batch[i] \in BatchRow /\ i \in Nat
  BY BatchRows
<1>3. new \in Row
  BY <1>1, <1>2 DEF NewRow, BatchRow, Row
<1> QED
  BY <1>1, <1>3

(* Merging a batch whose rows have different keys keeps the key unique. *)
LEMMA MergeKeepsKeys ==
    ASSUME NEW rows \in SUBSET Row, NEW batch \in Seq(BatchRow), NEW n \in Nat,
           NEW pick \in Picks(rows, batch), KeyedRows(rows), KeyedBatch(batch)
    PROVE  KeyedRows(Updated(rows, batch, pick) \cup Inserted(rows, batch, n))
<1> DEFINE U == Updated(rows, batch, pick)
           I == Inserted(rows, batch, n)
<1>1. KeyedRows(U) /\ \A a \in U : \E row \in rows : row.key = a.key
  BY UpdatedKeepsKeys
<1>2. \A b \in I : \E i \in DOMAIN batch :
          /\ b = NewRow(batch[i], n, i) /\ b.key = batch[i].key
          /\ batch[i].key # Null /\ ~HasKey(rows, batch[i].key)
  BY InsertedRow DEF NewRow, KeyedBatch
<1>3. \A a \in U, b \in I : a.key # b.key
  BY <1>1, <1>2 DEF HasKey
<1>4. \A a, b \in I : a.key = b.key => a = b
  BY <1>2 DEF KeyedBatch
<1> HIDE DEF U, I
<1>5. \A a, b \in U \cup I : a.key = b.key => a = b
  BY <1>1, <1>3, <1>4 DEF KeyedRows
<1> QED
  BY <1>5 DEF KeyedRows, U, I

-----------------------------------------------------------------------------
(* The inductive invariant. *)
QueueItem == [file : File, rows : Delta]

Types ==
    /\ disk \in [File -> Delta \cup {NoFile}]
    /\ processed \subseteq File /\ pending \subseteq File
    /\ fresh \subseteq File /\ ingested \subseteq File
    /\ queue \in Seq(QueueItem)
    /\ busy \in BOOLEAN
    /\ ~busy => queue = <<>>
    /\ table \in [File -> SUBSET Row]
    /\ count \in Nat /\ failures \in Nat

(* The queue holds different files, polled and not yet ingested. *)
QueueAhead ==
    \A i \in DOMAIN queue :
        /\ queue[i].file \in pending \ ingested
        /\ \A j \in DOMAIN queue : i < j => queue[i].file # queue[j].file

(* What was ingested is known to the connector. *)
IngestedKnown == ingested \subseteq processed \cup pending

(* While nothing failed, a polled file is ingested or still in the queue. *)
NoneSkipped ==
    failures = 0 =>
        /\ processed \subseteq ingested
        /\ \A f \in pending : f \in ingested \/ \E i \in DOMAIN queue : queue[i].file = f

IInv == Types /\ QueueAhead /\ IngestedKnown /\ NoneSkipped

------------------------------------------------------------------------------
(* The head of the queue, and what is left without it. *)
LEMMA QueueParts ==
    ASSUME NEW q \in Seq(QueueItem), q # <<>>
    PROVE  /\ 1 \in DOMAIN q /\ Head(q) = q[1]
           /\ Head(q).file \in File /\ Head(q).rows \in Delta
           /\ Tail(q) \in Seq(QueueItem)
           /\ \A i \in DOMAIN Tail(q) : i + 1 \in DOMAIN q /\ Tail(q)[i] = q[i + 1]
           /\ \A i \in DOMAIN q : i # 1 => i - 1 \in DOMAIN Tail(q) /\ Tail(q)[i - 1] = q[i]
<1>1. q[1] \in QueueItem /\ Head(q) = q[1] /\ 1 \in DOMAIN q
  OBVIOUS
<1>2. Tail(q) \in Seq(QueueItem) /\ Len(Tail(q)) = Len(q) - 1 /\ Len(q) \in Nat \ {0}
  OBVIOUS
<1>3. DOMAIN q = 1 .. Len(q) /\ DOMAIN Tail(q) = 1 .. Len(q) - 1
  BY <1>2
<1>4. \A i \in 1 .. Len(q) - 1 : Tail(q)[i] = q[i + 1]
  OBVIOUS
<1> QED
  BY <1>1, <1>2, <1>3, <1>4 DEF QueueItem

(* What poll puts into the queue. *)
LEMMA PolledQueue ==
    ASSUME NEW s \in Sorted(Unread), Unread \subseteq File,
           disk \in [File -> Delta \cup {NoFile}],
           NEW q, q = [i \in DOMAIN s |-> [file |-> s[i], rows |-> disk[s[i]]]]
    PROVE  /\ q \in Seq(QueueItem)
           /\ \A i \in DOMAIN q : q[i].file \in Unread
           /\ \A i, j \in DOMAIN q : i < j => q[i].file # q[j].file
           /\ \A f \in Unread : \E i \in DOMAIN q : q[i].file = f
<1>1. IsFiniteSet(Unread) /\ Cardinality(Unread) \in Nat
  BY FileAssumption, FS_Subset, FS_CardinalityType
<1>2. /\ s \in [1 .. Cardinality(Unread) -> Unread]
      /\ Range(s) = Unread
      /\ \A i, j \in DOMAIN s : i < j => s[i] < s[j]
  BY DEF Sorted
<1>3. \A i \in DOMAIN s : s[i] \in Unread /\ s[i] \in File /\ s[i] \in Nat /\ disk[s[i]] \in Delta
  BY <1>2, FileAssumption DEF Unread
<1>4. DOMAIN q = 1 .. Cardinality(Unread) /\ DOMAIN s = DOMAIN q
  BY <1>2
<1>5. \A i \in DOMAIN q : q[i] \in QueueItem /\ q[i].file = s[i]
  BY <1>3, <1>4 DEF QueueItem
<1>6. q \in Seq(QueueItem)
  <2>1. q \in [1 .. Cardinality(Unread) -> QueueItem]
    BY <1>4, <1>5
  <2> QED
    BY <1>1, <2>1
<1>7. \A i, j \in DOMAIN q : i < j => q[i].file # q[j].file
  BY <1>2, <1>3, <1>4, <1>5
<1>8. \A f \in Unread : \E i \in DOMAIN q : q[i].file = f
  BY <1>2, <1>4, <1>5 DEF Range
<1> QED
  BY <1>3, <1>4, <1>5, <1>6, <1>7, <1>8

(* UPDATE and INSERT give rows of a table. *)
LEMMA MergedRows ==
    ASSUME NEW rows \in Delta, NEW old \in SUBSET Row, NEW pick \in Picks(old, rows),
           NEW n \in Nat
    PROVE  /\ Updated(old, rows, pick) \in SUBSET Row
           /\ Inserted(old, rows, n) \in SUBSET Row
<1>1. rows \in Seq(BatchRow)
  BY DeltaAssumption
<1>2. Updated(old, rows, pick) \in SUBSET Row
  BY <1>1, UpdatedRows, UpdatedRow
<1>3. Inserted(old, rows, n) \in SUBSET Row
  BY <1>1, InsertedRow
<1> QED
  BY <1>2, <1>3

------------------------------------------------------------------------------
(* The invariant holds at the start and every step keeps it. *)

LEMMA IInvInit == Init => IInv
<1> SUFFICES ASSUME Init PROVE IInv
  OBVIOUS
<1>1. <<>> \in Seq(QueueItem)
  OBVIOUS
<1>2. table \in [File -> SUBSET Row] /\ disk \in [File -> Delta \cup {NoFile}]
  BY BaseAssumption DEF Init
<1>3. Types
  BY <1>1, <1>2 DEF Init, Types
<1> QED
  BY <1>3 DEF Init, IInv, QueueAhead, IngestedKnown, NoneSkipped

LEMMA DropStep == ASSUME IInv, NEW f \in File, Drop(f) PROVE IInv'
<1>1. Types'
  BY DEF IInv, Types, Drop
<1> QED
  BY <1>1 DEF IInv, QueueAhead, IngestedKnown, NoneSkipped, Drop

LEMMA PollStep == ASSUME IInv, Poll PROVE IInv'
<1>1. Unread \subseteq File /\ Unread \cap (processed \cup pending) = {}
  BY DEF Unread
<1>2. PICK s \in Sorted(Unread) :
          queue' = [i \in DOMAIN s |-> [file |-> s[i], rows |-> disk[s[i]]]]
  BY DEF Poll
<1>3. /\ queue' \in Seq(QueueItem)
      /\ \A i \in DOMAIN queue' : queue'[i].file \in Unread
      /\ \A i, j \in DOMAIN queue' : i < j => queue'[i].file # queue'[j].file
      /\ \A f \in Unread : \E i \in DOMAIN queue' : queue'[i].file = f
  <2>1. disk \in [File -> Delta \cup {NoFile}]
    BY DEF IInv, Types
  <2> QED
    BY <1>1, <1>2, <2>1, PolledQueue
<1>4. Types'
  BY <1>1, <1>3 DEF IInv, Types, Poll
<1>5. QueueAhead'
  BY <1>1, <1>3 DEF IInv, IngestedKnown, QueueAhead, Poll
<1>6. IngestedKnown'
  BY DEF IInv, IngestedKnown, Poll
<1>7. NoneSkipped'
  <2>1. queue = <<>>
    BY DEF IInv, Types, Poll
  <2> QED
    BY <1>3, <2>1 DEF IInv, NoneSkipped, Poll
<1> QED
  BY <1>4, <1>5, <1>6, <1>7 DEF IInv

LEMMA PollBreaksStep == ASSUME IInv, NEW f \in File, PollBreaks(f) PROVE IInv'
<1>1. Types'
  BY DEF IInv, Types, PollBreaks, Unread, Failure
<1>2. queue' = <<>> /\ failures' # 0
  BY DEF IInv, Types, PollBreaks, Failure
<1> QED
  BY <1>1, <1>2 DEF IInv, QueueAhead, IngestedKnown, NoneSkipped, PollBreaks

(* A batch is merged into the table of its file. *)
LEMMA MergeStep ==
    ASSUME IInv, NEW f \in File, NEW rows \in Delta, count' = count + 1, Merge(f, rows)
    PROVE  table' \in [File -> SUBSET Row]
<1>1. PICK pick \in Picks(table[f], rows) :
          table' = [table EXCEPT ![f] = Updated(@, rows, pick) \cup Inserted(@, rows, count')]
  BY DEF Merge
<1>2. table[f] \in SUBSET Row /\ count' \in Nat
  BY DEF IInv, Types
<1>3. Updated(table[f], rows, pick) \cup Inserted(table[f], rows, count') \in SUBSET Row
  BY <1>2, MergedRows
<1> QED
  BY <1>1, <1>3 DEF IInv, Types

LEMMA IngestStep == ASSUME IInv, Ingest PROVE IInv'
<1>1. /\ queue \in Seq(QueueItem) /\ queue # <<>> /\ queue' = Tail(queue)
      /\ ingested' = ingested \cup {Head(queue).file}
      /\ UNCHANGED <<processed, pending, failures>>
  BY DEF IInv, Types, Ingest
<1>2. Types'
  <2>1. table' \in [File -> SUBSET Row]
    BY <1>1, QueueParts, MergeStep DEF Ingest
  <2> QED
    BY <1>1, <2>1, QueueParts DEF IInv, Types, Ingest
<1>3. QueueAhead'
  <2>1. SUFFICES ASSUME NEW i \in DOMAIN Tail(queue)
                 PROVE  /\ Tail(queue)[i].file \in pending \ ingested'
                        /\ \A j \in DOMAIN Tail(queue) :
                              i < j => Tail(queue)[i].file # Tail(queue)[j].file
    BY <1>1 DEF QueueAhead
  <2>2. i \in Nat /\ i + 1 \in DOMAIN queue /\ Tail(queue)[i] = queue[i + 1] /\ 1 < i + 1
    BY <1>1, QueueParts
  <2>3. 1 \in DOMAIN queue /\ Head(queue) = queue[1]
    BY <1>1, QueueParts
  <2>4. Tail(queue)[i].file \in pending \ ingested'
    BY <1>1, <2>2, <2>3 DEF IInv, QueueAhead
  <2>5. ASSUME NEW j \in DOMAIN Tail(queue), i < j
        PROVE  Tail(queue)[i].file # Tail(queue)[j].file
    <3>1. j \in Nat /\ j + 1 \in DOMAIN queue /\ Tail(queue)[j] = queue[j + 1] /\ i + 1 < j + 1
      BY <1>1, <2>2, <2>5, QueueParts
    <3> QED
      BY <2>2, <3>1 DEF IInv, QueueAhead
  <2> QED
    BY <2>4, <2>5
<1>4. IngestedKnown'
  <2>1. Head(queue).file \in pending
    BY <1>1, QueueParts DEF IInv, QueueAhead
  <2> QED
    BY <1>1, <2>1 DEF IInv, IngestedKnown
<1>5. NoneSkipped'
  <2> SUFFICES ASSUME failures = 0, NEW f \in pending, f \notin ingested'
               PROVE  \E i \in DOMAIN Tail(queue) : Tail(queue)[i].file = f
    BY <1>1 DEF IInv, NoneSkipped
  <2>1. PICK i \in DOMAIN queue : queue[i].file = f
    BY <1>1 DEF IInv, NoneSkipped
  <2>2. i # 1
    BY <1>1, <2>1, QueueParts
  <2> QED
    BY ZenonT(60), <1>1, <2>1, <2>2, QueueParts
<1> QED
  BY <1>2, <1>3, <1>4, <1>5 DEF IInv

LEMMA IngestBreaksStep == ASSUME IInv, IngestBreaks PROVE IInv'
<1>1. queue' = <<>> /\ busy' = FALSE /\ failures' # 0 /\ failures' \in Nat
  BY DEF IInv, Types, IngestBreaks, Abandon, Failure
<1>2. table' \in [File -> SUBSET Row]
  <2>1. /\ table \in [File -> SUBSET Row]
        /\ Head(queue).file \in File /\ Head(queue).rows \in Delta
    BY QueueParts DEF IInv, Types, IngestBreaks
  <2>2. CASE UNCHANGED table
    BY <2>1, <2>2
  <2>3. ASSUME NEW pick \in Picks(table[Head(queue).file], Head(queue).rows),
               table' = [table EXCEPT ![Head(queue).file] = Updated(@, Head(queue).rows, pick)]
        PROVE  table' \in [File -> SUBSET Row]
    <3>1. Updated(table[Head(queue).file], Head(queue).rows, pick) \in SUBSET Row
      BY <2>1, MergedRows
    <3> QED
      BY <2>1, <2>3, <3>1
  <2> QED
    BY <2>2, <2>3 DEF IngestBreaks
<1>3. Types'
  <2>1. <<>> \in Seq(QueueItem)
    OBVIOUS
  <2> QED
    BY <1>1, <1>2, <2>1 DEF IInv, Types, IngestBreaks, connector
<1> QED
  BY <1>1, <1>3 DEF IInv, QueueAhead, IngestedKnown, NoneSkipped, IngestBreaks, connector

LEMMA GateBreaksStep == ASSUME IInv, GateBreaks PROVE IInv'
<1>1. queue' = <<>> /\ busy' = FALSE /\ failures' # 0 /\ failures' \in Nat
  BY DEF IInv, Types, GateBreaks, Abandon, Failure
<1>2. queue \in Seq(QueueItem) /\ queue # <<>>
  BY DEF IInv, Types, GateBreaks
<1>3. Head(queue).file \in pending
  BY <1>2, QueueParts DEF IInv, QueueAhead
<1>4. Types'
  <2>1. table' \in [File -> SUBSET Row]
    BY <1>2, QueueParts, MergeStep DEF GateBreaks
  <2>2. <<>> \in Seq(QueueItem) /\ Head(queue).file \in File
    BY <1>2, QueueParts
  <2>3. /\ count' = count + 1
        /\ ingested' = ingested \cup {Head(queue).file}
        /\ UNCHANGED <<disk, processed, pending, fresh>>
    BY DEF GateBreaks
  <2>4. ingested' \subseteq File /\ count' \in Nat
    BY <2>2, <2>3 DEF IInv, Types
  <2>5. /\ disk' \in [File -> Delta \cup {NoFile}]
        /\ processed' \subseteq File /\ pending' \subseteq File /\ fresh' \subseteq File
    BY <2>3 DEF IInv, Types
  <2> QED
    BY <1>1, <2>1, <2>2, <2>4, <2>5 DEF Types
<1> QED
  BY <1>1, <1>3, <1>4 DEF IInv, QueueAhead, IngestedKnown, NoneSkipped, GateBreaks

LEMMA CommitStep == ASSUME IInv, Commit PROVE IInv'
<1>1. Types'
  BY DEF IInv, Types, Commit
<1> QED
  BY <1>1 DEF IInv, QueueAhead, IngestedKnown, NoneSkipped, Commit

LEMMA NewConnectorStep == ASSUME IInv, NewConnector PROVE IInv'
<1>1. Types'
  BY DEF IInv, Types, NewConnector, StartOver
<1>2. queue' = <<>>
  BY DEF IInv, Types, NewConnector
<1> QED
  BY <1>1, <1>2 DEF IInv, QueueAhead, IngestedKnown, NoneSkipped, NewConnector, StartOver

LEMMA RestartStep == ASSUME IInv, Restart PROVE IInv'
<1>1. <<>> \in Seq(QueueItem)
  OBVIOUS
<1>2. table' \in [File -> SUBSET Row]
  BY BaseAssumption DEF Restart
<1>3. Types'
  BY <1>1, <1>2 DEF IInv, Types, Restart, StartOver, Abandon
<1> QED
  BY <1>3 DEF IInv, QueueAhead, IngestedKnown, NoneSkipped, Restart, StartOver, Abandon

LEMMA IInvStep == IInv /\ [Next]_vars => IInv'
<1>1. ASSUME IInv, UNCHANGED vars PROVE IInv'
  BY <1>1 DEF IInv, Types, QueueAhead, IngestedKnown, NoneSkipped, vars, connector
<1> QED
  BY <1>1, DropStep, PollStep, PollBreaksStep, IngestStep, IngestBreaksStep,
     GateBreaksStep, CommitStep, NewConnectorStep, RestartStep DEF Next, Runner

LEMMA IInvariant == Spec => []IInv
BY IInvInit, IInvStep, PTL DEF Spec

(* Every variable has its type; outside process() the queue is empty. *)
THEOREM TypeCorrect == Spec => []TypeOK
<1>1. ASSUME Types, NEW i \in DOMAIN queue PROVE queue[i].file \in File /\ queue[i].rows \in Delta
  <2>1. queue[i] \in QueueItem
    BY <1>1 DEF Types
  <2> QED
    BY <2>1 DEF QueueItem
<1>2. IInv => TypeOK
  BY <1>1 DEF IInv, Types, TypeOK
<1> QED
  BY <1>2, IInvariant, PTL

(* However cycles fail and files are written again, a connector never upserts
   a file a second time: commit or not, poll does not read it again. *)
THEOREM AtMostOnceAlways == Spec => AtMostOnce
<1>1. ASSUME IInv, [Next]_vars, count' # count PROVE Head(queue).file \notin ingested
  <2>1. Ingest \/ GateBreaks
    BY <1>1 DEF IInv, Types, Next, Runner, Drop, Poll, PollBreaks, IngestBreaks, Commit,
       NewConnector, Restart, StartOver, vars
  <2>2. queue \in Seq(QueueItem) /\ queue # <<>>
    BY <1>1, <2>1 DEF IInv, Types, Ingest, GateBreaks
  <2> QED
    BY <1>1, <2>2, QueueParts DEF IInv, QueueAhead
<1>2. IInv /\ [Next]_vars => [count' # count => Head(queue).file \notin ingested]_vars
  BY <1>1
<1> QED
  BY <1>2, IInvariant, PTL DEF Spec, AtMostOnce

(* Without a failure, whatever is written, replayed or restarted, only files
   that were ingested are marked as processed. *)
THEOREM CommittedUnlessFailedAlways == Spec => []CommittedUnlessFailed
<1>1. IInv => CommittedUnlessFailed
  BY DEF IInv, NoneSkipped, CommittedUnlessFailed, CommittedWasIngested
<1> QED
  BY <1>1, IInvariant, PTL

------------------------------------------------------------------------------
(* Keys, if the deltas and the tables loaded at the start have them. *)

LEMMA MergeKeyed ==
    ASSUME IInv, DeltasKeyed, TablesKeyed, NEW f \in File, NEW rows \in Delta,
           count' = count + 1, Merge(f, rows)
    PROVE  TablesKeyed'
<1>1. PICK pick \in Picks(table[f], rows) :
          table' = [table EXCEPT ![f] = Updated(@, rows, pick) \cup Inserted(@, rows, count')]
  BY DEF Merge
<1>2. table \in [File -> SUBSET Row] /\ count' \in Nat /\ rows \in Seq(BatchRow)
  BY DeltaAssumption DEF IInv, Types
<1>3. KeyedRows(table[f])
  BY DEF TablesKeyed, KeyedRows
<1>4. KeyedRows(Updated(table[f], rows, pick) \cup Inserted(table[f], rows, count'))
  BY <1>2, <1>3, MergeKeepsKeys DEF DeltasKeyed
<1>5. \A g \in File : KeyedRows(table'[g])
  BY <1>1, <1>2, <1>4 DEF TablesKeyed, KeyedRows
<1> QED
  BY <1>5 DEF TablesKeyed, KeyedRows

LEMMA TablesKeyedStep ==
    ASSUME DeltasKeyed PROVE IInv /\ TablesKeyed /\ [Next]_vars => TablesKeyed'
<1> SUFFICES ASSUME IInv, TablesKeyed, [Next]_vars PROVE TablesKeyed'
  OBVIOUS
<1>1. ASSUME queue # <<>>
      PROVE  Head(queue).file \in File /\ Head(queue).rows \in Delta
  BY <1>1, QueueParts DEF IInv, Types
<1>2. CASE Ingest \/ GateBreaks
  BY <1>1, <1>2, MergeKeyed DEF Ingest, GateBreaks
<1>3. CASE UNCHANGED table
  BY <1>3 DEF TablesKeyed
<1>4. CASE IngestBreaks
  <2> DEFINE f == Head(queue).file
             rows == Head(queue).rows
  <2>1. ASSUME NEW pick \in Picks(table[f], rows),
               table' = [table EXCEPT ![f] = Updated(@, rows, pick)]
        PROVE  TablesKeyed'
    <3>1. f \in File /\ rows \in Seq(BatchRow) /\ table \in [File -> SUBSET Row]
      BY <1>1, <1>4, DeltaAssumption DEF IInv, Types, IngestBreaks
    <3>2. KeyedRows(table[f])
      BY <3>1 DEF TablesKeyed, KeyedRows
    <3>3. KeyedRows(Updated(table[f], rows, pick))
      BY <3>1, <3>2, UpdatedKeepsKeys
    <3>4. \A g \in File : KeyedRows(table'[g])
      BY <2>1, <3>1, <3>3 DEF TablesKeyed, KeyedRows
    <3> QED
      BY <3>4 DEF TablesKeyed, KeyedRows
  <2> QED
    BY <1>3, <1>4, <2>1 DEF IngestBreaks
<1>5. CASE Restart
  BY <1>5 DEF Restart, TablesKeyed, DeltasKeyed, KeyedRows
<1> QED
  BY <1>2, <1>3, <1>4, <1>5
     DEF Next, Runner, Drop, Poll, PollBreaks, Commit, NewConnector, vars

(* If no delta repeats a key and no table does at the start, no table ever has
   a key twice, whatever breaks, is replayed or restarts. *)
THEOREM TablesKeyedAlways == ASSUME DeltasKeyed PROVE Spec => []TablesKeyed
<1>1. Init => TablesKeyed
  BY DEF Init, TablesKeyed, DeltasKeyed, KeyedRows
<1>2. IInv /\ TablesKeyed /\ [Next]_vars => TablesKeyed'
  BY TablesKeyedStep
<1> QED
  BY <1>1, <1>2, IInvariant, PTL DEF Spec

(* Types, commits and, when no delta repeats a key, the keys of the tables. *)
THEOREM DeltaSafeAlways == Spec => []DeltaSafe
<1>1. CASE DeltasKeyed
  <2>1. TypeOK /\ CommittedUnlessFailed /\ TablesKeyed => DeltaSafe
    BY DEF DeltaSafe
  <2>2. Spec => []TablesKeyed
    BY <1>1, TablesKeyedAlways
  <2> QED
    BY <2>1, <2>2, TypeCorrect, CommittedUnlessFailedAlways, PTL
<1>2. CASE ~DeltasKeyed
  <2>1. TypeOK /\ CommittedUnlessFailed => DeltaSafe
    BY <1>2 DEF DeltaSafe
  <2> QED
    BY <2>1, TypeCorrect, CommittedUnlessFailedAlways, PTL
<1> QED
  BY <1>1, <1>2
=============================================================================
