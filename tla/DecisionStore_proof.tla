---------------------------- MODULE DecisionStore_proof ----------------------------
(***************************************************************************)
(* Proofs about DecisionStore, for any number of processes, threads and    *)
(* crashes, and for an implementation of DecisionLog over an existing file.*)
(***************************************************************************)
EXTENDS DecisionStore, SequenceTheorems, TLAPS

HistoryRecord == [by : Task, stage : Stages \cup {"none"}]

(* The task is inside the block that holds the file lock. *)
Inside(t) == pc[t] \in {"locked", "loaded", "changed", "written", "saved"}

(* The file lock excludes. *)
Exclusive == \A t \in Task : Inside(t) => flock = t

(* A task that has called has an operation, and runs in a running process. *)
Running ==
    \A t \in Task : /\ pc[t] # "idle" => operation[t] \in Operation
                    /\ pc[t] \notin Ended \cup {"idle"} => up[StoreOf[t]]

(* c is what t's operation makes of the data file, if there is one. *)
Worked(c, t) ==
    \E base \in Contents : /\ exists => base = file
                           /\ c = Effect(base, operation[t], t)

(* What the task that holds the file lock has read and written. *)
Working ==
    \A t \in Task :
        /\ pc[t] = "loaded" /\ exists => mem[StoreOf[t]] = file
        /\ pc[t] = "changed" => Worked(mem[StoreOf[t]], t)
        /\ pc[t] = "written" => Worked(tmp, t)

(* What was renamed into place is in the file. *)
Saved ==
    \A t \in Task : pc[t] \in {"saved", "done"} =>
        exists /\ (operation[t].kind # "close" => Logged(file, t))

Absent == ~exists => file = Empty

IInv == TypeOK /\ Exclusive /\ Running /\ Working /\ Saved /\ Absent

------------------------------------------------------------------------------
(* What the operations do to the contents. *)

LEMMA AppendKeeps ==
    ASSUME NEW S, NEW s \in Seq(S), NEW x \in S
    PROVE  /\ Append(s, x) \in Seq(S)
           /\ Len(s) \in Nat
           /\ Len(Append(s, x)) = Len(s) + 1
           /\ \A i \in 1 .. Len(s) : Append(s, x)[i] = s[i]
           /\ Append(s, x)[Len(s) + 1] = x
OBVIOUS

(* The components of an entry, and what replacing some of them gives. *)
LEMMA EntryParts ==
    ASSUME NEW e \in Entries
    PROVE  /\ e.status \in {"accepted", "rejected", "deferred", "pending"}
           /\ e.stage \in Stages /\ e.notify \in {"not_requested", "requested"}
           /\ e.history \in Seq(HistoryRecord)
           /\ e = [status |-> e.status, stage |-> e.stage, notify |-> e.notify,
                   history |-> e.history]
BY DEF Entries, HistoryRecord

LEMMA EntryUpdate ==
    ASSUME NEW e \in Entries, NEW a, NEW b, NEW n, NEW h
    PROVE  /\ [e EXCEPT !.status = a, !.stage = b, !.history = h]
                = [status |-> a, stage |-> b, notify |-> e.notify, history |-> h]
           /\ [e EXCEPT !.stage = b, !.history = h]
                = [status |-> e.status, stage |-> b, notify |-> e.notify, history |-> h]
           /\ [e EXCEPT !.notify = n, !.history = h]
                = [status |-> e.status, stage |-> e.stage, notify |-> n, history |-> h]
<1> DEFINE entry(s, g, m, l) == [status |-> s, stage |-> g, notify |-> m, history |-> l]
           a0 == e.status  b0 == e.stage  n0 == e.notify  h0 == e.history
<1>1. \A s, g, m, l, y :
        /\ [entry(s, g, m, l) EXCEPT !.status = y] = entry(y, g, m, l)
        /\ [entry(s, g, m, l) EXCEPT !.stage = y] = entry(s, y, m, l)
        /\ [entry(s, g, m, l) EXCEPT !.notify = y] = entry(s, g, y, l)
        /\ [entry(s, g, m, l) EXCEPT !.history = y] = entry(s, g, m, y)
  OBVIOUS
<1>2. e = entry(a0, b0, n0, h0)
  BY EntryParts
<1> HIDE DEF entry, a0, b0, n0, h0
<1>3. /\ [e EXCEPT !.status = a] = entry(a, b0, n0, h0)
      /\ [e EXCEPT !.stage = b] = entry(a0, b, n0, h0)
      /\ [e EXCEPT !.notify = n] = entry(a0, b0, n, h0)
  BY <1>1, <1>2
<1>4. [entry(a, b0, n0, h0) EXCEPT !.stage = b] = entry(a, b, n0, h0)
  BY <1>1
<1>5. /\ [entry(a, b, n0, h0) EXCEPT !.history = h] = entry(a, b, n0, h)
      /\ [entry(a0, b, n0, h0) EXCEPT !.history = h] = entry(a0, b, n0, h)
      /\ [entry(a0, b0, n, h0) EXCEPT !.history = h] = entry(a0, b0, n, h)
  BY <1>1
<1>6. [e EXCEPT !.status = a, !.stage = b, !.history = h] = entry(a, b, n0, h)
  BY <1>3, <1>4, <1>5, Zenon
<1>7. [e EXCEPT !.stage = b, !.history = h] = entry(a0, b, n0, h)
  BY <1>3, <1>5, Zenon
<1>8. [e EXCEPT !.notify = n, !.history = h] = entry(a0, b0, n, h)
  BY <1>3, <1>5, Zenon
<1> QED
  BY <1>6, <1>7, <1>8 DEF entry, a0, b0, n0, h0

(* An operation makes of an entry an entry with one more history record, which
   names the task. *)
LEMMA HistoryStep ==
    ASSUME NEW e \in Entries, NEW t \in Task, NEW stage \in Stages \cup {"none"}
    PROVE  /\ [by |-> t, stage |-> stage] \in HistoryRecord
           /\ Append(e.history, [by |-> t, stage |-> stage]) \in Seq(HistoryRecord)
<1>1. [by |-> t, stage |-> stage] \in HistoryRecord
  BY DEF HistoryRecord
<1> QED
  BY <1>1, EntryParts, AppendKeeps

(* x is the record of the stage that the entry gets, if it gets one. *)
Logs(old, new, x) == new.stage = IF x.stage = "none" THEN old.stage ELSE x.stage

LEMMA RecordStep ==
    ASSUME NEW e \in Entries, NEW t \in Task, NEW status \in Status
    PROVE  /\ Record(e, status, t) \in Entries
           /\ Record(e, status, t).stage = RecordedStage(e, status)
           /\ \E x \in HistoryRecord :
                 /\ x.by = t /\ Record(e, status, t).history = Append(e.history, x)
                 /\ Logs(e, Record(e, status, t), x)
<1> DEFINE s == RecordedStage(e, status)
           x == [by |-> t, stage |-> s]
           r == [status |-> status, stage |-> s, notify |-> e.notify,
                 history |-> Append(e.history, x)]
<1>1. s \in Stages
  BY EntryParts DEF RecordedStage, VerbToStage, Stages
<1>2. status \in {"accepted", "rejected", "deferred", "pending"}
  BY StatusAssumption
<1> HIDE DEF s
<1>3. Record(e, status, t) = r
  <2>1. Record(e, status, t) = [e EXCEPT !.status = status, !.stage = s,
                                         !.history = Append(e.history, x)]
    BY DEF Record, s
  <2> HIDE DEF x
  <2> QED
    BY ZenonT(60), <2>1, EntryUpdate
<1>4. x \in HistoryRecord /\ Append(e.history, x) \in Seq(HistoryRecord) /\ x.by = t
      /\ x.stage = s /\ s # "none"
  BY <1>1, HistoryStep DEF Stages
<1> HIDE DEF x
<1>5. r \in Entries /\ r.stage = s /\ r.history = Append(e.history, x)
  BY <1>1, <1>2, <1>4, EntryParts DEF Entries, HistoryRecord
<1>6. Logs(e, r, x)
  BY <1>4, <1>5 DEF Logs
<1> QED
  BY <1>3, <1>4, <1>5, <1>6 DEF s

LEMMA SetStageStep ==
    ASSUME NEW e \in Entries, NEW t \in Task, NEW stage \in Stages
    PROVE  /\ SetStage(e, stage, t) \in Entries
           /\ \E x \in HistoryRecord :
                 /\ x.by = t /\ SetStage(e, stage, t).history = Append(e.history, x)
                 /\ Logs(e, SetStage(e, stage, t), x)
<1> DEFINE x == [by |-> t, stage |-> stage]
           r == [status |-> e.status, stage |-> stage, notify |-> e.notify,
                 history |-> Append(e.history, x)]
<1>1. SetStage(e, stage, t) = r
  <2>1. SetStage(e, stage, t) = [e EXCEPT !.stage = stage, !.history = Append(e.history, x)]
    BY DEF SetStage
  <2> HIDE DEF x
  <2> QED
    BY ZenonT(60), <2>1, EntryUpdate
<1>2. x \in HistoryRecord /\ Append(e.history, x) \in Seq(HistoryRecord) /\ x.by = t
      /\ x.stage = stage /\ stage # "none"
  BY HistoryStep DEF Stages
<1> HIDE DEF x
<1>3. r \in Entries /\ r.history = Append(e.history, x)
  BY <1>2, EntryParts DEF Entries, HistoryRecord
<1>4. Logs(e, r, x)
  BY <1>2 DEF Logs
<1> QED
  BY <1>1, <1>2, <1>3, <1>4

LEMMA NotifyHostStep ==
    ASSUME NEW e \in Entries, NEW t \in Task
    PROVE  /\ NotifyHost(e, t) \in Entries
           /\ \E x \in HistoryRecord :
                 /\ x.by = t /\ NotifyHost(e, t).history = Append(e.history, x)
                 /\ Logs(e, NotifyHost(e, t), x)
<1> DEFINE x == [by |-> t, stage |-> "none"]
           r == [status |-> e.status, stage |-> e.stage, notify |-> "requested",
                 history |-> Append(e.history, x)]
<1>1. NotifyHost(e, t) = r
  <2>1. NotifyHost(e, t) = [e EXCEPT !.notify = "requested",
                                     !.history = Append(e.history, x)]
    BY DEF NotifyHost
  <2> HIDE DEF x
  <2> QED
    BY <2>1, EntryUpdate
<1>2. x \in HistoryRecord /\ Append(e.history, x) \in Seq(HistoryRecord) /\ x.by = t
      /\ x.stage = "none"
  BY HistoryStep
<1> HIDE DEF x
<1>3. r \in Entries /\ r.history = Append(e.history, x)
  BY <1>2, EntryParts DEF Entries, HistoryRecord
<1>4. Logs(e, r, x)
  BY <1>2 DEF Logs
<1> QED
  BY <1>1, <1>2, <1>3, <1>4

(* r continues s. *)
Continues(s, r) == Len(s) <= Len(r) /\ \A i \in 1 .. Len(s) : r[i] = s[i]

(* d has every record of c, in place. *)
Grown(c, d) ==
    /\ Continues(c.outcomes, d.outcomes)
    /\ \A r \in Rid : Continues(c.entries[r].history, d.entries[r].history)

LEMMA ContentsParts ==
    ASSUME NEW c \in Contents
    PROVE  /\ c = [entries |-> c.entries, outcomes |-> c.outcomes]
           /\ c.entries \in [Rid -> Entries] /\ c.outcomes \in Seq(Task)
           /\ \A r \in Rid : c.entries[r].history \in Seq(HistoryRecord)
BY DEF Contents, Entries, HistoryRecord

(* Who has no history is as good as missing; the others have the stage that was
   logged last. *)
Fresh(c) ==
    \A r \in Rid : /\ c.entries[r].history = <<>> => c.entries[r].stage = "pending"
                   /\ Staged(c.entries[r])

(* Putting back an entry whose history grew by a record of the task. *)
LEMMA PutEntry ==
    ASSUME NEW c \in Contents, NEW r \in Rid, NEW e \in Entries, NEW t \in Task,
           NEW x \in HistoryRecord, x.by = t,
           e.history = Append(c.entries[r].history, x), Logs(c.entries[r], e, x),
           NEW d, d = [c EXCEPT !.entries[r] = e]
    PROVE  d \in Contents /\ Grown(c, d) /\ Logged(d, t) /\ (Fresh(c) => Fresh(d))
<1>1. d = [entries |-> [c.entries EXCEPT ![r] = e], outcomes |-> c.outcomes]
  BY SMTT(30), ContentsParts
<1>2. d \in Contents
  BY <1>1, ContentsParts DEF Contents
<1> DEFINE old == c.entries[r].history
<1>3. /\ Len(old) \in Nat /\ Len(e.history) = Len(old) + 1
      /\ \A i \in 1 .. Len(old) : e.history[i] = old[i]
      /\ e.history[Len(old) + 1] = x /\ e.history \in Seq(HistoryRecord)
  BY ContentsParts, AppendKeeps
<1>4. /\ d.entries[r] = e /\ d.outcomes = c.outcomes
      /\ \A q \in Rid \ {r} : d.entries[q] = c.entries[q]
  BY <1>1, ContentsParts
<1>5. \A S : \A s \in Seq(S) : Continues(s, s)
  BY DEF Continues
<1>6. Grown(c, d)
  <2>1. Continues(old, e.history)
    BY SMTT(30), <1>3 DEF Continues
  <2>2. \A q \in Rid : Continues(c.entries[q].history, d.entries[q].history)
    BY <2>1, <1>4, <1>5, ContentsParts
  <2>3. Continues(c.outcomes, d.outcomes)
    BY <1>4, <1>5, ContentsParts
  <2> QED
    BY <2>2, <2>3 DEF Grown
<1>7. Logged(d, t)
  <2>1. Len(old) + 1 \in DOMAIN e.history
    BY <1>3
  <2> QED
    BY <2>1, <1>3, <1>4 DEF Logged
<1>8. Fresh(c) => Fresh(d)
  <2>1. e.history # <<>>
    BY <1>3
  <2>2. DOMAIN old = 1 .. Len(old) /\ DOMAIN e.history = 1 .. Len(old) + 1
    BY <1>3, ContentsParts
  <2>3. ASSUME Staged(c.entries[r]), NEW i \in DOMAIN e.history,
               e.history[i].stage \notin {"none", e.stage}
        PROVE  \E j \in DOMAIN e.history : j > i /\ e.history[j].stage # "none"
    <3>1. i # Len(old) + 1
      BY <2>3, <1>3 DEF Logs
    <3>2. i \in DOMAIN old /\ e.history[i] = old[i]
      BY SMTT(30), <3>1, <2>2, <1>3
    <3>3. CASE x.stage = "none"
      <4>1. old[i].stage \notin {"none", c.entries[r].stage}
        BY <2>3, <3>2, <3>3 DEF Logs
      <4>2. PICK j \in DOMAIN old : j > i /\ old[j].stage # "none"
        BY <4>1, <3>2, <2>3 DEF Staged
      <4> QED
        BY <4>2, <2>2, <1>3
    <3>4. CASE x.stage # "none"
      <4>1. Len(old) + 1 \in DOMAIN e.history /\ e.history[Len(old) + 1].stage # "none"
        BY <3>4, <2>2, <1>3
      <4>2. Len(old) + 1 > i
        BY <3>2, <2>2, <1>3
      <4> QED
        BY <4>1, <4>2
    <3> QED
      BY <3>3, <3>4
  <2>4. Staged(c.entries[r]) => Staged(e)
    BY <2>3 DEF Staged
  <2> HIDE DEF old
  <2> QED
    BY <2>1, <2>4, <1>4 DEF Fresh
<1> QED
  BY <1>2, <1>6, <1>7, <1>8

(* An operation keeps the contents well typed, keeps every record, and adds
   one of its task. *)
LEMMA EffectProperties ==
    ASSUME NEW c \in Contents, NEW op \in Operation, NEW t \in Task
    PROVE  /\ Effect(c, op, t) \in Contents
           /\ Grown(c, Effect(c, op, t))
           /\ Fresh(c) => Fresh(Effect(c, op, t))
           /\ op.kind # "close" => Logged(Effect(c, op, t), t)
<1>1. CASE op.kind = "record"
  <2>1. op.rid \in Rid /\ op.value \in Status
    BY <1>1 DEF Operation
  <2>2. c.entries[op.rid] \in Entries
    BY <2>1, ContentsParts
  <2>3. Effect(c, op, t) = [c EXCEPT !.entries[op.rid] =
                                Record(c.entries[op.rid], op.value, t)]
    BY <1>1 DEF Effect
  <2>5. PICK x \in HistoryRecord : /\ x.by = t
          /\ Record(c.entries[op.rid], op.value, t).history
               = Append(c.entries[op.rid].history, x)
          /\ Logs(c.entries[op.rid], Record(c.entries[op.rid], op.value, t), x)
    BY <2>1, <2>2, RecordStep
  <2>6. Record(c.entries[op.rid], op.value, t) \in Entries
    BY <2>1, <2>2, RecordStep
  <2> DEFINE e == Record(c.entries[op.rid], op.value, t)
             d == Effect(c, op, t)
  <2>7. /\ e \in Entries /\ e.history = Append(c.entries[op.rid].history, x)
        /\ d = [c EXCEPT !.entries[op.rid] = e] /\ Logs(c.entries[op.rid], e, x)
    BY <2>3, <2>5, <2>6
  <2> HIDE DEF e, d
  <2>8. d \in Contents /\ Grown(c, d) /\ Logged(d, t) /\ (Fresh(c) => Fresh(d))
    <3>1. x.by = t
      BY <2>5
    <3> QED
      BY <2>1, <2>7, <3>1, PutEntry
  <2> QED
    BY <2>8 DEF d
<1>2. CASE op.kind = "set_stage"
  <2>1. op.rid \in Rid /\ op.value \in Stages
    BY <1>2, StageAssumption DEF Operation, Stages
  <2>2. c.entries[op.rid] \in Entries
    BY <2>1, ContentsParts
  <2>3. Effect(c, op, t) = [c EXCEPT !.entries[op.rid] =
                                SetStage(c.entries[op.rid], op.value, t)]
    BY <1>2 DEF Effect
  <2>5. PICK x \in HistoryRecord : /\ x.by = t
          /\ SetStage(c.entries[op.rid], op.value, t).history
               = Append(c.entries[op.rid].history, x)
          /\ Logs(c.entries[op.rid], SetStage(c.entries[op.rid], op.value, t), x)
    BY <2>1, <2>2, SetStageStep
  <2>6. SetStage(c.entries[op.rid], op.value, t) \in Entries
    BY <2>1, <2>2, SetStageStep
  <2> DEFINE e == SetStage(c.entries[op.rid], op.value, t)
             d == Effect(c, op, t)
  <2>7. /\ e \in Entries /\ e.history = Append(c.entries[op.rid].history, x)
        /\ d = [c EXCEPT !.entries[op.rid] = e] /\ Logs(c.entries[op.rid], e, x)
    BY <2>3, <2>5, <2>6
  <2> HIDE DEF e, d
  <2>8. d \in Contents /\ Grown(c, d) /\ Logged(d, t) /\ (Fresh(c) => Fresh(d))
    <3>1. x.by = t
      BY <2>5
    <3> QED
      BY <2>1, <2>7, <3>1, PutEntry
  <2> QED
    BY <2>8 DEF d
<1>3. CASE op.kind = "notify_host"
  <2>1. op.rid \in Rid
    BY <1>3 DEF Operation
  <2>2. c.entries[op.rid] \in Entries
    BY <2>1, ContentsParts
  <2>3. Effect(c, op, t) = [c EXCEPT !.entries[op.rid] =
                                NotifyHost(c.entries[op.rid], t)]
    BY <1>3 DEF Effect
  <2>5. PICK x \in HistoryRecord : /\ x.by = t
          /\ NotifyHost(c.entries[op.rid], t).history
               = Append(c.entries[op.rid].history, x)
          /\ Logs(c.entries[op.rid], NotifyHost(c.entries[op.rid], t), x)
    BY <2>1, <2>2, NotifyHostStep
  <2>6. NotifyHost(c.entries[op.rid], t) \in Entries
    BY <2>1, <2>2, NotifyHostStep
  <2> DEFINE e == NotifyHost(c.entries[op.rid], t)
             d == Effect(c, op, t)
  <2>7. /\ e \in Entries /\ e.history = Append(c.entries[op.rid].history, x)
        /\ d = [c EXCEPT !.entries[op.rid] = e] /\ Logs(c.entries[op.rid], e, x)
    BY <2>3, <2>5, <2>6
  <2> HIDE DEF e, d
  <2>8. d \in Contents /\ Grown(c, d) /\ Logged(d, t) /\ (Fresh(c) => Fresh(d))
    <3>1. x.by = t
      BY <2>5
    <3> QED
      BY SMTT(30), <2>1, <2>7, <3>1, PutEntry
  <2> QED
    BY <2>8 DEF d
<1>4. \A S : \A s \in Seq(S) : Continues(s, s)
  BY DEF Continues
<1>5. CASE op.kind = "record_outcome"
  <2>1. Effect(c, op, t) = [c EXCEPT !.outcomes = Append(c.outcomes, t)]
    BY <1>5 DEF Effect
  <2>2. Effect(c, op, t) = [entries |-> c.entries, outcomes |-> Append(c.outcomes, t)]
    BY <2>1, ContentsParts
  <2>3. /\ Len(c.outcomes) \in Nat /\ Append(c.outcomes, t) \in Seq(Task)
        /\ Len(Append(c.outcomes, t)) = Len(c.outcomes) + 1
        /\ \A i \in 1 .. Len(c.outcomes) : Append(c.outcomes, t)[i] = c.outcomes[i]
        /\ Append(c.outcomes, t)[Len(c.outcomes) + 1] = t
    BY ContentsParts, AppendKeeps
  <2> DEFINE d == Effect(c, op, t)
  <2>4. d.entries = c.entries /\ d.outcomes = Append(c.outcomes, t)
    BY <2>2
  <2>5. d \in Contents
    BY <2>2, <2>3, ContentsParts DEF Contents
  <2>6. Grown(c, d)
    <3>1. Continues(c.outcomes, Append(c.outcomes, t))
      BY <2>3 DEF Continues
    <3> HIDE DEF d
    <3> QED
      BY <3>1, <2>4, <1>4, ContentsParts DEF Grown
  <2>7. Logged(d, t)
    <3>1. Len(c.outcomes) + 1 \in DOMAIN Append(c.outcomes, t)
      BY <2>3
    <3> HIDE DEF d
    <3> QED
      BY <3>1, <2>3, <2>4 DEF Logged
  <2>8. Fresh(c) => Fresh(d)
    <3> HIDE DEF d
    <3> QED
      BY <2>4 DEF Fresh
  <2> QED
    BY <2>5, <2>6, <2>7, <2>8
<1>6. CASE op.kind = "close"
  <2>1. Effect(c, op, t) = c
    BY <1>6 DEF Effect
  <2>2. Grown(c, c)
    BY <1>4, ContentsParts DEF Grown
  <2> QED
    BY <2>1, <2>2, <1>6
<1> QED
  BY <1>1, <1>2, <1>3, <1>5, <1>6 DEF Operation

(* What is logged stays logged while the contents grow. *)
LEMMA GrownLogged ==
    ASSUME NEW c \in Contents, NEW d \in Contents, NEW t, Grown(c, d), Logged(c, t)
    PROVE  Logged(d, t)
<1>1. \A S, U : \A s \in Seq(S), r \in Seq(U) : Continues(s, r) =>
          \A i \in DOMAIN s : i \in DOMAIN r /\ r[i] = s[i]
  BY DEF Continues
<1>2. /\ c.outcomes \in Seq(Task) /\ d.outcomes \in Seq(Task)
      /\ \A r \in Rid : /\ c.entries[r].history \in Seq(HistoryRecord)
                        /\ d.entries[r].history \in Seq(HistoryRecord)
  BY ContentsParts
<1>3. CASE \E i \in DOMAIN c.outcomes : c.outcomes[i] = t
  BY <1>1, <1>2, <1>3 DEF Logged, Grown
<1>4. CASE \E r \in Rid : \E i \in DOMAIN c.entries[r].history :
               c.entries[r].history[i].by = t
  <2>1. PICK r \in Rid : \E i \in DOMAIN c.entries[r].history :
               c.entries[r].history[i].by = t
    BY <1>4
  <2>2. Continues(c.entries[r].history, d.entries[r].history)
    BY DEF Grown
  <2> QED
    BY <2>1, <2>2, <1>1, <1>2 DEF Logged
<1> QED
  BY <1>3, <1>4 DEF Logged

------------------------------------------------------------------------------
(* The inductive invariant. *)

LEMMA IInvInit == Init => IInv
<1> SUFFICES ASSUME Init PROVE IInv
  OBVIOUS
<1>1. Empty \in Contents
  BY DEF Empty, Missing, Contents, Entries, Stages
<1>2. TypeOK
  BY <1>1, OnDiskAssumption, CrashAssumption, NobodyAssumption DEF Init, TypeOK
<1>3. Exclusive /\ Running /\ Working /\ Saved /\ Absent
  BY DEF Init, Exclusive, Running, Working, Saved, Absent, Inside, Ended
<1> QED
  BY <1>2, <1>3 DEF IInv

(* While t is inside the file lock no other task is. *)
LEMMA Alone ==
    ASSUME IInv, NEW t \in Task, Inside(t), NEW u \in Task, u # t
    PROVE  ~Inside(u)
BY DEF IInv, Exclusive

(* A step of t that only moves t, outside the part between the change and the
   rename, or to an end of its call. *)
LEMMA MoveStep ==
    ASSUME IInv, NEW t \in Task, NEW to, pc' = [pc EXCEPT ![t] = to],
           TypeOK', UNCHANGED <<file, exists, tmp, mem, up>>,
           \A u \in Task \ {t} : operation'[u] = operation[u],
           to # "idle" => operation'[t] \in Operation,
           to \notin Ended \cup {"idle"} => up[StoreOf[t]],
           to \notin {"loaded", "changed", "written", "saved"},
           to = "done" => pc[t] = "saved" /\ operation'[t] = operation[t],
           to = "locked" => flock' = t,
           \A u \in Task \ {t} : Inside(u) => flock' = flock
    PROVE  IInv'
<1> USE DEF IInv
<1>1. pc'[t] = to /\ \A u \in Task \ {t} : pc'[u] = pc[u]
  BY DEF TypeOK
<1>2. Exclusive'
  BY <1>1 DEF Exclusive, Inside, Ended
<1>3. Running'
  BY <1>1 DEF Running
<1>4. \A u \in Task \ {t} : \A c : Worked(c, u) => Worked(c, u)'
  BY DEF Worked
<1>5. Working'
  BY <1>1, <1>4 DEF Working
<1>6. Saved'
  BY <1>1 DEF Saved
<1>7. Absent'
  BY DEF Absent
<1> QED
  BY <1>2, <1>3, <1>5, <1>6, <1>7

LEMMA CallStep == ASSUME IInv, NEW t \in Task, Call(t) PROVE IInv'
<1>1. PICK op \in Operation : operation' = [operation EXCEPT ![t] = op]
  BY DEF Call
<1>2. TypeOK'
  BY <1>1 DEF Call, Move, IInv, TypeOK
<1>3. operation'[t] = op /\ \A u \in Task \ {t} : operation'[u] = operation[u]
  BY <1>1 DEF IInv, TypeOK
<1> QED
  BY <1>2, <1>3, MoveStep DEF Call, Move, Ended

LEMMA TakeMutexStep == ASSUME IInv, NEW t \in Task, TakeMutex(t) PROVE IInv'
<1>1. TypeOK'
  BY DEF TakeMutex, Move, IInv, TypeOK
<1> QED
  BY <1>1, MoveStep DEF TakeMutex, Move, IInv, Running, Ended

LEMMA TakeFileLockStep == ASSUME IInv, NEW t \in Task, TakeFileLock(t) PROVE IInv'
<1>1. TypeOK'
  BY DEF TakeFileLock, Move, IInv, TypeOK
<1>2. \A u \in Task : ~Inside(u)
  BY NobodyAssumption DEF TakeFileLock, IInv, Exclusive
<1> QED
  BY <1>1, <1>2, MoveStep DEF TakeFileLock, Move, IInv, Running, Ended

LEMMA UnlockStep ==
    ASSUME IInv, NEW t \in Task, Return(t) \/ Fails(t)
    PROVE  IInv'
<1>1. \/ pc' = [pc EXCEPT ![t] = "done"] /\ pc[t] = "saved"
      \/ pc' = [pc EXCEPT ![t] = "failed"] /\ pc[t] \in {"locked", "changed", "written"}
  <2>1. CASE Return(t)
    BY <2>1 DEF Return, Move
  <2>2. CASE Fails(t)
    BY <2>2 DEF Fails, Move
  <2> QED
    BY <2>1, <2>2
<1>2. TypeOK'
  BY <1>1 DEF Return, Fails, Unlock, IInv, TypeOK, Ended
<1>3. \A u \in Task \ {t} : ~Inside(u)
  BY <1>1, Alone DEF Inside
<1>4. operation[t] \in Operation
  BY <1>1 DEF IInv, Running
<1>5. UNCHANGED <<file, exists, tmp, mem, up, operation>>
  BY DEF Return, Fails
<1> QED
  BY <1>1, <1>2, <1>3, <1>4, <1>5, MoveStep DEF Ended

(* A step of t inside the file lock: the other tasks are outside. *)
LEMMA InsideStep ==
    ASSUME IInv, NEW t \in Task, Inside(t), NEW to \in {"loaded", "changed", "written", "saved"},
           up[StoreOf[t]], pc' = [pc EXCEPT ![t] = to],
           UNCHANGED <<flock, up, operation>>
    PROVE  /\ Exclusive' /\ Running'
           /\ pc'[t] = to
           /\ \A u \in Task \ {t} : pc'[u] = pc[u] /\ ~Inside(u)
<1>1. pc'[t] = to /\ \A u \in Task \ {t} : pc'[u] = pc[u] /\ ~Inside(u)
  BY Alone DEF IInv, TypeOK
<1>2. Exclusive'
  BY <1>1 DEF IInv, Exclusive, Inside
<1>3. Running'
  BY <1>1 DEF IInv, Running, Inside
<1> QED
  BY <1>1, <1>2, <1>3

LEMMA ReloadStep == ASSUME IInv, NEW t \in Task, Reload(t) PROVE IInv'
<1> USE DEF IInv
<1>1. /\ pc[t] = "locked" /\ up[StoreOf[t]] /\ pc' = [pc EXCEPT ![t] = "loaded"]
      /\ mem' = IF exists THEN [mem EXCEPT ![StoreOf[t]] = file] ELSE mem
      /\ UNCHANGED <<file, exists, tmp, flock, up, operation>>
  BY DEF Reload, Move
<1>2. TypeOK'
  BY DEF Reload, Move, TypeOK
<1>3. /\ Exclusive' /\ Running' /\ pc'[t] = "loaded"
      /\ \A u \in Task \ {t} : pc'[u] = pc[u] /\ ~Inside(u)
  BY <1>1, InsideStep DEF Inside
<1>4. exists => mem'[StoreOf[t]] = file
  BY <1>1, StoreOfAssumption DEF TypeOK
<1>5. Working'
  BY <1>1, <1>3, <1>4 DEF Working, Inside
<1>6. Saved' /\ Absent'
  BY <1>1, <1>3 DEF Saved, Absent
<1> QED
  BY <1>2, <1>3, <1>5, <1>6

LEMMA ChangeStep == ASSUME IInv, NEW t \in Task, Change(t) PROVE IInv'
<1> USE DEF IInv
<1> DEFINE s == StoreOf[t]
<1>1. /\ pc[t] = "loaded" /\ up[s] /\ pc' = [pc EXCEPT ![t] = "changed"]
      /\ mem' = [mem EXCEPT ![s] = Effect(mem[s], operation[t], t)]
      /\ UNCHANGED <<file, exists, tmp, flock, mutex, up, operation, crashes>>
  BY DEF Change, Move
<1>2. s \in Store /\ mem[s] \in Contents /\ operation[t] \in Operation
  BY <1>1, StoreOfAssumption DEF TypeOK, Running
<1>3. Effect(mem[s], operation[t], t) \in Contents
  BY <1>2, EffectProperties
<1>4. TypeOK'
  BY <1>1, <1>2, <1>3 DEF TypeOK
<1>5. /\ Exclusive' /\ Running' /\ pc'[t] = "changed"
      /\ \A u \in Task \ {t} : pc'[u] = pc[u] /\ ~Inside(u)
  BY <1>1, InsideStep DEF Inside
<1>6. mem'[s] = Effect(mem[s], operation[t], t)
  BY <1>1, <1>2 DEF TypeOK
<1>7. exists => mem[s] = file
  BY <1>1 DEF Working
<1>8. Worked(mem'[s], t)
  BY <1>2, <1>6, <1>7 DEF Worked
<1>9. Worked(mem[s], t)'
  BY <1>1, <1>8 DEF Worked
<1>10. Working'
  BY <1>5, <1>9 DEF Working, Inside
<1>11. Saved' /\ Absent'
  BY <1>1, <1>5 DEF Saved, Absent
<1> QED
  BY <1>4, <1>5, <1>10, <1>11

LEMMA WriteTmpStep == ASSUME IInv, NEW t \in Task, WriteTmp(t) PROVE IInv'
<1> USE DEF IInv
<1>1. /\ pc[t] = "changed" /\ up[StoreOf[t]] /\ pc' = [pc EXCEPT ![t] = "written"]
      /\ tmp' = mem[StoreOf[t]]
      /\ UNCHANGED <<file, exists, flock, mutex, mem, up, operation, crashes>>
  BY DEF WriteTmp, Move
<1>2. TypeOK'
  BY <1>1, StoreOfAssumption DEF TypeOK
<1>3. /\ Exclusive' /\ Running' /\ pc'[t] = "written"
      /\ \A u \in Task \ {t} : pc'[u] = pc[u] /\ ~Inside(u)
  BY <1>1, InsideStep DEF Inside
<1>4. Worked(mem[StoreOf[t]], t)
  BY <1>1 DEF Working
<1>5. Worked(tmp, t)'
  BY <1>1, <1>4 DEF Worked
<1>6. Working'
  BY <1>3, <1>5 DEF Working, Inside
<1>7. Saved' /\ Absent'
  BY <1>1, <1>3 DEF Saved, Absent
<1> QED
  BY <1>2, <1>3, <1>6, <1>7

(* What is renamed into place continues the file it replaces. *)
LEMMA ReplaceGrows ==
    ASSUME IInv, NEW t \in Task, Replace(t)
    PROVE  /\ operation[t] \in Operation
           /\ file' \in Contents /\ Grown(file, file')
           /\ operation[t].kind # "close" => Logged(file', t)
           /\ \E base \in Contents : /\ exists => base = file
                                     /\ file' = Effect(base, operation[t], t)
<1> USE DEF IInv
<1>1. pc[t] = "written" /\ file' = tmp
  BY DEF Replace, Move
<1>2. operation[t] \in Operation
  BY <1>1 DEF Running
<1>3. PICK base \in Contents : (exists => base = file) /\ file' = Effect(base, operation[t], t)
  BY <1>1 DEF Working, Worked
<1>4. /\ file' \in Contents /\ Grown(base, file')
      /\ operation[t].kind # "close" => Logged(file', t)
  BY <1>2, <1>3, EffectProperties
<1>5. Grown(file, file')
  <2>1. CASE exists
    BY <2>1, <1>3, <1>4
  <2>2. CASE ~exists
    <3>1. file = Empty
      BY <2>2 DEF Absent
    <3>2. file.outcomes = <<>> /\ \A r \in Rid : file.entries[r].history = <<>>
      BY <3>1 DEF Empty, Missing
    <3>3. /\ file'.outcomes \in Seq(Task)
          /\ \A r \in Rid : file'.entries[r].history \in Seq(HistoryRecord)
      BY <1>4, ContentsParts
    <3>4. \A S : \A s \in Seq(S) : Continues(<<>>, s)
      BY DEF Continues
    <3> QED
      BY <3>2, <3>3, <3>4 DEF Grown
  <2> QED
    BY <2>1, <2>2
<1> QED
  BY <1>2, <1>3, <1>4, <1>5

LEMMA ReplaceStep == ASSUME IInv, NEW t \in Task, Replace(t) PROVE IInv'
<1> USE DEF IInv
<1>1. /\ pc[t] = "written" /\ up[StoreOf[t]] /\ pc' = [pc EXCEPT ![t] = "saved"]
      /\ exists' = TRUE
      /\ UNCHANGED <<tmp, flock, mutex, mem, up, operation, crashes>>
  BY DEF Replace, Move
<1>2. /\ file' \in Contents /\ file \in Contents /\ Grown(file, file')
      /\ operation[t].kind # "close" => Logged(file', t)
  BY ReplaceGrows DEF TypeOK
<1>3. TypeOK'
  BY <1>1, <1>2 DEF TypeOK
<1>4. /\ Exclusive' /\ Running' /\ pc'[t] = "saved"
      /\ \A u \in Task \ {t} : pc'[u] = pc[u] /\ ~Inside(u)
  BY <1>1, InsideStep DEF Inside
<1>5. Working'
  BY <1>4 DEF Working, Inside
<1>6. \A u \in Task : Logged(file, u) => Logged(file', u)
  BY <1>2, GrownLogged
<1>7. \A u \in Task : Logged(file, u)' <=> Logged(file', u)
  BY DEF Logged
<1>8. Saved'
  BY <1>1, <1>2, <1>4, <1>6, <1>7 DEF Saved
<1>9. Absent'
  BY <1>1 DEF Absent
<1> QED
  BY <1>3, <1>4, <1>5, <1>8, <1>9

LEMMA CrashStep == ASSUME IInv, NEW s \in Store, Crash(s) PROVE IInv'
<1> USE DEF IInv
<1>1. /\ up' = [up EXCEPT ![s] = FALSE]
      /\ pc' = [t \in Task |-> IF StoreOf[t] = s /\ pc[t] \notin Ended \cup {"idle"}
                               THEN "dead" ELSE pc[t]]
      /\ flock' = IF flock # Nobody /\ StoreOf[flock] = s THEN Nobody ELSE flock
      /\ UNCHANGED <<file, exists, tmp, mem, operation>>
  BY DEF Crash
<1>2. TypeOK'
  <2>1. crashes' \in 0 .. MaxCrashes
    BY CrashAssumption DEF Crash, TypeOK
  <2>2. pc' \in [Task -> {"idle", "called", "alone", "locked", "loaded", "changed",
                         "written", "saved"} \cup Ended]
    BY <1>1 DEF TypeOK, Ended
  <2>3. mutex' \in [Store -> Task \cup {Nobody}] /\ flock' \in Task \cup {Nobody}
    BY <1>1 DEF Crash, TypeOK
  <2> QED
    BY <2>1, <2>2, <2>3, <1>1 DEF TypeOK
<1>3. \A t \in Task : \/ pc'[t] = "dead"
                      \/ pc'[t] = pc[t] /\ (StoreOf[t] # s \/ pc[t] \in Ended \cup {"idle"})
  BY <1>1
<1>4. Exclusive'
  BY <1>1, <1>3 DEF Exclusive, Inside, Ended
<1>5. Running'
  <2>1. \A u \in Store \ {s} : up'[u] = up[u]
    BY <1>1 DEF TypeOK
  <2> QED
    BY <2>1, <1>1, <1>3, StoreOfAssumption DEF Running, Ended
<1>6. \A t \in Task : \A c : Worked(c, t) => Worked(c, t)'
  BY <1>1 DEF Worked
<1>7. Working'
  BY <1>1, <1>3, <1>6 DEF Working
<1>8. Saved' /\ Absent'
  BY <1>1, <1>3 DEF Saved, Absent, Ended
<1> QED
  BY <1>2, <1>4, <1>5, <1>7, <1>8

LEMMA RestartStep == ASSUME IInv, NEW s \in Store, Restart(s) PROVE IInv'
<1> USE DEF IInv
<1>1. /\ ~up[s] /\ up' = [up EXCEPT ![s] = TRUE] /\ mem' = [mem EXCEPT ![s] = file]
      /\ UNCHANGED <<file, exists, tmp, flock, mutex, operation, pc, crashes>>
  BY DEF Restart
<1>2. TypeOK'
  BY <1>1 DEF TypeOK
<1>3. Exclusive' /\ Saved' /\ Absent'
  BY <1>1 DEF Exclusive, Inside, Saved, Absent
<1>4. Running'
  BY <1>1, StoreOfAssumption DEF Running, TypeOK
<1>5. \A t \in Task : Inside(t) => StoreOf[t] # s
  BY <1>1 DEF Inside, Running, Ended
<1>6. \A t \in Task : Inside(t) => mem'[StoreOf[t]] = mem[StoreOf[t]]
  BY <1>1, <1>5, StoreOfAssumption DEF TypeOK
<1>7. \A t \in Task : \A c : Worked(c, t) => Worked(c, t)'
  BY <1>1 DEF Worked
<1>8. Working'
  BY <1>1, <1>6, <1>7 DEF Working, Inside
<1> QED
  BY <1>2, <1>3, <1>4, <1>8

LEMMA IInvStep == IInv /\ [Next]_vars => IInv'
<1> SUFFICES ASSUME IInv, [Next]_vars PROVE IInv'
  OBVIOUS
<1>1. CASE UNCHANGED vars
  BY <1>1 DEF vars, IInv, TypeOK, Exclusive, Running, Working, Worked, Saved, Absent,
              Inside, Logged
<1>2. ASSUME NEW t \in Task, Call(t) \/ Progress(t) PROVE IInv'
  BY <1>2, CallStep, TakeMutexStep, TakeFileLockStep, ReloadStep, ChangeStep,
     WriteTmpStep, ReplaceStep, UnlockStep DEF Progress
<1> QED
  BY <1>1, <1>2, CrashStep, RestartStep DEF Next

LEMMA IInvariant == Spec => []IInv
BY IInvInit, IInvStep, PTL DEF Spec

(* Every variable keeps its type: the file always holds well formed contents. *)
THEOREM TypeCorrect == Spec => []TypeOK
<1>1. IInv => TypeOK
  BY DEF IInv
<1> QED
  BY <1>1, IInvariant, PTL

(* An operation that returned is in the file for good, whatever other
   processes do, whichever of them die and whichever saves fail. *)
THEOREM NoLostUpdateAlways == Spec => []NoLostUpdate
<1>1. IInv => NoLostUpdate
  BY DEF IInv, Saved, NoLostUpdate
<1> QED
  BY <1>1, IInvariant, PTL

------------------------------------------------------------------------------
(* How the file changes. *)

LEMMA FileStep ==
    ASSUME [Next]_vars
    PROVE  file' = file \/ \E t \in Task : Replace(t)
BY DEF Next, vars, Progress, Call, TakeMutex, TakeFileLock, Reload, Change, WriteTmp,
       Fails, Return, Crash, Restart

LEMMA ContinuesPrefix ==
    ASSUME NEW S, NEW s \in Seq(S), NEW r \in Seq(S), Continues(s, r)
    PROVE  Len(s) <= Len(r) /\ SubSeq(r, 1, Len(s)) = s
<1>1. Len(s) \in Nat /\ Len(r) \in Nat /\ Len(s) <= Len(r)
  BY DEF Continues
<1>2. /\ SubSeq(r, 1, Len(s)) \in Seq(S)
      /\ Len(SubSeq(r, 1, Len(s))) = Len(s)
      /\ \A i \in 1 .. Len(s) : SubSeq(r, 1, Len(s))[i] = r[i]
  BY <1>1
<1>3. \A i \in 1 .. Len(s) : SubSeq(r, 1, Len(s))[i] = s[i]
  BY <1>2 DEF Continues
<1> QED
  BY <1>1, <1>2, <1>3, SeqEqual

(* The history in the file is append-only under every step of every process. *)
THEOREM AppendOnlyAlways == Spec => AppendOnly
<1> DEFINE A == \A r \in Rid :
                  LET old == file.entries[r].history
                      new == file'.entries[r].history
                  IN  Len(old) <= Len(new) /\ SubSeq(new, 1, Len(old)) = old
<1>1. IInv /\ [Next]_vars => [A]_vars
  <2> SUFFICES ASSUME IInv, [Next]_vars PROVE A
    OBVIOUS
  <2>1. file \in Contents /\ file' \in Contents /\ Grown(file, file')
    <3>1. file \in Contents
      BY DEF IInv, TypeOK
    <3>2. CASE file' = file
      <4>1. \A S : \A s \in Seq(S) : Continues(s, s)
        BY DEF Continues
      <4>2. Grown(file, file)
        BY <3>1, <4>1, ContentsParts DEF Grown
      <4> QED
        BY <3>1, <3>2, <4>2
    <3>3. CASE \E t \in Task : Replace(t)
      BY <3>1, <3>3, ReplaceGrows
    <3> QED
      BY <3>2, <3>3, FileStep
  <2> SUFFICES ASSUME NEW r \in Rid
               PROVE  /\ Len(file.entries[r].history) <= Len(file'.entries[r].history)
                      /\ SubSeq(file'.entries[r].history, 1, Len(file.entries[r].history))
                           = file.entries[r].history
    OBVIOUS
  <2>2. /\ file.entries[r].history \in Seq(HistoryRecord)
        /\ file'.entries[r].history \in Seq(HistoryRecord)
        /\ Continues(file.entries[r].history, file'.entries[r].history)
    BY <2>1, ContentsParts DEF Grown
  <2> QED
    BY <2>2, ContinuesPrefix
<1>2. Spec => [][A]_vars
  BY <1>1, IInvariant, PTL DEF Spec
<1> QED
  BY <1>2 DEF AppendOnly

(* Whatever is stored has the stages that were logged. *)
AllFresh == Fresh(file) /\ Fresh(tmp) /\ \A s \in Store : Fresh(mem[s])

LEMMA AllFreshInit == Init => AllFresh
BY DEF Init, AllFresh, Fresh, Empty, Missing, Staged

LEMMA AllFreshStep == IInv /\ AllFresh /\ [Next]_vars => AllFresh'
<1> SUFFICES ASSUME IInv, AllFresh, [Next]_vars PROVE AllFresh'
  OBVIOUS
<1> USE DEF AllFresh
<1>1. AllFresh' <=> Fresh(file') /\ Fresh(tmp') /\ \A s \in Store : Fresh(mem'[s])
  BY DEF Fresh, Staged
<1>2. mem \in [Store -> Contents] /\ \A t \in Task : StoreOf[t] \in Store
  BY StoreOfAssumption DEF IInv, TypeOK
<1>3. ASSUME NEW t \in Task, Reload(t) PROVE AllFresh'
  BY <1>1, <1>2, <1>3 DEF Reload
<1>4. ASSUME NEW t \in Task, Change(t) PROVE AllFresh'
  <2>1. operation[t] \in Operation
    BY <1>4 DEF Change, Move, IInv, Running
  <2>2. Fresh(Effect(mem[StoreOf[t]], operation[t], t))
    BY <2>1, <1>2, EffectProperties
  <2> QED
    BY <2>2, <1>1, <1>2, <1>4 DEF Change
<1>5. ASSUME NEW t \in Task, WriteTmp(t) \/ Replace(t) PROVE AllFresh'
  BY <1>1, <1>2, <1>5 DEF WriteTmp, Replace
<1>6. ASSUME NEW s \in Store, Restart(s) PROVE AllFresh'
  BY <1>1, <1>2, <1>6 DEF Restart
<1>7. ASSUME UNCHANGED <<file, tmp, mem>> PROVE AllFresh'
  BY <1>1, <1>7
<1> QED
  BY <1>3, <1>4, <1>5, <1>6, <1>7
     DEF Next, Progress, Call, TakeMutex, TakeFileLock, Fails, Return, Crash, vars

(* The stage of every entry in the file is the one that was logged last. *)
THEOREM StageIsLoggedAlways == Spec => []StageIsLogged
<1>1. AllFresh => StageIsLogged
  BY DEF AllFresh, Fresh, StageIsLogged
<1>2. Init => IInv /\ AllFresh
  BY IInvInit, AllFreshInit
<1>3. (IInv /\ AllFresh) /\ [Next]_vars => (IInv /\ AllFresh)'
  BY IInvStep, AllFreshStep
<1> QED
  BY <1>1, <1>2, <1>3, PTL DEF Spec

(* record never takes a scheduled or implemented action back. *)
THEOREM KeepsCommitmentAlways == Spec => KeepsCommitment
<1> DEFINE A == \A t \in Task, r \in Rid :
                  /\ Replace(t)
                  /\ operation[t].kind = "record"
                  /\ file.entries[r].stage \in {"scheduled", "implemented"}
                  => file'.entries[r].stage \notin {"approved", "pending"}
<1>1. IInv /\ AllFresh => [A]_vars
  <2> SUFFICES ASSUME IInv, AllFresh, NEW t \in Task, NEW r \in Rid, Replace(t),
                      operation[t].kind = "record",
                      file.entries[r].stage \in {"scheduled", "implemented"}
               PROVE  file'.entries[r].stage \notin {"approved", "pending"}
    OBVIOUS
  <2>1. PICK base \in Contents : /\ exists => base = file
                                 /\ file' = Effect(base, operation[t], t)
    BY ReplaceGrows
  <2>2. base = file
    <3>1. exists
      <4> SUFFICES ASSUME ~exists PROVE FALSE
        OBVIOUS
      <4>1. file = Empty
        BY DEF IInv, Absent
      <4> QED
        BY <4>1 DEF Empty, Missing
    <3> QED
      BY <3>1, <2>1
  <2> DEFINE q == operation[t].rid
             e == file.entries[q]
             status == operation[t].value
  <2>3. q \in Rid /\ status \in Status /\ file \in Contents
    BY ReplaceGrows DEF Operation, IInv, TypeOK
  <2>4. file' = [file EXCEPT !.entries[q] = Record(e, status, t)]
    BY <2>1, <2>2 DEF Effect
  <2>5. /\ file'.entries[q] = Record(e, status, t)
        /\ r # q => file'.entries[r] = file.entries[r]
    BY <2>3, <2>4, ContentsParts
  <2>6. Record(e, status, t).stage = RecordedStage(e, status)
    BY <2>3, ContentsParts, RecordStep
  <2>7. CASE r = q
    <3>1. RecordedStage(e, status) \notin {"approved", "pending"}
      <4>1. e.history # <<>>
        BY <2>3, <2>7 DEF AllFresh, Fresh
      <4> QED
        BY <4>1, <2>7 DEF RecordedStage
    <3> QED
      BY <3>1, <2>5, <2>6, <2>7
  <2>8. CASE r # q
    BY <2>5, <2>8
  <2> QED
    BY <2>7, <2>8
<1>2. (IInv /\ AllFresh) /\ [Next]_vars => (IInv /\ AllFresh)'
  BY IInvStep, AllFreshStep
<1>3. Spec => [][A]_vars
  BY <1>1, <1>2, IInvInit, AllFreshInit, PTL DEF Spec
<1> QED
  BY <1>3 DEF KeepsCommitment

------------------------------------------------------------------------------
(* Over an existing file the store implements the log. *)

(* The value of state at each place of a task. *)
LEMMA StateValues ==
    /\ StateOf("idle") = "idle" /\ StateOf("saved") = "applied"
    /\ StateOf("done") = "returned"
    /\ \A p \in {"failed", "dead"} : StateOf(p) = "gave up"
    /\ \A p \in {"called", "alone", "locked", "loaded", "changed", "written"} :
          StateOf(p) = "waiting"
BY DEF StateOf

(* A step that moves only t moves only the state of t. *)
LEMMA StateMoves ==
    ASSUME TypeOK, NEW t \in Task, NEW to, pc' = [pc EXCEPT ![t] = to]
    PROVE  /\ LogState' = [LogState EXCEPT ![t] = StateOf(to)]
           /\ LogState[t] = StateOf(pc[t])
           /\ StateOf(to) = StateOf(pc[t]) => LogState' = LogState
<1>1. pc'[t] = to /\ \A u \in Task \ {t} : pc'[u] = pc[u]
  BY DEF TypeOK
<1>2. /\ LogState = [u \in Task |-> StateOf(pc[u])]
      /\ LogState' = [u \in Task |-> StateOf(pc'[u])]
  BY DEF LogState
<1>3. LogState' = [LogState EXCEPT ![t] = StateOf(to)]
  BY <1>1, <1>2
<1>4. StateOf(to) = StateOf(pc[t]) => LogState' = LogState
  BY <1>1, <1>2
<1> QED
  BY <1>2, <1>3, <1>4

(* The log's copies of the definitions of DecisionOps are the store's. *)
LEMMA LogData ==
    /\ Log!Operation = Operation /\ Log!NoOperation = NoOperation /\ Log!Empty = Empty
    /\ \A c, op, t : Log!Effect(c, op, t) = Effect(c, op, t)
<1>1. Log!Operation = Operation
  BY DEF Log!Operation, Operation
<1>2. Log!NoOperation = NoOperation
  BY DEF Log!NoOperation, NoOperation
<1>3. Log!Empty = Empty
  BY DEF Log!Empty, Empty, Log!Missing, Missing
<1>4. \A status : Log!VerbToStage(status) = VerbToStage(status)
  BY DEF Log!VerbToStage, VerbToStage
<1>5. \A e, status : Log!RecordedStage(e, status) = RecordedStage(e, status)
  BY <1>4 DEF Log!RecordedStage, RecordedStage
<1>6. \A e, v, t : /\ Log!Record(e, v, t) = Record(e, v, t)
                  /\ Log!SetStage(e, v, t) = SetStage(e, v, t)
                  /\ Log!NotifyHost(e, t) = NotifyHost(e, t)
  BY <1>5 DEF Log!Record, Record, Log!SetStage, SetStage, Log!NotifyHost, NotifyHost
<1>7. \A c, op, t : Log!Effect(c, op, t) = Effect(c, op, t)
  BY <1>6 DEF Log!Effect, Effect
<1> QED
  BY <1>1, <1>2, <1>3, <1>7

(* Every step of the store over an existing file is a step of the log or
   leaves its variables alone. *)
LEMMA LogStep ==
    ASSUME IInv, exists, [Next]_vars
    PROVE  [Log!Next]_(Log!logVars)
<1> USE DEF IInv
<1>1. ASSUME LogState' = LogState, file' = file, operation' = operation
      PROVE  UNCHANGED Log!logVars
  BY <1>1 DEF Log!logVars
<1>2. ASSUME NEW t \in Task, Call(t) PROVE Log!Ask(t)
  <2>1. LogState[t] = "idle" /\ LogState' = [LogState EXCEPT ![t] = "waiting"]
    <3>1. pc[t] = "idle" /\ pc' = [pc EXCEPT ![t] = "called"]
      BY <1>2 DEF Call, Move
    <3>2. /\ LogState' = [LogState EXCEPT ![t] = StateOf("called")]
          /\ LogState[t] = StateOf("idle")
      BY <3>1, StateMoves
    <3> QED
      BY <3>2, StateValues
  <2> QED
    BY <1>2, <2>1, LogData DEF Call, Log!Ask
<1>3. ASSUME NEW t \in Task,
             \/ TakeMutex(t) \/ TakeFileLock(t) \/ Reload(t) \/ Change(t) \/ WriteTmp(t)
      PROVE  UNCHANGED Log!logVars
  <2>1. file' = file /\ operation' = operation
    BY <1>3 DEF TakeMutex, TakeFileLock, Reload, Change, WriteTmp
  <2>2. PICK to \in {"alone", "locked", "loaded", "changed", "written"} :
            /\ pc' = [pc EXCEPT ![t] = to]
            /\ pc[t] \in {"called", "alone", "locked", "loaded", "changed"}
    BY <1>3 DEF TakeMutex, TakeFileLock, Reload, Change, WriteTmp, Move
  <2>3. StateOf(to) = StateOf(pc[t])
    BY <2>2, StateValues
  <2>4. LogState' = LogState
    BY <2>2, <2>3, StateMoves
  <2> QED
    BY <2>1, <2>4, <1>1
<1>4. ASSUME NEW t \in Task, Replace(t) PROVE Log!Apply(t)
  <2>1. LogState[t] = "waiting" /\ LogState' = [LogState EXCEPT ![t] = "applied"]
    <3>1. pc[t] = "written" /\ pc' = [pc EXCEPT ![t] = "saved"]
      BY <1>4 DEF Replace, Move
    <3>2. /\ LogState' = [LogState EXCEPT ![t] = StateOf("saved")]
          /\ LogState[t] = StateOf("written")
      BY <3>1, StateMoves
    <3> QED
      BY <3>2, StateValues
  <2>2. file' = Effect(file, operation[t], t) /\ operation' = operation
    BY <1>4, ReplaceGrows DEF Replace
  <2> QED
    BY <2>1, <2>2, LogData DEF Log!Apply
<1>5. ASSUME NEW t \in Task, Return(t) PROVE Log!Return(t)
  <2>1. LogState[t] = "applied" /\ LogState' = [LogState EXCEPT ![t] = "returned"]
    <3>1. pc[t] = "saved" /\ pc' = [pc EXCEPT ![t] = "done"]
      BY <1>5 DEF Return, Move
    <3>2. /\ LogState' = [LogState EXCEPT ![t] = StateOf("done")]
          /\ LogState[t] = StateOf("saved")
      BY <3>1, StateMoves
    <3> QED
      BY <3>2, StateValues
  <2> QED
    BY <1>5, <2>1 DEF Return, Log!Return
<1>6. ASSUME NEW T \in SUBSET Task, file' = file, operation' = operation,
             \A t \in T : StateOf(pc[t]) \in {"waiting", "applied"},
             \A t \in Task : pc'[t] = IF t \in T THEN pc'[t] ELSE pc[t],
             \A t \in T : pc'[t] \in {"failed", "dead"}
      PROVE  Log!GiveUp(T)
  <2>1. /\ LogState = [u \in Task |-> StateOf(pc[u])]
        /\ LogState' = [u \in Task |-> StateOf(pc'[u])]
    BY DEF LogState
  <2>2. LogState' = [t \in Task |-> IF t \in T THEN "gave up" ELSE LogState[t]]
    BY <1>6, <2>1, StateValues
  <2>3. \A t \in T : LogState[t] \in {"waiting", "applied"}
    BY <1>6, <2>1
  <2> QED
    BY <1>6, <2>2, <2>3 DEF Log!GiveUp
<1>7. ASSUME NEW t \in Task, Fails(t) PROVE \E T \in SUBSET Task : Log!GiveUp(T)
  <2>1. /\ pc' = [pc EXCEPT ![t] = "failed"] /\ pc[t] \in {"locked", "changed", "written"}
        /\ file' = file /\ operation' = operation
    BY <1>7 DEF Fails, Move
  <2>2. pc'[t] = "failed" /\ \A u \in Task \ {t} : pc'[u] = pc[u]
    BY <2>1 DEF TypeOK
  <2>3. StateOf(pc[t]) = "waiting"
    BY <2>1, StateValues
  <2>4. Log!GiveUp({t})
    BY <2>1, <2>2, <2>3, <1>6
  <2> QED
    BY <2>4
<1>8. ASSUME NEW s \in Store, Crash(s) PROVE \E T \in SUBSET Task : Log!GiveUp(T)
  <2> DEFINE T == {t \in Task : StoreOf[t] = s /\ pc[t] \notin Ended \cup {"idle"}}
  <2>1. /\ pc' = [t \in Task |-> IF t \in T THEN "dead" ELSE pc[t]]
        /\ file' = file /\ operation' = operation
    BY <1>8 DEF Crash
  <2>2. \A t \in T : StateOf(pc[t]) \in {"waiting", "applied"}
    BY StateValues DEF TypeOK, Ended
  <2>3. T \in SUBSET Task
    OBVIOUS
  <2> HIDE DEF T
  <2>4. Log!GiveUp(T)
    BY <2>1, <2>2, <2>3, <1>6
  <2> QED
    BY <2>3, <2>4
<1>9. ASSUME NEW s \in Store, Restart(s) PROVE UNCHANGED Log!logVars
  BY <1>9, <1>1 DEF Restart, LogState
<1>10. ASSUME UNCHANGED vars PROVE UNCHANGED Log!logVars
  BY <1>10, <1>1 DEF vars, LogState
<1> QED
  BY <1>2, <1>3, <1>4, <1>5, <1>7, <1>8, <1>9, <1>10 DEF Next, Progress, Log!Next

LEMMA LogInit == Init => Log!Init
<1>1. Init => LogState = [t \in Task |-> "idle"]
  BY StateValues DEF Init, LogState
<1> QED
  BY <1>1, LogData DEF Init, Log!Init

(* Over an existing file, locking, reloading and renaming implement a log on
   which each operation takes effect once, at one instant, before it returns. *)
THEOREM StoreImplementsLog ==
    ASSUME OnDisk = {TRUE}
    PROVE  Spec => ImplementsLog
<1>1. Init => exists
  BY DEF Init
<1>2. exists /\ [Next]_vars => exists'
  BY DEF Next, vars, Progress, Call, TakeMutex, TakeFileLock, Reload, Change, WriteTmp,
         Replace, Fails, Return, Crash, Restart
<1>3. IInv /\ exists /\ [Next]_vars => [Log!Next]_(Log!logVars)
  BY LogStep
<1> QED
  BY <1>1, <1>2, <1>3, IInvariant, LogInit, PTL DEF Spec, ImplementsLog, Log!Spec

(* What was acknowledged is in the file for good, under the stage it logged. *)
THEOREM FileKeptAlways == Spec => []FileKept
<1>1. TypeOK /\ NoLostUpdate /\ StageIsLogged => FileKept
  BY DEF FileKept
<1> QED
  BY <1>1, TypeCorrect, NoLostUpdateAlways, StageIsLoggedAlways, PTL

(* No step of any process shortens a history or takes a commitment back. *)
THEOREM HistoryKeptAlways == Spec => HistoryKept
<1>1. AppendOnly /\ KeepsCommitment => HistoryKept
  BY DEF HistoryKept
<1> QED
  BY <1>1, AppendOnlyAlways, KeepsCommitmentAlways, PTL
==============================================================================
