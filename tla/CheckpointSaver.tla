-------------------------- MODULE CheckpointSaver --------------------------
(***************************************************************************)
(* StoreCheckpointSaver (adapters/langgraph.py) over a CheckpointStore: the *)
(* one JSON document of a thread, and the aput and aput_writes calls of the *)
(* graph that runs it.  Every call loads the document, changes it and saves *)
(* it.  Over InMemoryCheckpointStore nothing runs in between; over          *)
(* SQLiteCheckpointStore load and save are separate hops to a thread.       *)
(*                                                                          *)
(* The graph is external: it puts a checkpoint, runs the tasks of a step,   *)
(* hands over the writes of each as it ends, and goes on to the next        *)
(* checkpoint without waiting for the calls it made; only the aput calls    *)
(* wait for each other.  A run that dies is resumed from the document.      *)
(***************************************************************************)
EXTENDS Naturals, Sequences

CONSTANTS
    Task,       \* tasks of a step
    Channel,
    Special,    \* channels of WRITES_IDX_MAP
    Writes,     \* the channels each task writes, in order
    Suspending, \* which stores are used: SQLite suspends its caller, the other does not
    MaxPuts,    \* bound of the model on checkpoints, for each kind of store
    MaxCrashes  \* bound of the model

VARIABLES
    suspends,  \* the store of this system suspends its caller
    doc,       \* the stored document of the thread
    calls,     \* calls of the saver that are under way, oldest first
    step,      \* the checkpoint the run is at; 0 when nothing runs
    versions,  \* channel_versions of that checkpoint
    ran,       \* tasks of the step that have ended
    acked,     \* <<checkpoint, task>> whose aput_writes returned
    puts,      \* checkpoints put so far: they are numbered in order
    crashes

graph == <<step, versions, ran, puts>>
vars  == <<suspends, doc, calls, graph, acked, crashes>>

NoDoc == [id |-> 0, versions |-> [c \in Channel |-> 0], blobs |-> {}, writes |-> {}]

Init ==
    /\ suspends \in Suspending
    /\ doc = NoDoc
    /\ calls = <<>>
    /\ step = 0 /\ ran = {} /\ puts = 0
    /\ versions = [c \in Channel |-> 0]
    /\ acked = {} /\ crashes = 0

------------------------------------------------------------------------------
(* The graph calls aput with a new checkpoint: the channels `new` changed. *)
Put(new) ==
    /\ puts < MaxPuts[suspends]
    /\ puts' = puts + 1
    /\ step' = puts'
    /\ ran' = {}
    /\ versions' = [c \in Channel |-> IF c \in new THEN puts' ELSE versions[c]]
    /\ calls' = Append(calls, [kind |-> "put", id |-> puts', new |-> new,
                               versions |-> versions', task |-> "none",
                               loaded |-> FALSE, copy |-> NoDoc])

(* The first checkpoint of a run without a document. *)
Start ==
    /\ step = 0 /\ doc = NoDoc
    /\ Put(Channel)
    /\ UNCHANGED <<suspends, doc, acked, crashes>>

(* aget_tuple: the run goes on from the document; a task whose writes are
   pending there does not run again. *)
Resume ==
    /\ step = 0 /\ doc # NoDoc
    /\ step' = doc.id
    /\ versions' = doc.versions
    /\ ran' = {t \in Task : \E w \in doc.writes : w.id = doc.id /\ w.task = t}
    /\ UNCHANGED <<suspends, doc, calls, puts, acked, crashes>>

(* A task ends and the graph calls aput_writes. *)
TaskEnds(t) ==
    /\ step # 0 /\ t \notin ran
    /\ ran' = ran \cup {t}
    /\ calls' = Append(calls, [kind |-> "writes", id |-> step, new |-> {},
                               versions |-> versions, task |-> t,
                               loaded |-> FALSE, copy |-> NoDoc])
    /\ UNCHANGED <<suspends, doc, step, versions, puts, acked, crashes>>

(* All tasks have ended: the next checkpoint. *)
StepEnds ==
    /\ step # 0 /\ ran = Task
    /\ \E new \in SUBSET Channel \ {{}} : Put(new)
    /\ UNCHANGED <<suspends, doc, acked, crashes>>

------------------------------------------------------------------------------
(* What the store does with the i-th call, given the document it loaded. *)

(* Mutant: the blobs of unchanged channels are dropped. *)
NextDoc_NoBlobs(call, copy) ==
    [id |-> call.id, versions |-> call.versions,
     blobs |-> {<<c, call.id>> : c \in call.new}, writes |-> {}]

(* aput: the blobs of earlier checkpoints are kept, the writes are not. *)
NextDoc(call, copy) ==
    [id |-> call.id, versions |-> call.versions,
     blobs |-> copy.blobs \cup {<<c, call.id>> : c \in call.new}, writes |-> {}]

Write(call, i) == [id |-> call.id, task |-> call.task, channel |-> Writes[call.task][i], idx |-> i]

(* Mutant: the document takes the checkpoint id of the call. *)
WithWrites_Stamps(call, copy) ==
    [copy EXCEPT !.id = call.id, !.writes = @ \cup {Write(call, i) : i \in DOMAIN Writes[call.task]}]

(* Mutant: the writes replace those of other tasks. *)
WithWrites_Replaces(call, copy) ==
    [copy EXCEPT !.writes = {Write(call, i) : i \in DOMAIN Writes[call.task]}]

(* Of the writes of a task to one channel the first one is kept, or the last one
   if the channel is special. *)
Kept(t, i) ==
    \A j \in DOMAIN Writes[t] : Writes[t][j] = Writes[t][i] =>
        IF Writes[t][i] \in Special THEN j <= i ELSE i <= j

(* aput_writes keeps one write for each task and channel; only one to a special
   channel replaces one that is there. *)
WithWrites(call, copy) ==
    LET key(x) == <<x.id, x.task, x.channel>>
        new    == {w \in {Write(call, i) : i \in {j \in DOMAIN Writes[call.task] : Kept(call.task, j)}} :
                      w.channel \in Special \/ \A x \in copy.writes : key(x) # key(w)}
    IN  [copy EXCEPT !.writes =
            {x \in @ : \A y \in new : key(x) # key(y)} \cup new]

(* Mutant: pending writes are saved before there is a checkpoint. *)
Saved_Always(call, copy) ==
    IF call.kind = "put" THEN NextDoc(call, copy) ELSE WithWrites(call, copy)

(* The document that is saved; without a document aput_writes does nothing. *)
Saved(call, copy) ==
    CASE call.kind = "put"                    -> NextDoc(call, copy)
      [] call.kind # "put" /\ copy # NoDoc     -> WithWrites(call, copy)
      [] OTHER                                -> doc

Drop(i) == SubSeq(calls, 1, i - 1) \o SubSeq(calls, i + 1, Len(calls))

Acked(call) == IF call.kind = "writes" THEN acked \cup {<<call.id, call.task>>} ELSE acked

(* Over the in-memory store the calls run one after the other. *)
CallRuns ==
    /\ ~suspends /\ calls # <<>>
    /\ doc' = Saved(Head(calls), doc)
    /\ acked' = Acked(Head(calls))
    /\ calls' = Tail(calls)
    /\ UNCHANGED <<suspends, graph, crashes>>

(* Over SQLite each call has two hops; an aput waits for the one before it. *)
MayLoad(i) ==
    /\ ~calls[i].loaded
    /\ calls[i].kind = "put" => \A j \in 1 .. i - 1 : calls[j].kind # "put"

CallLoads(i) ==
    /\ suspends /\ MayLoad(i)
    /\ calls' = [calls EXCEPT ![i].loaded = TRUE, ![i].copy = doc]
    /\ UNCHANGED <<suspends, doc, graph, acked, crashes>>

CallSaves(i) ==
    /\ suspends /\ calls[i].loaded
    /\ doc' = Saved(calls[i], calls[i].copy)
    /\ acked' = Acked(calls[i])
    /\ calls' = Drop(i)
    /\ UNCHANGED <<suspends, graph, crashes>>

(* The run dies, with the calls under way. *)
Crash ==
    /\ step # 0 /\ crashes < MaxCrashes
    /\ crashes' = crashes + 1
    /\ step' = 0 /\ ran' = {} /\ calls' = <<>>
    /\ versions' = [c \in Channel |-> 0]
    /\ UNCHANGED <<suspends, doc, puts, acked>>

Next ==
    \/ Start \/ Resume \/ StepEnds \/ CallRuns \/ Crash
    \/ \E t \in Task : TaskEnds(t)
    \/ \E i \in DOMAIN calls : CallLoads(i) \/ CallSaves(i)

Spec == Init /\ [][Next]_vars

------------------------------------------------------------------------------
Ids == 0 .. MaxPuts[suspends]

(* Every variable has its type. *)
TypeOK ==
    /\ doc.id \in Ids /\ doc.versions \in [Channel -> Ids]
    /\ doc.blobs \subseteq Channel \X Ids
    /\ \A w \in doc.writes : w.id \in Ids \ {0} /\ w.task \in Task /\ w.channel \in Channel
    /\ doc.id = 0 => doc = NoDoc
    /\ step \in Ids /\ versions \in [Channel -> Ids] /\ ran \subseteq Task
    /\ acked \subseteq Ids \X Task
    /\ \A i \in DOMAIN calls : calls[i].kind \in {"put", "writes"} /\ calls[i].id \in Ids

(* Whatever calls overlap, the document is one checkpoint: it holds the values
   of the channels that this checkpoint changed, and none of a later one. *)
OneCheckpoint ==
    /\ \A c \in Channel : doc.versions[c] = doc.id /\ doc.id # 0 => <<c, doc.id>> \in doc.blobs
    /\ \A blob \in doc.blobs : blob[2] <= doc.id

(* "Preserve blobs from prior checkpoints for channels whose version did not
   change": over the in-memory store, the document can give the value of every
   channel of its checkpoint, so a resumed run misses none. *)
ChannelsComplete ==
    ~suspends /\ doc # NoDoc => \A c \in Channel : <<c, doc.versions[c]>> \in doc.blobs

(* Over the in-memory store, while the checkpoint a task ran for is the stored
   one, every write to be kept that the saver accepted from the task is in it:
   "channel blobs and pending writes" survive a crash. *)
AckedWritesKept ==
    ~suspends => \A t \in Task : \A i \in DOMAIN Writes[t] :
        <<doc.id, t>> \in acked /\ Kept(t, i) =>
            [id |-> doc.id, task |-> t, channel |-> Writes[t][i], idx |-> i] \in doc.writes

(* Over the in-memory store, a resumed run does not run a task again whose
   writes were accepted. *)
RunsOnce ==
    \A t \in Task : ~suspends /\ t \in ran' \ ran /\ step' = step => <<step, t>> \notin acked

------------------------------------------------------------------------------
(* The inductive invariant: what is known of the documents, stored and loaded,
   and of the calls that are under way.                                      *)
Document == [id : Ids, versions : [Channel -> Ids], blobs : SUBSET (Channel \X Ids),
             writes : SUBSET [id : Ids, task : Task, channel : Channel, idx : Nat]]

CallRecord == [kind : {"put", "writes"}, id : Ids, new : SUBSET Channel,
               versions : [Channel -> Ids], task : Task \cup {"none"},
               loaded : BOOLEAN, copy : Document]

Shaped ==
    /\ suspends \in Suspending
    /\ doc \in Document /\ calls \in Seq(CallRecord)
    /\ step \in 0 .. puts /\ puts \in Ids
    /\ versions \in [Channel -> Ids] /\ \A c \in Channel : versions[c] <= step
    /\ ran \subseteq Task /\ acked \subseteq Ids \X Task
    /\ step = 0 => calls = <<>>

(* A document that an aput has made. *)
Made(d) ==
    /\ d.id <= puts
    /\ d.id = 0 => d = NoDoc
    /\ \A c \in Channel : d.versions[c] <= d.id
    /\ \A c \in Channel : d.versions[c] = d.id /\ d.id # 0 => <<c, d.id>> \in d.blobs
    /\ \A blob \in d.blobs : blob[2] <= d.id
    /\ \A w \in d.writes :
          /\ w.id # 0 /\ w.idx \in DOMAIN Writes[w.task]
          /\ w.channel = Writes[w.task][w.idx] /\ Kept(w.task, w.idx)

IsPut(i) == calls[i].kind = "put"

Asked(i) ==
    /\ calls[i].id \in 1 .. puts
    /\ Made(calls[i].copy)
    /\ IsPut(i) => \A c \in Channel :
          /\ calls[i].versions[c] <= calls[i].id
          /\ calls[i].versions[c] = calls[i].id => c \in calls[i].new
    /\ ~IsPut(i) => calls[i].task \in Task

(* Checkpoints are put in the order of their numbers: none that is still to be
   put was stored or loaded by another call. *)
InOrder(i) == IsPut(i) =>
    /\ doc.id < calls[i].id
    /\ \A j \in DOMAIN calls : calls[j].copy.id < calls[i].id
    /\ \A j \in DOMAIN calls : j < i /\ IsPut(j) => calls[j].id < calls[i].id /\ ~calls[i].loaded

(* In memory: after the first n calls there is a value of this version. *)
Available(c, v, n) ==
    \/ <<c, v>> \in doc.blobs
    \/ \E j \in DOMAIN calls : j <= n /\ IsPut(j) /\ c \in calls[j].new /\ calls[j].id = v

(* In memory: after the first n calls the document is as new as that. *)
Reached(id, n) ==
    id <= doc.id \/ \E j \in DOMAIN calls : j <= n /\ IsPut(j) /\ calls[j].id = id

(* Of every channel that an accepted task wrote, a write is there. *)
Recorded ==
    \A t \in Task : <<doc.id, t>> \in acked =>
        \A i \in DOMAIN Writes[t] :
            \E w \in doc.writes : w.id = doc.id /\ w.task = t /\ w.channel = Writes[t][i]

InMemory == ~suspends =>
    /\ ChannelsComplete
    /\ \A i \in DOMAIN calls, c \in Channel : IsPut(i) => Available(c, calls[i].versions[c], i)
    /\ step # 0 => \A c \in Channel : Available(c, versions[c], Len(calls))
    /\ \A i \in DOMAIN calls : Reached(calls[i].id, i)
    /\ step # 0 => Reached(step, Len(calls))
    /\ \A t \in Task, id \in Ids : <<id, t>> \in acked => id <= doc.id
    /\ Recorded
    /\ step # 0 => \A t \in Task : <<step, t>> \in acked => t \in ran
    /\ step # 0 => \A i \in DOMAIN calls :
          ~IsPut(i) /\ calls[i].id = step => calls[i].task \in ran

IInv ==
    /\ Shaped /\ Made(doc)
    /\ \A i \in DOMAIN calls : Asked(i) /\ InOrder(i)
    /\ InMemory
==============================================================================
