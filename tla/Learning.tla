------------------------------ MODULE Learning ------------------------------
(***************************************************************************)
(* ReflectiveAgent (learn.py): runs of several tenants that share one      *)
(* InMemoryEpisodicStore (episodic.py).  The verdict on an answer comes    *)
(* from extract_structured (structured.py): a model that may not be able   *)
(* to say it in JSON.                                                      *)
(***************************************************************************)
EXTENDS Integers, Sequences, SequencesExt

CONSTANTS
    Runs, Tenant,
    Words,                      \* the words of each task
    MaxAttempts, RecallLimit,   \* max_attempts, recall_limit
    MaxEntries, MaxRetries,     \* max_entries of the store, max_retries
    MaxRuns                     \* bound of the model

VARIABLES
    entries,    \* the episodes that are kept, oldest first
    recorded,   \* number of episodes recorded so far: the lesson of the next one
    run,        \* each run: tenant, task, lessons, attempt and phase
    asked,      \* how often the model was asked for the present verdict
    begun

vars == <<entries, recorded, run, asked, begun>>

TaskText == DOMAIN Words
Idle == [phase |-> "idle"]

Init ==
    /\ entries = <<>> /\ recorded = 0
    /\ run = [r \in Runs |-> Idle]
    /\ asked = [r \in Runs |-> 0]
    /\ begun = 0

(* _matches: a word in common, or one text within the other. *)
Matches(query, task) == Words[query] \cap Words[task] # {}

First(s, n) == SubSeq(s, 1, IF Len(s) < n THEN Len(s) ELSE n)

(* Mutant: the episodes of all tenants. *)
Recall_AnyTenant(tenant, query) ==
    First(SelectSeq(entries, LAMBDA e : Matches(query, e.task)), RecallLimit)

(* The episodes of a tenant that match, oldest first. *)
Found(tenant, query) ==
    LET found[n \in 0 .. Len(entries)] ==
          IF n = 0 THEN <<>>
          ELSE IF entries[n].tenant = tenant /\ Matches(query, entries[n].task)
               THEN Append(found[n - 1], entries[n])
               ELSE found[n - 1]
    IN  found[Len(entries)]

(* recall: the first that match, which are the oldest. *)
Recall(tenant, query) == First(Found(tenant, query), RecallLimit)

(* record: the oldest goes when there are too many. *)
Record(e) ==
    /\ entries' = LET all == Append(entries, e)
                  IN  SubSeq(all, IF Len(all) > MaxEntries THEN 2 ELSE 1, Len(all))
    /\ recorded' = recorded + 1

(* run(): recall, and format the lessons. *)
Begin(r, tenant, task) ==
    /\ run[r] = Idle /\ begun < MaxRuns
    /\ begun' = begun + 1
    /\ run' = [run EXCEPT ![r] =
                  [phase |-> "work", tenant |-> tenant, task |-> task, attempt |-> 1,
                   lessons |-> Recall(tenant, task), own |-> <<>>]]
    /\ UNCHANGED <<entries, recorded, asked>>

(* A new worker answers the task with the lessons. *)
Work(r) ==
    /\ run[r].phase = "work"
    /\ run' = [run EXCEPT ![r].phase = "reflect"]
    /\ asked' = [asked EXCEPT ![r] = 0]
    /\ UNCHANGED <<entries, recorded, begun>>

(* extract_structured: a text that is no verdict is fed back and asked again;
   after the last one there is no verdict, which passes as satisfactory. *)
Unreadable(r) ==
    /\ run[r].phase = "reflect"
    /\ asked' = [asked EXCEPT ![r] = @ + 1]
    /\ run' = IF asked[r] < MaxRetries THEN run ELSE [run EXCEPT ![r] = Idle]
    /\ UNCHANGED <<entries, recorded, begun>>

Satisfied(r) ==
    /\ run[r].phase = "reflect"
    /\ run' = [run EXCEPT ![r] = Idle]
    /\ UNCHANGED <<entries, recorded, asked, begun>>

(* Mutant: the next attempt knows the last lesson only. *)
Learned_LastOnly(r, e) ==
    [phase |-> "work", tenant |-> run[r].tenant, task |-> run[r].task,
     attempt |-> run[r].attempt + 1, lessons |-> <<e>>, own |-> Append(run[r].own, e)]

Learned(r, e) ==
    [phase |-> "work", tenant |-> run[r].tenant, task |-> run[r].task,
     attempt |-> run[r].attempt + 1,
     lessons |-> Append(run[r].lessons, e), own |-> Append(run[r].own, e)]

(* The lesson is recorded, also after the last attempt, which is returned. *)
Unsatisfied(r) ==
    LET e == [tenant |-> run[r].tenant, task |-> run[r].task, lesson |-> recorded]
    IN  /\ run[r].phase = "reflect"
        /\ Record(e)
        /\ run' = [run EXCEPT ![r] = IF run[r].attempt < MaxAttempts THEN Learned(r, e) ELSE Idle]
        /\ UNCHANGED <<asked, begun>>

(* The worker, the reflector or the store raises, or the caller gives up. *)
Breaks(r) ==
    /\ run[r] # Idle
    /\ run' = [run EXCEPT ![r] = Idle]
    /\ UNCHANGED <<entries, recorded, asked, begun>>

Next ==
    \/ \E r \in Runs, tenant \in Tenant, task \in TaskText : Begin(r, tenant, task)
    \/ \E r \in Runs : Work(r) \/ Unreadable(r) \/ Satisfied(r) \/ Unsatisfied(r) \/ Breaks(r)

Spec == Init /\ [][Next]_vars

------------------------------------------------------------------------------
(* "a lesson learned for one tenant is never surfaced to another", and a retry
   is made with every lesson of the run's earlier attempts, in their order,
   after those of similar tasks, whatever other runs have pushed out of the
   store since. *)
LessonsApplied ==
    \A r \in Runs : run[r] # Idle =>
        /\ \A i \in DOMAIN run[r].lessons :
              /\ run[r].lessons[i].tenant = run[r].tenant
              /\ Matches(run[r].task, run[r].lessons[i].task)
        /\ Len(run[r].own) = run[r].attempt - 1
        /\ run[r].attempt <= MaxAttempts
        /\ IsSuffix(run[r].own, run[r].lessons)
        /\ Len(run[r].lessons) <= RecallLimit + Len(run[r].own)

------------------------------------------------------------------------------
(* The inductive invariant. *)
Episode == [tenant : Tenant, task : TaskText, lesson : Nat]

Shaped ==
    /\ entries \in Seq(Episode) /\ recorded \in Nat
    /\ run \in [Runs -> {Idle} \cup
                 [phase : {"work", "reflect"}, tenant : Tenant, task : TaskText, attempt : Nat,
                  lessons : Seq(Episode), own : Seq(Episode)]]

IInv == Shaped /\ LessonsApplied
==============================================================================
