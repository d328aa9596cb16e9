------------------------------ MODULE Workflow ------------------------------
(***************************************************************************)
(* recoverable_agent (langgraph.py): LangGraphAgent over a graph of one    *)
(* node, whose checkpoints are in an InMemoryCheckpointStore               *)
(* (checkpoint.py) that many threads share and that drops the thread that  *)
(* came first when it is full.  No lock keeps the calls of a session       *)
(* apart: they may overlap at every await.  What LangGraph does in ainvoke *)
(* and aget_state is modelled from how the adapter uses it.                *)
(***************************************************************************)
EXTENDS Integers, Sequences, FiniteSets, SequencesExt, Functions

CONSTANTS
    Thread,
    MaxEntries,         \* max_entries of the store
    MaxCalls            \* bound of the model

VARIABLES
    interrupting,   \* interrupt_before = ["agent"]
    order,          \* threads in the store, first inserted first
    saved,          \* the checkpoint of each thread: input, next
    run,            \* what each call is doing
    asked,          \* the question of each thread that has no answer yet
    reply,          \* the last response of each thread
    loose,          \* threads whose question is no longer sure: the store dropped
                    \* them, or calls of theirs overlapped
    answered        \* the questions that a node has answered

vars == <<interrupting, order, saved, run, asked, reply, loose, answered>>

(* A question is known by the call that asks it. *)
Invocation == 1 .. MaxCalls
Empty == 0
Idle == [phase |-> "idle"]
Over(t) == [phase |-> "over", thread |-> t]

Init ==
    /\ interrupting \in BOOLEAN
    /\ order = <<>> /\ saved = <<>>
    /\ run = [c \in Invocation |-> Idle]
    /\ asked = [t \in Thread |-> Empty]
    /\ reply = [t \in Thread |-> "none"]
    /\ loose = {} /\ answered = {}

UnderWay(t) == {c \in Invocation : run[c].phase \in {"begun", "node", "check"} /\ run[c].thread = t}

(* aget_state: no checkpoint is a graph with nothing to do next. *)
Pending(t) == t \in DOMAIN saved /\ saved[t].next

(* InMemoryCheckpointStore.save: a thread that is known keeps its place; the
   first one goes when there are too many, whatever it is doing. *)
Save(t, c, sure) ==
    LET known == IF t \in DOMAIN saved THEN order ELSE Append(order, t)
        kept  == IF Len(known) > MaxEntries THEN Tail(known) ELSE known
    IN  /\ order' = kept
        /\ saved' = [u \in ToSet(kept) |-> IF u = t THEN c ELSE saved[u]]
        /\ loose' = (loose \ sure) \cup (ToSet(known) \ ToSet(kept))

(* Mutant: a call without input always begins a new turn. *)
Resumes_Never(t, input) == FALSE

(* run(): a call without input goes on with what is next. *)
Resumes(t, input) == Pending(t) /\ input = Empty

(* run() up to aget_state. *)
Begin(c, t, input) ==
    /\ run[c] = Idle /\ \A d \in 1 .. c - 1 : run[d] # Idle
    /\ run' = [run EXCEPT ![c] = [phase |-> "begun", thread |-> t, input |-> input,
                                  resumes |-> Resumes(t, input)]]
    /\ reply' = [reply EXCEPT ![t] = "none"]
    /\ loose' = IF UnderWay(t) = {} THEN loose ELSE loose \cup {t}
    /\ UNCHANGED <<interrupting, order, saved, asked, answered>>

Reply(c, reason) ==
    /\ run' = [run EXCEPT ![c] = Over(run[c].thread)]
    /\ reply' = [reply EXCEPT ![run[c].thread] = reason]

At(c, phase, input) ==
    run' = [run EXCEPT ![c] = [phase |-> phase, thread |-> run[c].thread, input |-> input]]

(* ainvoke with a new turn: the input is written over the old one and the node
   comes next.  A question that is asked alone is sure again. *)
Invoke(c) ==
    /\ run[c].phase = "begun" /\ ~run[c].resumes
    /\ LET t == run[c].thread
           input == run[c].input
       IN  /\ Save(t, [input |-> input, next |-> TRUE],
                   IF input # Empty /\ UnderWay(t) = {c} THEN {t} ELSE {})
           /\ At(c, IF interrupting THEN "check" ELSE "node", input)
           /\ asked' = [asked EXCEPT ![t] = IF input = Empty THEN @ ELSE input]
    /\ UNCHANGED <<interrupting, reply, answered>>

(* ainvoke(None): the node that is next; nothing, when another call was faster; or an
   error, when the checkpoint is gone. *)
Resume(c) ==
    /\ run[c].phase = "begun" /\ run[c].resumes
    /\ LET t == run[c].thread
       IN  \/ Pending(t) /\ At(c, "node", saved[t].input) /\ UNCHANGED reply
           \/ t \in DOMAIN saved /\ ~Pending(t) /\ At(c, "check", Empty) /\ UNCHANGED reply
           \/ t \notin DOMAIN saved /\ Reply(c, "model_error")
    /\ UNCHANGED <<interrupting, order, saved, asked, loose, answered>>

(* The agent answers; its verdict is not part of the state of the graph. *)
NodeEnds(c) ==
    /\ run[c].phase = "node"
    /\ LET t == run[c].thread
           input == run[c].input
       IN  /\ Save(t, [input |-> input, next |-> FALSE], {})
           /\ At(c, "check", Empty)
           /\ asked' = [asked EXCEPT ![t] = IF @ = input THEN Empty ELSE @]
           /\ answered' = answered \cup ({input} \ {Empty})
    /\ UNCHANGED <<interrupting, reply>>

(* The second aget_state: something that is still next is an interrupt. *)
Check(c) ==
    /\ run[c].phase = "check"
    /\ Reply(c, IF Pending(run[c].thread) THEN "interrupted" ELSE "completed")
    /\ UNCHANGED <<interrupting, order, saved, asked, loose, answered>>

(* The agent raises: a model_error, and the node is still next. *)
NodeRaises(c) ==
    /\ run[c].phase = "node"
    /\ Reply(c, "model_error")
    /\ UNCHANGED <<interrupting, order, saved, asked, loose, answered>>

(* The caller is gone. *)
Cancelled(c) ==
    /\ run[c].phase \in {"begun", "node", "check"}
    /\ Reply(c, "none")
    /\ UNCHANGED <<interrupting, order, saved, asked, loose, answered>>

Next ==
    \E c \in Invocation :
        \/ \E t \in Thread, input \in {c, Empty} : Begin(c, t, input)
        \/ Invoke(c) \/ Resume(c) \/ NodeEnds(c) \/ Check(c) \/ NodeRaises(c) \/ Cancelled(c)

Spec == Init /\ [][Next]_vars

------------------------------------------------------------------------------
(* "can be resumed after a crash or interrupt": the question of a thread that was asked
   alone and was not dropped is still there when it was interrupted, failed or broken
   off; a call without input answers it, not another one; and a turn that is completed
   leaves no question behind.  Of any thread, also one whose calls overlap: a question
   that has been answered is not waiting to be resumed. *)
ResumeKeepsQuestion ==
    /\ \A t \in Thread \ loose :
          /\ \A c \in UnderWay(t) :
                run[c].phase = "node" /\ asked[t] # Empty => run[c].input = asked[t]
          /\ UnderWay(t) = {} /\ asked[t] # Empty => Pending(t) /\ saved[t].input = asked[t]
          /\ UnderWay(t) = {} /\ reply[t] = "completed" => asked[t] = Empty
    /\ \A t \in DOMAIN saved : saved[t].next => saved[t].input \notin answered

(* Calls of a session may overlap without loss. *)
OverlapKeepsQuestion ==
    \A t \in DOMAIN saved :
        UnderWay(t) = {} /\ asked[t] # Empty => Pending(t) /\ saved[t].input = asked[t]

------------------------------------------------------------------------------
(* What the property rests on: the store holds a checkpoint of each thread in
   its order; a question without an answer is in the checkpoint, with the
   node still to come, whatever the thread is doing; and a question is nowhere before
   it is invoked, and then in its thread only. *)
Shaped ==
    /\ order \in Seq(Thread)
    /\ saved = [t \in ToSet(order) |-> saved[t]]
    /\ run = [c \in Invocation |-> run[c]]
    /\ asked = [t \in Thread |-> asked[t]]
    /\ reply = [t \in Thread |-> reply[t]]
    /\ \A c \in Invocation : run[c] # Idle => run[c].thread \in Thread

QuestionSaved ==
    \A t \in Thread \ loose :
        /\ asked[t] # Empty => t \in ToSet(order) /\ saved[t].next /\ saved[t].input = asked[t]
        /\ \A c, d \in UnderWay(t) : c = d
        /\ \A c \in UnderWay(t) :
              /\ run[c].phase = "node" /\ asked[t] # Empty => run[c].input = asked[t]
              /\ run[c].phase = "begun" /\ ~run[c].resumes /\ run[c].input = Empty => asked[t] = Empty
        /\ UnderWay(t) = {} /\ reply[t] = "completed" => asked[t] = Empty

(* Where a question is: in a call's node or a checkpoint. *)
Holds(t, q) == t \in ToSet(order) /\ saved[t].input = q
Works(c, q) == run[c].phase = "node" /\ run[c].input = q

QuestionsPlaced ==
    /\ answered \subseteq Invocation
    /\ \A t \in ToSet(order) : saved[t].input \in {Empty} \cup Invocation
    /\ \A c \in Invocation : run[c].phase = "node" => run[c].input \in {Empty} \cup Invocation
    /\ \A c \in Invocation : run[c].phase = "begun" => run[c].input \in {Empty, c}
    /\ \A q \in Invocation :
          /\ run[q].phase \in {"idle", "begun"} => q \notin answered
          /\ \A t \in Thread : Holds(t, q) =>
                /\ run[q].phase \notin {"idle", "begun"} /\ run[q].thread = t
                /\ saved[t].next => q \notin answered
          /\ \A c \in Invocation : Works(c, q) =>
                run[q].phase \notin {"idle", "begun"} /\ run[q].thread = run[c].thread

IInv == Shaped /\ QuestionSaved /\ QuestionsPlaced
=============================================================================
