-------------------------------- MODULE Core --------------------------------
(***************************************************************************)
(* The parts of the library that share no state, one beside the other: a   *)
(* behaviour is one of one part, which `part` names.  The idempotent agent *)
(* has its own variables; s1, s2, ... are those of the other parts.  A     *)
(* constant that two parts have, such as the bound of a store, is one.     *)
(***************************************************************************)
EXTENDS IdempotentAgent, Integers, FiniteSets

CONSTANTS
    Task, Channel, Special, Writes, Suspending, MaxPuts, MaxCrashes,    \* saver
    Process, Session, Lengths, MaxTurns, MaxDeletes,                    \* memory
    Thread, MaxCalls,                                                   \* threads
    Call, Effectful, ReadOnly, SkillTools,                              \* gate
    Runs, Tenant, Words, MaxTries, RecallLimit, MaxRetries, MaxReflections, \* reflection
    Limit, Cost, MaxAttempts, MaxSteps, MaxRuns,                        \* budget
    Size, Budgets,                                                      \* teams
    MaxFaults                           \* of the memory and of the gate

(* The saver is called with the channels of the graph, and by a task that wrote. *)
ASSUME SaverAssumption ==
    /\ Suspending \subseteq BOOLEAN /\ MaxPuts \in [BOOLEAN -> Nat]
    /\ Writes \in [Task -> Seq(Channel)] /\ \A t \in Task : Writes[t] # <<>>
ASSUME LengthsAssumption == Lengths \subseteq Nat
ASSUME BudgetAssumption ==
    IsFiniteSet(Runs) /\ Limit \in Int /\ Cost \in Nat /\ MaxSteps \in Nat \ {0}
(* A text has a word in common with itself. *)
ASSUME LessonsAssumption ==
    /\ \A t \in DOMAIN Words : Words[t] # {}
    /\ MaxTries \in Nat \ {0} /\ RecallLimit \in Nat
ASSUME CallsAssumption == MaxCalls \in Nat
ASSUME EffectsAssumption == Effectful \cap ReadOnly = {}

VARIABLES part, s1, s2, s3, s4, s5, s6, s7, s8, s9
others == <<s1, s2, s3, s4, s5, s6, s7, s8, s9>>
all    == <<part, vars, others>>

Saver == INSTANCE CheckpointSaver WITH
    suspends <- s1, doc <- s2, calls <- s3, step <- s4, versions <- s5,
    ran <- s6, acked <- s7, puts <- s8, crashes <- s9

Memory == INSTANCE SqliteMemory WITH
    rows <- s1, turn <- s2, ended <- s3, turns <- s4, deletes <- s5, faults <- s6

Threads == INSTANCE Workflow WITH
    interrupting <- s1, order <- s2, saved <- s3, run <- s4, asked <- s5,
    reply <- s6, loose <- s7, answered <- s8

Gate == INSTANCE ToolGate WITH
    setup <- s1, call <- s2, events <- s3, consented <- s4, ran <- s5, faults <- s6

Reflection == INSTANCE Learning WITH
    MaxAttempts <- MaxTries, MaxRuns <- MaxReflections,
    entries <- s1, recorded <- s2, run <- s3, asked <- s4, begun <- s5

Budget == INSTANCE ModelCalls WITH
    total <- s1, billed <- s2, late <- s3, run <- s4, begun <- s5

Teams == INSTANCE Delegation WITH
    team <- s1, steps <- s2, next <- s3, answer <- s4

-----------------------------------------------------------------------------
Unused(used) ==
    /\ used < 9 => s9 = 0
    /\ used < 8 => s8 = 0
    /\ used < 7 => s7 = 0
    /\ used < 6 => s6 = 0
    /\ used < 5 => s5 = 0

CoreInit ==
    /\ Init
    /\ \/ part = "idempotent" /\ s1 = 0 /\ s2 = 0 /\ s3 = 0 /\ s4 = 0 /\ Unused(4)
       \/ part = "saver" /\ Saver!Init
       \/ part = "memory" /\ Memory!Init /\ Unused(6)
       \/ part = "threads" /\ Threads!Init /\ Unused(8)
       \/ part = "gate" /\ Gate!Init /\ Unused(6)
       \/ part = "reflection" /\ Reflection!Init /\ Unused(5)
       \/ part = "budget" /\ Budget!Init /\ Unused(5)
       \/ part = "teams" /\ Teams!Init /\ Unused(4)

CoreNext ==
    \/ part = "idempotent" /\ Next /\ UNCHANGED <<part, others>>
    \/ part = "saver" /\ Saver!Next /\ UNCHANGED <<part, vars>>
    \/ part = "memory" /\ Memory!Next /\ UNCHANGED <<part, vars, s7, s8, s9>>
    \/ part = "threads" /\ Threads!Next /\ UNCHANGED <<part, vars, s9>>
    \/ part = "gate" /\ Gate!Next /\ UNCHANGED <<part, vars, s7, s8, s9>>
    \/ part = "reflection" /\ Reflection!Next /\ UNCHANGED <<part, vars, s6, s7, s8, s9>>
    \/ part = "budget" /\ Budget!Next /\ UNCHANGED <<part, vars, s6, s7, s8, s9>>
    \/ part = "teams" /\ Teams!Next /\ UNCHANGED <<part, vars, s5, s6, s7, s8, s9>>

(* Only the parts whose liveness is checked are fair. *)
CoreSpec ==
    /\ CoreInit /\ [][CoreNext]_all
    /\ WF_all(part = "teams" /\ Teams!Next /\ UNCHANGED <<part, vars, s5, s6, s7, s8, s9>>)
    /\ \A r \in Runs :
          WF_all(part = "budget" /\ Budget!Progress(r) /\ UNCHANGED <<part, vars, s6, s7, s8, s9>>)

-----------------------------------------------------------------------------
(* The document of a thread is one checkpoint with all its channels and every
   write that was accepted for it. *)
CheckpointWhole ==
    part = "saver" =>
        Saver!TypeOK /\ Saver!OneCheckpoint /\ Saver!ChannelsComplete /\ Saver!AckedWritesKept

(* A resumed run does not run a task again whose writes were accepted. *)
NoTaskRunsTwice == [][part = "saver" => Saver!RunsOnce]_all

(* Turns that two processes end on one SQLite file are whole or not there, and
   one is lost only to another process. *)
TurnsAreWhole == part = "memory" => Memory!TurnsAreWhole /\ Memory!LostToAnotherProcess

(* A thread that was interrupted or broken off keeps its question. *)
ResumeKeepsQuestion == part = "threads" => Threads!ResumeKeepsQuestion

(* Nothing takes effect without the consent its effect asks for, and the audit
   says what happened. *)
ConsentedAndAudited == part = "gate" => Gate!ConsentedAndAudited

(* Lessons stay with their tenant and reach every later attempt of their run. *)
LessonsApplied == part = "reflection" => Reflection!LessonsApplied

(* Concurrent runs overrun the budget by what they had begun, no more. *)
OverrunBounded == part = "budget" => Budget!OverrunBounded

(* No model keeps a run for ever. *)
RunsEnd == \A r \in Runs :
    (part = "budget" /\ s4[r].phase = "call") ~> (part = "budget" /\ Budget!Over(r))

(* Every team comes to an answer within its budget, and a block is that answer. *)
TeamAnswers == (part = "teams") ~> (part = "teams" /\ Teams!Settled)
=============================================================================
