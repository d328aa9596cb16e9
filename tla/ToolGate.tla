------------------------------ MODULE ToolGate ------------------------------
(***************************************************************************)
(* GovernedTool (trust.py) under the tool timeout of an agent: approval by *)
(* a policy and by a human (tool.py), the tool itself, and the audit.  The *)
(* tools on offer are those of the skills that were selected (skill.py).   *)
(* An abandoned call goes on in its thread.                                *)
(***************************************************************************)
EXTENDS Integers, Sequences, FiniteSets

CONSTANTS
    Call,
    Effectful, ReadOnly,        \* tools by their declared effect
    SkillTools,                 \* the tools of each skill
    MaxFaults                   \* bound of the model: audit events lost

VARIABLES
    setup,      \* skills whose keywords occur; a handler for approvals is set
    call,       \* phase and tool of each call, and whether it is waited for
    events,     \* audit events of each call
    consented,  \* calls the policy or the human allowed
    ran,        \* calls whose tool took effect
    faults

vars == <<setup, call, events, consented, ran, faults>>

Skill == DOMAIN SkillTools
Tool == Effectful \cup ReadOnly

Init ==
    /\ setup \in [chosen : SUBSET Skill, human : BOOLEAN]
    /\ call = [c \in Call |-> [phase |-> "idle"]]
    /\ events = [c \in Call |-> <<>>]
    /\ consented = {} /\ ran = {} /\ faults = 0

(* SkillfulAgent.run: base tools and those of the selected skills. *)
Offered == (Tool \ UNION {SkillTools[k] : k \in Skill})
              \cup UNION {SkillTools[k] : k \in setup.chosen}

Phase(c, phase) == call' = [call EXCEPT ![c].phase = phase]

(* _record: an event the sink refuses is lost and nothing else happens. *)
Record(c, kinds) ==
    \/ events' = [events EXCEPT ![c] = @ \o kinds] /\ UNCHANGED faults
    \/ /\ faults < MaxFaults /\ faults' = faults + 1
       /\ events' = [events EXCEPT ![c] = @ \o Tail(kinds)]

(* The model calls a tool that is on offer. *)
Start(c, tool) ==
    /\ call[c].phase = "idle" /\ tool \in Offered
    /\ call' = [call EXCEPT ![c] = [phase |-> "policy", tool |-> tool, awaited |-> TRUE,
                                    result |-> "none"]]
    /\ Record(c, <<"tool.start">>)
    /\ UNCHANGED <<setup, consented, ran>>

(* The finally clause: tool.end with what became of the call. *)
Over(c, result) ==
    call' = [call EXCEPT ![c].phase = "over", ![c].result = result]

Denied(c) ==
    /\ Over(c, "denied")
    /\ Record(c, <<"tool.denied", "tool.end denied">>)
    /\ UNCHANGED <<setup, consented, ran>>

Allowed(c) ==
    /\ Phase(c, "run")
    /\ consented' = consented \cup {c}
    /\ UNCHANGED <<setup, events, ran, faults>>

(* DenyEffectfulTools, then HumanApprovalToolApprover if there is a handler. *)
Policy(c) ==
    /\ call[c].phase = "policy"
    /\ \/ call[c].tool \in ReadOnly /\ Allowed(c)
       \/ call[c].tool \in Effectful /\ ~setup.human /\ Denied(c)
       \/ /\ call[c].tool \in Effectful /\ setup.human
          /\ Phase(c, "human")
          /\ UNCHANGED <<setup, events, consented, ran, faults>>

(* Mutant: whatever the human says. *)
Human_Ignored(c, yes) ==
    /\ call[c].phase = "human"
    /\ Phase(c, "run")
    /\ consented' = IF yes THEN consented \cup {c} ELSE consented
    /\ UNCHANGED <<setup, events, ran, faults>>

(* The answer may come long after the agent stopped waiting. *)
Human(c, yes) ==
    /\ call[c].phase = "human"
    /\ IF yes THEN Allowed(c) ELSE Denied(c)

(* The tool: a result, a result that says error, or an exception. *)
Invoke(c, result) ==
    /\ call[c].phase = "run"
    /\ ran' = ran \cup {c}
    /\ Over(c, result)
    /\ Record(c, <<IF result = "ok" THEN "tool.end completed" ELSE "tool.end error">>)
    /\ UNCHANGED <<setup, consented>>

(* The approver raises: tool.end is recorded on the way out. *)
ApprovalBreaks(c) ==
    /\ call[c].phase \in {"policy", "human"}
    /\ Over(c, "raised")
    /\ Record(c, <<"tool.end error">>)
    /\ UNCHANGED <<setup, consented, ran>>

(* The tool timeout of the agent: the model is told, the thread goes on. *)
Abandon(c) ==
    /\ call[c].phase \in {"policy", "human", "run"} /\ call[c].awaited
    /\ call' = [call EXCEPT ![c].awaited = FALSE]
    /\ UNCHANGED <<setup, events, consented, ran, faults>>

Next ==
    \E c \in Call :
        \/ \E tool \in Tool : Start(c, tool)
        \/ Policy(c) \/ ApprovalBreaks(c) \/ Abandon(c)
        \/ \E yes \in BOOLEAN : Human(c, yes)
        \/ \E result \in {"ok", "error", "raised"} : Invoke(c, result)

Spec == Init /\ [][Next]_vars

------------------------------------------------------------------------------
EventsOf(result) ==
    CASE result = "denied" -> <<"tool.start", "tool.denied", "tool.end denied">>
      [] result = "ok" -> <<"tool.start", "tool.end completed">>
      [] OTHER -> <<"tool.start", "tool.end error">>

(* A tool runs only if its own call was allowed, an effectful one only by a
   human, whoever still waits for it; a call that was denied or broke off in the
   approval has no effect; and unless the sink refused an event, the audit of a
   call that is over is complete and says what happened. *)
ConsentedAndAudited ==
    \A c \in Call :
        /\ c \in ran => c \in consented
        /\ c \in ran /\ call[c].tool \in Effectful => setup.human
        /\ call[c].phase = "over" =>
              /\ call[c].result \in {"ok", "error"} => c \in ran
              /\ call[c].result = "denied" => c \notin consented
              /\ faults = 0 => events[c] = EventsOf(call[c].result)

------------------------------------------------------------------------------
(* What the property rests on. *)
Event == {"tool.start", "tool.denied", "tool.end denied", "tool.end completed",
          "tool.end error"}
Result == {"none", "denied", "ok", "error", "raised"}

CallRecord ==
    {[phase |-> "idle"]}
    \cup [phase : {"policy", "human", "run", "over"}, tool : Tool, awaited : BOOLEAN,
          result : Result]

TypeOK ==
    /\ setup \in [chosen : SUBSET Skill, human : BOOLEAN]
    /\ call \in [Call -> CallRecord]
    /\ events \in [Call -> Seq(Event)]
    /\ consented \subseteq Call
    /\ ran \subseteq Call
    /\ faults \in Nat

(* A call has run only if it is over, and was allowed before it runs. *)
Progressed(c) ==
    /\ call[c].phase \in {"idle", "policy", "human"} => c \notin ran /\ c \notin consented
    /\ call[c].phase = "run" => c \notin ran /\ c \in consented
    /\ c \in ran => c \in consented

(* What may have an effect is waiting for the human, or passed one. *)
Asked(c) ==
    (call[c].phase = "human" \/ c \in consented) /\ call[c].tool \in Effectful => setup.human

(* A call that is over has the result that its audit tells. *)
Reported(c) ==
    /\ call[c].phase = "over" =>
          /\ call[c].result # "none"
          /\ call[c].result \in {"ok", "error"} => c \in ran
          /\ call[c].result = "denied" => c \notin consented
    /\ faults = 0 =>
          /\ call[c].phase = "idle" => events[c] = <<>>
          /\ call[c].phase \in {"policy", "human", "run"} => events[c] = <<"tool.start">>
          /\ call[c].phase = "over" => events[c] = EventsOf(call[c].result)

IInv == TypeOK /\ \A c \in Call : Progressed(c) /\ Asked(c) /\ Reported(c)
==============================================================================
