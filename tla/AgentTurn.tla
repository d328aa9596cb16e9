------------------------------ MODULE AgentTurn ------------------------------
(***************************************************************************)
(* Turns of one session through the governed agent: GovernedAgent.run      *)
(* (core/trust.py) around DefaultAgent.run (core/default_agent.py), the    *)
(* assembly of ProductionAgentRuntime.                                     *)
(*                                                                         *)
(* The session's lock (ConversationStore) serialises its turns, so one     *)
(* program counter is enough; what runs beside it are the deadline and its *)
(* timer, and the worker threads of tools, which a timeout or the deadline *)
(* abandons but cannot stop.  The memory is that of the in-memory store.   *)
(***************************************************************************)
EXTENDS Integers, Sequences, FiniteSets

CONSTANTS
    MaxTurns,  \* turns of the session,
    MaxSteps,  \* the largest max_steps,
    MaxWork,   \* steps that all turns of the session may take, and
    MaxBatch   \* tool calls of one model response (bounds of the model)

ASSUME BoundsAssumption ==
    /\ MaxTurns \in Nat \ {0} /\ MaxSteps \in Nat \ {0} /\ MaxBatch \in Nat \ {0}
    /\ MaxWork \in Nat

VARIABLES
    maxSteps, \* max(1, max_steps), which is fixed
    turn,     \* number of the current or last turn
    pc,       \* where the turn is
    step,     \* the loop counter of _run_with_memory
    at,       \* the tool call being handled, and ...
    batch,    \* ... how many the model asked for in this step
    timed,    \* the request carries a deadline
    expired,  \* the deadline has passed
    fired,    \* scope.cancel_called of the governed agent's move_on_after
    memory,   \* messages of the session
    audit,    \* <<subject, event>> recorded; a subject is a turn or a call
    threads,  \* calls whose worker thread is running
    effects,  \* calls whose tool has acted
    reply,    \* stop reason the delegate returned
    ended,    \* stop reason each finished turn reported
    late      \* history: turns whose deadline passed before they ended

vars == <<maxSteps, turn, pc, step, at, batch, timed, expired, fired, memory, audit,
          threads, effects, reply, ended, late>>
deadlineVars == <<timed, expired, fired, late>>
loopVars     == <<step, at, batch>>

Call     == (1 .. MaxTurns) \X (1 .. MaxSteps) \X (1 .. MaxBatch)
Rejected == "tool.rejected"  \* tool.unavailable, tool.invalid_arguments or tool.denied
Closing  == {"tool.end", "tool.error", "tool.timeout"}
Stops    == {"completed", "max_steps", "model_error", "deadline_exceeded",
             "blocked", "raised"}

Current      == <<turn, step, at>>
Message(role) == [role |-> role, turn |-> turn, step |-> step, at |-> at]
Record(subject, event) == audit' = audit \cup {<<subject, event>>}
InScope      == pc \in {"input", "step", "model", "call", "approve", "running", "output"}

Init ==
    /\ maxSteps \in 1 .. MaxSteps
    /\ turn = 0
    /\ pc = "idle"
    /\ step = 0 /\ at = 0 /\ batch = 0
    /\ timed = FALSE /\ expired = FALSE /\ fired = FALSE
    /\ memory = <<>>
    /\ audit = {}
    /\ threads = {}
    /\ effects = {}
    /\ reply = "none"
    /\ ended = [n \in 1 .. MaxTurns |-> "none"]
    /\ late = {}

------------------------------------------------------------------------------
(* GovernedAgent.run *)

StartTurn ==
    /\ pc = "idle"
    /\ turn < MaxTurns /\ (turn + 1) * maxSteps <= MaxWork
    /\ turn' = turn + 1
    /\ pc' = "entry"
    /\ timed' \in BOOLEAN
    /\ audit' = audit \cup {<<<<turn + 1>>, "turn.start">>}
    /\ UNCHANGED <<maxSteps, loopVars, expired, fired, late, memory, threads, effects, reply,
                   ended>>

(* The `finally` of run and its return: how the turn ends is both the reason
   in the turn.end event and what the caller sees. *)
End(reason, events) ==
    /\ ended' = [ended EXCEPT ![turn] = reason]
    /\ audit' = audit \cup events \cup {<<<<turn>>, "turn.end">>}
    /\ pc' = "idle"
    /\ step' = 0 /\ at' = 0 /\ batch' = 0
    /\ timed' = FALSE /\ expired' = FALSE /\ fired' = FALSE
    /\ reply' = "none"
    /\ UNCHANGED <<maxSteps, turn, memory, threads, effects, late>>

(* A turn that returns after its scope was cancelled reports the deadline. *)
Return(reason, events) ==
    End(IF fired THEN "deadline_exceeded" ELSE reason, events)

(* The check before the scope, then the scope is entered. *)
EnterScope ==
    /\ pc = "entry"
    /\ \/ expired /\ End("deadline_exceeded", {})
       \/ /\ ~expired
          /\ pc' = "input"
          /\ UNCHANGED <<maxSteps, turn, loopVars, deadlineVars, memory, audit, threads,
                         effects, reply, ended>>

(* An input guardrail blocks or raises. *)
InputStops ==
    /\ pc = "input"
    /\ \/ Return("blocked", {<<<<turn>>, "guardrail.block.INPUT">>})
       \/ End("raised", {})

(* Mutant: the system prompt is added to every turn's messages. *)
Opening_Always == <<Message("system"), Message("user")>>

(* Messages DefaultAgent.run adds before its loop. *)
Opening ==
    IF \E i \in DOMAIN memory : memory[i].role = "system"
    THEN <<Message("user")>>
    ELSE <<Message("system"), Message("user")>>

(* The input guardrails allow it and the delegate opens the turn. *)
InputAllowed ==
    /\ pc = "input"
    /\ memory' = memory \o Opening
    /\ step' = 1
    /\ pc' = "step"
    /\ UNCHANGED <<maxSteps, turn, at, batch, deadlineVars, audit, threads, effects,
                   reply, ended>>

(* The output guardrails allow, block or raise. *)
OutputDone ==
    /\ pc = "output"
    /\ \/ Return(reply, {})
       \/ Return("blocked", {<<<<turn>>, "guardrail.block.OUTPUT">>})
       \/ End("raised", {})

(* The deadline passes; the timer of the scope runs when the event loop gets
   to it; the cancellation is raised at the task's next await. *)
DeadlinePasses ==
    /\ pc # "idle"
    /\ timed /\ ~expired
    /\ expired' = TRUE
    /\ late' = late \cup {turn}
    /\ UNCHANGED <<maxSteps, turn, pc, loopVars, timed, fired, memory, audit, threads,
                   effects, reply, ended>>

TimerFires ==
    /\ InScope
    /\ expired /\ ~fired
    /\ fired' = TRUE
    /\ UNCHANGED <<maxSteps, turn, pc, loopVars, timed, expired, late, memory, audit,
                   threads, effects, reply, ended>>

Cancelled ==
    /\ InScope
    /\ fired
    /\ End("deadline_exceeded", {})

------------------------------------------------------------------------------
(* DefaultAgent._run_with_memory *)

Stop(reason) ==
    /\ reply' = reason
    /\ pc' = "output"

BeginStep ==
    /\ pc = "step"
    /\ IF expired THEN Stop("deadline_exceeded")
                  ELSE pc' = "model" /\ reply' = reply
    /\ UNCHANGED <<maxSteps, turn, loopVars, deadlineVars, memory, audit, threads,
                   effects, ended>>

ModelFails ==
    /\ pc = "model"
    /\ Record(<<turn>>, "error")
    /\ Stop("model_error")
    /\ UNCHANGED <<maxSteps, turn, loopVars, deadlineVars, memory, threads, effects, ended>>

(* Mutant: the answer is returned and not kept. *)
ModelAnswers_Unsaved ==
    /\ pc = "model"
    /\ Stop("completed")
    /\ UNCHANGED <<maxSteps, turn, loopVars, deadlineVars, memory, audit, threads, effects,
                   ended>>

ModelAnswers ==
    /\ pc = "model"
    /\ memory' = Append(memory, Message("assistant"))
    /\ Stop("completed")
    /\ UNCHANGED <<maxSteps, turn, loopVars, deadlineVars, audit, threads, effects, ended>>

ModelCallsTools ==
    /\ pc = "model"
    /\ \E n \in 1 .. MaxBatch :
        /\ batch' = n
        /\ memory' = Append(memory, [Message("calls") EXCEPT !.at = n])
    /\ at' = 1
    /\ pc' = "call"
    /\ UNCHANGED <<maxSteps, turn, step, deadlineVars, audit, threads, effects, reply, ended>>

(* Mutant: one step too many. *)
NextCall_OneMore ==
    IF at < batch
    THEN /\ at' = at + 1 /\ pc' = "call"
         /\ UNCHANGED <<step, batch, reply>>
    ELSE /\ at' = 0 /\ batch' = 0
         /\ IF step <= maxSteps THEN step' = step + 1 /\ pc' = "step" /\ reply' = reply
                                ELSE step' = step /\ Stop("max_steps")

(* The next call of the batch, the next step of the loop, or its end. *)
NextCall ==
    IF at < batch
    THEN /\ at' = at + 1 /\ pc' = "call"
         /\ UNCHANGED <<step, batch, reply>>
    ELSE /\ at' = 0 /\ batch' = 0
         /\ IF step < maxSteps THEN step' = step + 1 /\ pc' = "step" /\ reply' = reply
                               ELSE step' = step /\ Stop("max_steps")

(* A result, whatever it says, answers the call in memory. *)
Answered(event) ==
    /\ Record(Current, event)
    /\ memory' = Append(memory, Message("tool"))
    /\ NextCall

(* The deadline is checked before each call. *)
CheckCall ==
    /\ pc = "call"
    /\ IF expired THEN Stop("deadline_exceeded")
                  ELSE pc' = "approve" /\ reply' = reply
    /\ UNCHANGED <<maxSteps, turn, loopVars, deadlineVars, memory, audit, threads,
                   effects, ended>>

------------------------------------------------------------------------------
(* DefaultAgent._invoke_tool and _invoke_with_timeout *)

(* Mutant: the denial is recorded and the tool runs all the same. *)
CallRejected_Runs ==
    /\ pc = "approve"
    /\ Answered(Rejected)
    /\ threads' = threads \cup {Current}
    /\ UNCHANGED <<maxSteps, turn, deadlineVars, effects, ended>>

(* The tool is not selected, its arguments are invalid, or it is denied. *)
CallRejected ==
    /\ pc = "approve"
    /\ Answered(Rejected)
    /\ UNCHANGED <<maxSteps, turn, deadlineVars, threads, effects, ended>>

(* The validator or the approver (a human's approval handler) raises: nothing
   catches it before the `finally` of the governed agent. *)
ApprovalRaises ==
    /\ pc = "approve"
    /\ End("raised", {})

(* Validated and approved, it starts in a worker thread; under a cancelled
   scope the thread is not started any more. *)
CallStarts ==
    /\ pc = "approve"
    /\ Record(Current, "tool.start")
    /\ threads' = IF fired THEN threads ELSE threads \cup {Current}
    /\ pc' = "running"
    /\ UNCHANGED <<maxSteps, turn, loopVars, deadlineVars, memory, effects, reply, ended>>

ToolReturns ==
    /\ pc = "running"
    /\ Current \in threads \cap effects
    /\ threads' = threads \ {Current}
    /\ Answered("tool.end")
    /\ UNCHANGED <<maxSteps, turn, deadlineVars, effects, ended>>

(* Mutant: an exception of the tool leaves no event. *)
ToolRaises_Unaudited ==
    /\ pc = "running"
    /\ Current \in threads
    /\ threads' = threads \ {Current}
    /\ memory' = Append(memory, Message("tool"))
    /\ NextCall
    /\ UNCHANGED <<maxSteps, turn, deadlineVars, audit, effects, ended>>

ToolRaises ==
    /\ pc = "running"
    /\ Current \in threads
    /\ threads' = threads \ {Current}
    /\ Answered("tool.error")
    /\ UNCHANGED <<maxSteps, turn, deadlineVars, effects, ended>>

(* Mutants: a timeout is not reported to the model; the thread is joined. *)
ToolTimesOut_Silent ==
    /\ pc = "running"
    /\ Current \in threads
    /\ Record(Current, "tool.timeout")
    /\ NextCall
    /\ UNCHANGED <<maxSteps, turn, deadlineVars, memory, threads, effects, ended>>

ToolTimesOut_Joins ==
    /\ pc = "running"
    /\ Current \in threads \cap effects
    /\ Answered("tool.timeout")
    /\ UNCHANGED <<maxSteps, turn, deadlineVars, threads, effects, ended>>

(* The thread is abandoned, not stopped. *)
ToolTimesOut ==
    /\ pc = "running"
    /\ Current \in threads
    /\ Answered("tool.timeout")
    /\ UNCHANGED <<maxSteps, turn, deadlineVars, threads, effects, ended>>

(* A tool acts and its thread ends, whether or not a turn still waits. *)
ThreadActs(c) ==
    /\ c \in threads \ effects
    /\ effects' = effects \cup {c}
    /\ UNCHANGED <<maxSteps, turn, pc, loopVars, deadlineVars, memory, audit, threads,
                   reply, ended>>

ThreadEnds(c) ==
    /\ c \in threads
    /\ ~(pc = "running" /\ c = Current)
    /\ threads' = threads \ {c}
    /\ UNCHANGED <<maxSteps, turn, pc, loopVars, deadlineVars, memory, audit, effects,
                   reply, ended>>

TurnStep ==
    \/ EnterScope \/ InputStops \/ InputAllowed \/ OutputDone \/ Cancelled
    \/ BeginStep \/ ModelFails \/ ModelAnswers \/ ModelCallsTools
    \/ CheckCall \/ CallRejected \/ ApprovalRaises \/ CallStarts
    \/ ToolReturns \/ ToolRaises \/ ToolTimesOut

Next ==
    \/ StartTurn \/ TurnStep
    \/ DeadlinePasses \/ TimerFires
    \/ \E c \in threads : ThreadActs(c) \/ ThreadEnds(c)

Spec == Init /\ [][Next]_vars

(* The task is scheduled, the model port answers or fails (it has a timeout of
   its own) and the timeout of a tool fires; nothing is assumed of a tool. *)
FairSpec ==
    /\ Spec
    /\ WF_vars(EnterScope) /\ WF_vars(InputAllowed \/ InputStops)
    /\ WF_vars(BeginStep) /\ WF_vars(ModelFails \/ ModelAnswers \/ ModelCallsTools)
    /\ WF_vars(CheckCall) /\ WF_vars(CallRejected \/ ApprovalRaises \/ CallStarts)
    /\ WF_vars(ToolTimesOut) /\ WF_vars(OutputDone) /\ WF_vars(Cancelled)

------------------------------------------------------------------------------
Messages  == [role : {"system", "user", "assistant", "calls", "tool"},
              turn : 1 .. MaxTurns, step : 0 .. MaxSteps, at : 0 .. MaxBatch]
Said      == {memory[i] : i \in DOMAIN memory}
Done      == {n \in DOMAIN ended : ended[n] # "none"}

(* Every variable has its type; the loop counters stay within their limits. *)
TypeOK ==
    /\ maxSteps \in 1 .. MaxSteps /\ step <= maxSteps /\ turn \in 0 .. MaxTurns
    /\ pc \in {"idle", "entry", "input", "step", "model", "call", "approve",
               "running", "output"}
    /\ step \in 0 .. MaxSteps /\ at \in 0 .. MaxBatch /\ batch \in 0 .. MaxBatch
    /\ timed \in BOOLEAN /\ expired \in BOOLEAN /\ fired \in BOOLEAN
    /\ memory \in Seq(Messages)
    /\ \A record \in audit : record[1] \in Call \cup {<<n>> : n \in 1 .. MaxTurns}
    /\ threads \in SUBSET Call /\ effects \in SUBSET Call
    /\ reply \in Stops \cup {"none"} /\ late \in SUBSET (1 .. MaxTurns)
    /\ ended \in [1 .. MaxTurns -> Stops \cup {"none"}]

(* The history sent to the model is a conversation: one system prompt, first;
   one user message per opened turn, before the rest of the turn; and a tool
   result only after the message that made its call (DefaultAgent.run and the
   loop over tool_calls, over several turns and cut-off turns). *)
HistoryWellFormed ==
    \A i \in DOMAIN memory :
        LET m == memory[i]
            before == {memory[j] : j \in 1 .. i - 1}
        IN  /\ m.role = "system" <=> i = 1
            /\ m.role = "user" => ~\E o \in before : o.role # "system" /\ o.turn = m.turn
            /\ m.role \in {"assistant", "calls", "tool"} =>
                 \E o \in before : o.role = "user" /\ o.turn = m.turn
            /\ m.role = "tool" =>
                 \E o \in before : /\ o.role = "calls" /\ o.turn = m.turn
                                   /\ o.step = m.step /\ m.at <= o.at

(* Every tool call the session remembers has its result when the turn is over,
   except in a turn whose deadline passed or that raised: after those the next
   turn sends dangling tool calls to the model, and after no other. *)
CallsAnswered ==
    \A m \in Said :
        m.role = "calls" /\ m.turn \in Done \ late /\ ended[m.turn] # "raised" =>
            \A i \in 1 .. m.at :
                [m EXCEPT !.role = "tool", !.at = i] \in Said

(* Every tool.start of a finished turn is closed by exactly one of tool.end,
   tool.error and tool.timeout, except in a turn that reports its deadline. *)
StartsAreClosed ==
    \A record \in audit :
        LET c == record[1] IN
        record[2] = "tool.start" /\ c[1] \in Done /\ ended[c[1]] # "deadline_exceeded" =>
            \E e \in Closing : audit \cap ({c} \X Closing) = {<<c, e>>}

(* A tool that acted, at once or in an abandoned thread, even after its turn
   ended, was validated and approved and its start was recorded. *)
EffectsAreGoverned ==
    \A c \in effects : <<c, "tool.start">> \in audit
                       /\ <<c, Rejected>> \notin audit

(* What a turn reported is what the session remembers: a completed turn ends
   with its answer, one stopped by the step budget or the model has none, and a
   turn blocked at its input left no message. *)
MemoryMatchesOutcome ==
    \A n \in Done :
        LET mine == {m \in Said : m.turn = n} IN
        /\ ended[n] = "completed" => \E m \in mine : m.role = "assistant"
        /\ ended[n] \in {"max_steps", "model_error"} =>
             ~\E m \in mine : m.role = "assistant"
        /\ <<<<n>>, "guardrail.block.INPUT">> \in audit => mine = {}

(* The session's history is a conversation with all its results, and says what
   the turns reported. *)
SessionRemembers == TypeOK /\ HistoryWellFormed /\ CallsAnswered /\ MemoryMatchesOutcome

(* A turn ends whatever its tools do, even if none of them ever returns. *)
TurnEnds == pc = "entry" ~> pc = "idle"
==============================================================================
