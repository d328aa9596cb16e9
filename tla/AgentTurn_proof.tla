--------------------------- MODULE AgentTurn_proof ---------------------------
(***************************************************************************)
(* Every started tool call is closed in the audit, nothing acts that was   *)
(* not approved, and the session remembers what its turns reported: for    *)
(* any number of turns, steps and calls of a batch.                        *)
(***************************************************************************)
EXTENDS AgentTurn, TLAPS

CallEvents == {"tool.start", Rejected} \cup Closing

(* The audit holds events of calls and of turns. *)
Subjects ==
    \A record \in audit :
        /\ record = <<record[1], record[2]>>
        /\ record[2] \in CallEvents => record[1] \in Call

(* What each place of the loop knows of its counters. *)
Position ==
    /\ pc # "idle" => turn >= 1 /\ ended[turn] = "none"
    /\ pc \in {"idle", "entry", "input"} => step = 0
    /\ pc \in {"idle", "entry", "input", "step", "model"} => at = 0
    /\ pc \in {"step", "model", "call", "approve", "running", "output"} => step >= 1
    /\ pc \in {"call", "approve", "running"} => at >= 1 /\ at <= batch
    /\ \A n \in 1 .. MaxTurns : n > turn => ended[n] = "none"

(* A call the turn has passed. *)
Passed(c) ==
    \/ c[1] < turn
    \/ c[1] = turn /\ (c[2] < step \/ (c[2] = step /\ c[3] < at))

(* The audit has no event of a call that is still to come. *)
Fresh ==
    \A c \in Call, e \in CallEvents :
        <<c, e>> \in audit =>
            /\ c[1] <= turn
            /\ pc \notin {"idle", "output"} => Passed(c) \/ (pc = "running" /\ c = Current)

Unclosed(c) == \A f \in Closing : <<c, f>> \notin audit
ClosedOnce(c) ==
    \E e \in Closing : <<c, e>> \in audit /\ \A f \in Closing : <<c, f>> \in audit => f = e

(* A started call is closed, runs, or was cut off by the deadline of its turn. *)
Closed ==
    /\ \A c \in Call : <<c, "tool.start">> \in audit =>
          \/ ClosedOnce(c)
          \/ pc = "running" /\ c = Current
          \/ ended[c[1]] = "deadline_exceeded"
    /\ pc = "running" => <<Current, "tool.start">> \in audit /\ Unclosed(Current)

(* A call in a thread, or one that acted, was started and not rejected. *)
Governed ==
    \A c \in threads \cup effects : <<c, "tool.start">> \in audit /\ <<c, Rejected>> \notin audit

IInv == TypeOK /\ Subjects /\ Position /\ Fresh /\ Closed /\ Governed

------------------------------------------------------------------------------
LEMMA Bounds == MaxTurns \in Nat /\ MaxSteps \in Nat /\ MaxBatch \in Nat
BY BoundsAssumption

LEMMA InitIInv == Init => IInv
<1> SUFFICES ASSUME Init PROVE IInv
  OBVIOUS
<1>1. TypeOK
  <2>1. /\ turn \in 0 .. MaxTurns /\ step \in 0 .. MaxSteps
        /\ at \in 0 .. MaxBatch /\ batch \in 0 .. MaxBatch
    BY Bounds DEF Init
  <2>2. timed \in BOOLEAN /\ expired \in BOOLEAN /\ fired \in BOOLEAN
    BY Zenon DEF Init
  <2>3. memory \in Seq(Messages)
    BY DEF Init
  <2>4. ended \in [1 .. MaxTurns -> Stops \cup {"none"}]
    BY DEF Init
  <2>5. QED
    BY <2>1, <2>2, <2>3, <2>4 DEF Init, TypeOK
<1>2. Position
  BY DEF Init, Position
<1>3. Subjects /\ Fresh /\ Closed /\ Governed
  BY DEF Init, Subjects, Fresh, Closed, Governed
<1>4. QED
  BY <1>1, <1>2, <1>3 DEF IInv

(* The call that is handled is one. *)
LEMMA CurrentIsCall ==
    ASSUME IInv, pc \in {"call", "approve", "running"}
    PROVE  Current \in Call /\ ~Passed(Current)
<1>1. turn \in 1 .. MaxTurns /\ step \in 1 .. MaxSteps /\ at \in 1 .. MaxBatch
  BY Bounds DEF IInv, TypeOK, Position
<1>2. Current \in Call
  BY <1>1 DEF Current, Call
<1>3. Current[1] = turn /\ Current[2] = step /\ Current[3] = at
  BY DEF Current
<1>4. ~Passed(Current)
  BY <1>1, <1>3 DEF Passed
<1>5. QED
  BY <1>2, <1>4

LEMMA MessageType ==
    ASSUME TypeOK, turn >= 1, NEW role \in {"system", "user", "assistant", "calls", "tool"}
    PROVE  /\ Message(role) \in Messages
           /\ \A n \in 1 .. MaxBatch : [Message(role) EXCEPT !.at = n] \in Messages
<1>1. turn \in 1 .. MaxTurns /\ step \in 0 .. MaxSteps /\ at \in 0 .. MaxBatch
  BY Bounds DEF TypeOK
<1>2. Message(role) \in Messages
  BY <1>1 DEF Message, Messages
<1>3. ASSUME NEW n \in 1 .. MaxBatch PROVE [Message(role) EXCEPT !.at = n] \in Messages
  <2>1. n \in 0 .. MaxBatch
    BY Bounds
  <2>2. QED
    BY <1>2, <2>1 DEF Messages
<1>4. QED
  BY <1>2, <1>3

(* Steps that leave the audit, the threads and the effects alone. *)
LEMMA QuietStep ==
    ASSUME IInv, TypeOK', Position',
           UNCHANGED <<turn, audit, threads, effects, ended>>,
           pc # "running" \/ UNCHANGED <<pc, step, at>>, pc' = "running" => pc = "running",
           \/ pc' \in {"idle", "output"}
           \/ pc \notin {"idle", "output"} /\ step' >= step /\ (step' = step => at' >= at)
    PROVE  IInv'
<1>1. Fresh'
  BY SMTT(30) DEF IInv, TypeOK, Fresh, Passed, Current, Call
<1>2. Closed'
  BY DEF IInv, Closed, ClosedOnce, Unclosed, Current
<1>3. Governed' /\ Subjects'
  BY DEF IInv, Governed, Subjects
<1>4. QED
  BY <1>1, <1>2, <1>3 DEF IInv

(* How a turn ends: only a deadline leaves a call without its closing event. *)
LEMMA EndKeeps ==
    ASSUME IInv, pc # "idle", NEW reason \in Stops \cup {"none"},
           NEW events \in SUBSET ({<<turn>>} \X {"guardrail.block.INPUT", "guardrail.block.OUTPUT"}),
           End(reason, events), pc = "running" => reason = "deadline_exceeded"
    PROVE  IInv'
<1>1. /\ turn \in 1 .. MaxTurns /\ ended[turn] = "none"
      /\ ended \in [1 .. MaxTurns -> Stops \cup {"none"}]
  BY Bounds DEF IInv, TypeOK, Position
<1>2. /\ ended'[turn] = reason
      /\ \A n \in 1 .. MaxTurns : n # turn => ended'[n] = ended[n]
      /\ ended' \in [1 .. MaxTurns -> Stops \cup {"none"}]
  BY <1>1 DEF End
<1>3. \A c \in Call, e \in CallEvents : <<c, e>> \in audit' <=> <<c, e>> \in audit
  BY DEF End, CallEvents, Closing, Rejected
<1>4. TypeOK'
  <2>1. \A record \in audit' : record[1] \in Call \cup {<<n>> : n \in 1 .. MaxTurns}
    BY <1>1 DEF IInv, TypeOK, End
  <2>2. timed' \in BOOLEAN /\ expired' \in BOOLEAN /\ fired' \in BOOLEAN
    BY Zenon DEF End
  <2>3. /\ turn' \in 0 .. MaxTurns /\ step' \in 0 .. MaxSteps /\ at' \in 0 .. MaxBatch
        /\ batch' \in 0 .. MaxBatch
        /\ maxSteps' \in 1 .. MaxSteps /\ step' <= maxSteps'
    BY Bounds DEF IInv, TypeOK, End
  <2>4. /\ memory' \in Seq(Messages) /\ threads' \in SUBSET Call /\ effects' \in SUBSET Call
        /\ late' \in SUBSET (1 .. MaxTurns) /\ reply' = "none" /\ pc' = "idle"
    BY DEF IInv, TypeOK, End
  <2>5. QED
    BY <1>2, <2>1, <2>2, <2>3, <2>4 DEF TypeOK
<1>5. Position'
  BY <1>1, <1>2 DEF IInv, TypeOK, Position, End
<1>6. Fresh'
  BY <1>3 DEF IInv, Fresh, End
<1>7. Closed'
  <2>1. ASSUME NEW c \in Call, <<c, "tool.start">> \in audit'
        PROVE  ClosedOnce(c)' \/ ended'[c[1]] = "deadline_exceeded"
    <3>1. <<c, "tool.start">> \in audit
      BY <1>3, <2>1 DEF CallEvents
    <3>2. CASE ClosedOnce(c)
      BY <1>3, <3>2 DEF ClosedOnce, CallEvents
    <3>3. CASE pc = "running" /\ c = Current
      BY <1>2, <3>3 DEF Current
    <3>4. CASE ended[c[1]] = "deadline_exceeded"
      BY <1>1, <1>2, <3>4 DEF Call
    <3>5. QED
      BY <3>1, <3>2, <3>3, <3>4 DEF IInv, Closed
  <2>2. QED
    BY <2>1 DEF Closed, End
<1>8. Governed'
  BY <1>3 DEF IInv, TypeOK, Governed, End, CallEvents
<1>9. Subjects'
  BY DEF IInv, Subjects, End, CallEvents, Closing, Rejected
<1>10. QED
  BY <1>4, <1>5, <1>6, <1>7, <1>8, <1>9 DEF IInv

(* The event that answers a call closes it, and the loop goes on behind it. *)
LEMMA AnsweredKeeps ==
    ASSUME IInv, pc \in {"approve", "running"}, NEW event \in {Rejected} \cup Closing,
           Answered(event), event = Rejected <=> pc = "approve",
           threads' \subseteq threads,
           UNCHANGED <<maxSteps, turn, deadlineVars, effects, ended>>
    PROVE  IInv'
<1>1. Current \in Call /\ ~Passed(Current)
  BY CurrentIsCall
<1>2. /\ turn \in 1 .. MaxTurns /\ step \in 1 .. MaxSteps /\ at \in 1 .. MaxBatch
      /\ batch \in 0 .. MaxBatch /\ ended[turn] = "none"
      /\ maxSteps \in 1 .. MaxSteps /\ step <= maxSteps
  BY Bounds DEF IInv, TypeOK, Position
<1>3. /\ audit' = audit \cup {<<Current, event>>}
      /\ memory' = Append(memory, Message("tool"))
  BY DEF Answered, Record
<1>4. /\ pc' \in {"call", "step", "output"}
      /\ step' \in 1 .. MaxSteps /\ step' <= maxSteps /\ at' \in 0 .. MaxBatch /\ batch' \in 0 .. MaxBatch
      /\ reply' \in {reply, "max_steps"}
      /\ pc' = "call" => at' >= 1 /\ at' <= batch'
      /\ pc' = "step" => at' = 0
      /\ pc' # "output" => step' > step \/ (step' = step /\ at' > at)
  BY Bounds, <1>2 DEF Answered, NextCall, Stop
<1>5. TypeOK'
  <2>1. memory' \in Seq(Messages)
    BY <1>2, <1>3, MessageType DEF IInv, TypeOK
  <2>2. \A record \in audit' : record[1] \in Call \cup {<<n>> : n \in 1 .. MaxTurns}
    BY <1>1, <1>3 DEF IInv, TypeOK
  <2>3. timed' \in BOOLEAN /\ expired' \in BOOLEAN /\ fired' \in BOOLEAN
    BY Zenon DEF IInv, TypeOK, deadlineVars
  <2>4. maxSteps' \in 1 .. MaxSteps /\ step' \in 0 .. MaxSteps /\ step' <= maxSteps'
    BY Bounds, <1>2, <1>4
  <2>5. QED
    BY <1>4, <2>1, <2>2, <2>3, <2>4 DEF IInv, TypeOK, deadlineVars, Stops
<1>6. Position'
  BY <1>2, <1>4 DEF IInv, Position
<1>7. Fresh'
  <2>1. ASSUME NEW c \in Call, NEW e \in CallEvents, <<c, e>> \in audit'
        PROVE  c[1] <= turn /\ (pc' # "output" => Passed(c)')
    <3>1. CASE c = Current
      BY <1>2, <1>4, <3>1 DEF Current, Passed
    <3>2. CASE c # Current
      <4>1. <<c, e>> \in audit
        BY <1>3, <2>1, <3>2
      <4>2. c[1] <= turn /\ Passed(c)
        BY <3>2, <4>1 DEF IInv, Fresh
      <4>3. c[2] \in Int /\ c[3] \in Int /\ c[1] \in Int
        BY Bounds DEF Call
      <4>4. QED
        BY <1>2, <1>4, <4>2, <4>3 DEF Passed
    <3>3. QED
      BY <3>1, <3>2
  <2>2. QED
    BY <1>4, <2>1 DEF Fresh
<1>8. Closed'
  <2>1. ASSUME NEW c \in Call, <<c, "tool.start">> \in audit'
        PROVE  ClosedOnce(c)' \/ ended'[c[1]] = "deadline_exceeded"
    <3>1. <<c, "tool.start">> \in audit
      BY <1>3, <2>1 DEF Closing, Rejected
    <3>2. CASE c # Current
      <4>1. ClosedOnce(c) \/ ended[c[1]] = "deadline_exceeded"
        BY <3>1, <3>2 DEF IInv, Closed
      <4>2. \A f \in Closing : <<c, f>> \in audit' <=> <<c, f>> \in audit
        BY <1>3, <3>2
      <4>3. QED
        BY <4>1, <4>2 DEF ClosedOnce
    <3>3. CASE c = Current
      <4>1. pc = "running"
        BY <1>1, <3>1, <3>3 DEF IInv, Fresh, CallEvents
      <4>2. Unclosed(Current) /\ event \in Closing
        BY <4>1 DEF IInv, Closed
      <4>3. QED
        BY <1>3, <3>3, <4>2 DEF Unclosed, ClosedOnce
    <3>4. QED
      BY <3>2, <3>3
  <2>2. QED
    BY <1>4, <2>1 DEF Closed
<1>9. Governed'
  <2>1. ASSUME event = Rejected PROVE Current \notin threads \cup effects
    BY <1>1, <2>1 DEF IInv, Fresh, Governed, CallEvents
  <2>2. QED
    BY <1>3, <2>1 DEF IInv, Governed, Closing, Rejected
<1>10. Subjects'
  BY <1>1, <1>3 DEF IInv, Subjects
<1>11. QED
  BY <1>5, <1>6, <1>7, <1>8, <1>9, <1>10 DEF IInv

(* A step of the turn or of what runs beside it keeps the invariant. *)
LEMMA StepIInv == IInv /\ [Next]_vars => IInv'
<1> SUFFICES ASSUME IInv, [Next]_vars PROVE IInv'
  OBVIOUS
<1> USE Bounds
<1>1. TypeOK /\ Position
  BY DEF IInv
<1>2. CASE UNCHANGED vars
  <2>1. TypeOK' /\ Position'
    BY <1>1, <1>2 DEF TypeOK, Position, vars, deadlineVars, loopVars
  <2>2. QED
    BY <1>1, <1>2, <2>1, QuietStep DEF TypeOK, vars, loopVars
<1>3. CASE StartTurn
  <2>1. TypeOK'
    <3>1. \A record \in audit' : record[1] \in Call \cup {<<n>> : n \in 1 .. MaxTurns}
      BY <1>1, <1>3 DEF TypeOK, StartTurn
    <3>2. timed' \in BOOLEAN /\ expired' \in BOOLEAN /\ fired' \in BOOLEAN
      BY <1>1, <1>3, Zenon DEF TypeOK, StartTurn
    <3>3. turn' \in 0 .. MaxTurns
      BY <1>1, <1>3 DEF TypeOK, StartTurn
    <3>4. QED
      BY <1>1, <1>3, <3>1, <3>2, <3>3 DEF TypeOK, StartTurn, loopVars
  <2>2. Position'
    BY <1>1, <1>3 DEF TypeOK, Position, StartTurn, loopVars
  <2>3. \A c \in Call, e \in CallEvents : <<c, e>> \in audit' <=> <<c, e>> \in audit
    BY <1>3 DEF StartTurn, CallEvents, Closing, Rejected
  <2>4. Fresh'
    <3>1. ASSUME NEW c \in Call, NEW e \in CallEvents, <<c, e>> \in audit
          PROVE  c[1] <= turn /\ c[1] \in Int
      BY <3>1 DEF IInv, Fresh, Call
    <3>2. QED
      BY <1>1, <1>3, <2>3, <3>1 DEF TypeOK, Fresh, Passed, StartTurn
  <2>5. Closed'
    BY <1>3, <2>3 DEF IInv, Closed, ClosedOnce, StartTurn, CallEvents
  <2>6. Governed'
    BY <1>1, <1>3, <2>3 DEF IInv, TypeOK, Governed, StartTurn, CallEvents
  <2>7. Subjects'
    BY <1>3 DEF IInv, Subjects, StartTurn, CallEvents, Closing, Rejected
  <2>8. QED
    BY <2>1, <2>2, <2>4, <2>5, <2>6, <2>7 DEF IInv
<1>4. CASE EnterScope
  <2>1. CASE End("deadline_exceeded", {})
    BY <1>4, <2>1, EndKeeps DEF EnterScope, Stops
  <2>2. CASE /\ pc' = "input"
             /\ UNCHANGED <<maxSteps, turn, loopVars, deadlineVars, memory, audit, threads,
                            effects, reply, ended>>
    <3>1. TypeOK' /\ Position'
      BY <1>1, <1>4, <2>2 DEF TypeOK, Position, EnterScope, deadlineVars, loopVars
    <3>2. QED
      BY <1>1, <1>4, <2>2, <3>1, QuietStep DEF TypeOK, EnterScope, loopVars
  <2>3. QED
    BY <1>4, <2>1, <2>2 DEF EnterScope
<1>5. CASE InputStops
  <2>1. {<<<<turn>>, "guardrail.block.INPUT">>}
          \in SUBSET ({<<turn>>} \X {"guardrail.block.INPUT", "guardrail.block.OUTPUT"})
    OBVIOUS
  <2>2. QED
    BY <1>5, <2>1, EndKeeps DEF InputStops, Return, Stops
<1>6. CASE InputAllowed
  <2>1. memory' \in Seq(Messages)
    <3>1. Message("user") \in Messages /\ Message("system") \in Messages
      BY <1>1, <1>6, MessageType DEF Position, InputAllowed
    <3>2. Opening \in Seq(Messages)
      BY <3>1 DEF Opening
    <3>3. QED
      BY <1>1, <1>6, <3>2 DEF TypeOK, InputAllowed
  <2>2. TypeOK' /\ Position'
    BY <1>1, <1>6, <2>1, BoundsAssumption DEF TypeOK, Position, InputAllowed, deadlineVars
  <2>3. QED
    BY <1>1, <1>6, <2>2, QuietStep DEF TypeOK, Position, InputAllowed
<1>7. CASE OutputDone
  <2>1. {<<<<turn>>, "guardrail.block.OUTPUT">>}
          \in SUBSET ({<<turn>>} \X {"guardrail.block.INPUT", "guardrail.block.OUTPUT"})
    OBVIOUS
  <2>2. reply \in Stops \cup {"none"}
    BY <1>1 DEF TypeOK
  <2>3. QED
    BY <1>7, <2>1, <2>2, EndKeeps DEF OutputDone, Return, Stops
<1>8. CASE Cancelled
  BY <1>8, EndKeeps DEF Cancelled, InScope, Stops
<1>9. CASE BeginStep
  <2>1. TypeOK' /\ Position'
    BY <1>1, <1>9 DEF TypeOK, Position, BeginStep, Stop, deadlineVars, loopVars, Stops
  <2>2. QED
    BY <1>1, <1>9, <2>1, QuietStep DEF TypeOK, BeginStep, Stop, loopVars
<1>10. CASE ModelFails
  <2>1. \A c \in Call, e \in CallEvents : <<c, e>> \in audit' <=> <<c, e>> \in audit
    BY <1>10 DEF ModelFails, Record, CallEvents, Closing, Rejected
  <2>2. TypeOK'
    <3>1. \A record \in audit' : record[1] \in Call \cup {<<n>> : n \in 1 .. MaxTurns}
      BY <1>1, <1>10 DEF TypeOK, Position, ModelFails, Record
    <3>2. QED
      BY <1>1, <1>10, <3>1 DEF TypeOK, ModelFails, Stop, deadlineVars, loopVars, Stops
  <2>3. Position'
    BY <1>1, <1>10 DEF Position, ModelFails, Stop, loopVars
  <2>4. Fresh'
    BY <1>10, <2>1 DEF IInv, Fresh, ModelFails, Stop
  <2>5. Closed'
    BY <1>10, <2>1 DEF IInv, Closed, ClosedOnce, ModelFails, Stop, CallEvents
  <2>6. Governed'
    BY <1>1, <1>10, <2>1 DEF IInv, TypeOK, Governed, ModelFails, CallEvents
  <2>7. Subjects'
    BY <1>10 DEF IInv, Subjects, ModelFails, Record, CallEvents, Closing, Rejected
  <2>8. QED
    BY <2>2, <2>3, <2>4, <2>5, <2>6, <2>7 DEF IInv
<1>11. CASE ModelAnswers
  <2>1. memory' \in Seq(Messages)
    BY <1>1, <1>11, MessageType DEF TypeOK, Position, ModelAnswers
  <2>2. TypeOK' /\ Position'
    BY <1>1, <1>11, <2>1 DEF TypeOK, Position, ModelAnswers, Stop, deadlineVars, loopVars, Stops
  <2>3. QED
    BY <1>11, <2>2, QuietStep DEF ModelAnswers, Stop
<1>12. CASE ModelCallsTools
  <2>1. PICK n \in 1 .. MaxBatch :
          batch' = n /\ memory' = Append(memory, [Message("calls") EXCEPT !.at = n])
    BY <1>12 DEF ModelCallsTools
  <2>2. memory' \in Seq(Messages)
    BY <1>1, <1>12, <2>1, MessageType DEF TypeOK, Position, ModelCallsTools
  <2>3. TypeOK' /\ Position'
    BY <1>1, <1>12, <2>1, <2>2 DEF TypeOK, Position, ModelCallsTools, deadlineVars
  <2>4. QED
    BY <1>1, <1>12, <2>3, QuietStep DEF TypeOK, Position, ModelCallsTools
<1>13. CASE CheckCall
  <2>1. TypeOK' /\ Position'
    BY <1>1, <1>13 DEF TypeOK, Position, CheckCall, Stop, deadlineVars, loopVars, Stops
  <2>2. QED
    BY <1>1, <1>13, <2>1, QuietStep DEF TypeOK, CheckCall, Stop, loopVars
<1>14. CASE CallRejected
  BY <1>14, AnsweredKeeps DEF CallRejected
<1>15. CASE ApprovalRaises
  BY <1>15, EndKeeps DEF ApprovalRaises, Stops
<1>16. CASE CallStarts
  <2>1. Current \in Call /\ ~Passed(Current)
    BY <1>16, CurrentIsCall DEF CallStarts
  <2>2. audit' = audit \cup {<<Current, "tool.start">>} /\ Current' = Current
    BY <1>16 DEF CallStarts, Record, loopVars, Current
  <2>3. \A e \in CallEvents : <<Current, e>> \notin audit
    BY <1>16, <2>1 DEF IInv, Fresh, CallStarts
  <2>4. TypeOK'
    <3>1. \A record \in audit' : record[1] \in Call \cup {<<n>> : n \in 1 .. MaxTurns}
      BY <1>1, <2>1, <2>2 DEF TypeOK
    <3>2. threads' \in SUBSET Call
      BY <1>1, <1>16, <2>1 DEF TypeOK, CallStarts
    <3>3. QED
      BY <1>1, <1>16, <3>1, <3>2 DEF TypeOK, CallStarts, deadlineVars, loopVars
  <2>5. Position'
    BY <1>1, <1>16 DEF Position, CallStarts, loopVars
  <2>6. Fresh'
    <3>1. ASSUME NEW c \in Call, NEW e \in CallEvents, <<c, e>> \in audit'
          PROVE  c[1] <= turn /\ (Passed(c) \/ c = Current)
      <4>1. CASE c = Current
        BY <1>1, <4>1 DEF TypeOK, Current
      <4>2. CASE c # Current
        BY <1>16, <2>2, <3>1, <4>2 DEF IInv, Fresh, CallStarts
      <4>3. QED
        BY <4>1, <4>2
    <3>2. turn' = turn /\ step' = step /\ at' = at /\ pc' = "running"
      BY <1>16 DEF CallStarts, loopVars
    <3>3. QED
      BY <2>2, <3>1, <3>2 DEF Fresh, Passed
  <2>7. Closed'
    <3>1. ASSUME NEW c \in Call, <<c, "tool.start">> \in audit', c # Current
          PROVE  ClosedOnce(c)' \/ ended'[c[1]] = "deadline_exceeded"
      BY <1>16, <2>2, <3>1 DEF IInv, Closed, ClosedOnce, CallStarts
    <3>2. <<Current, "tool.start">> \in audit' /\ Unclosed(Current)'
      BY <2>2, <2>3 DEF Unclosed, CallEvents, Closing
    <3>3. QED
      BY <1>16, <2>2, <3>1, <3>2 DEF Closed, CallStarts
  <2>8. Governed'
    <3>1. <<Current, "tool.start">> \in audit' /\ <<Current, Rejected>> \notin audit'
      BY <2>2, <2>3 DEF CallEvents, Rejected
    <3>2. \A c \in threads \cup effects :
            <<c, "tool.start">> \in audit' /\ <<c, Rejected>> \notin audit'
      BY <2>2 DEF IInv, Governed, Rejected
    <3>3. threads' \cup effects' \subseteq threads \cup effects \cup {Current}
      BY <1>16 DEF CallStarts
    <3>4. QED
      BY <3>1, <3>2, <3>3 DEF Governed
  <2>9. Subjects'
    BY <2>1, <2>2 DEF IInv, Subjects
  <2>10. QED
    BY <2>4, <2>5, <2>6, <2>7, <2>8, <2>9 DEF IInv
<1>17. CASE ToolReturns
  BY <1>17, AnsweredKeeps DEF ToolReturns, Closing, Rejected
<1>18. CASE ToolRaises
  BY <1>18, AnsweredKeeps DEF ToolRaises, Closing, Rejected
<1>19. CASE ToolTimesOut
  BY <1>19, AnsweredKeeps DEF ToolTimesOut, Closing, Rejected
<1>20. CASE DeadlinePasses \/ TimerFires
  <2>1. UNCHANGED <<maxSteps, turn, pc, step, at, batch, memory, audit, threads, effects,
                    reply, ended>>
    BY <1>20 DEF DeadlinePasses, TimerFires, loopVars
  <2>2. timed' \in BOOLEAN /\ expired' \in BOOLEAN /\ fired' \in BOOLEAN
    BY <1>1, <1>20, Zenon DEF TypeOK, DeadlinePasses, TimerFires
  <2>3. late' \in SUBSET (1 .. MaxTurns)
    <3>1. late \in SUBSET (1 .. MaxTurns) /\ turn \in 0 .. MaxTurns
      BY <1>1 DEF TypeOK
    <3>2. CASE DeadlinePasses
      <4>1. turn \in 1 .. MaxTurns
        BY <1>1, <3>1, <3>2 DEF Position, DeadlinePasses
      <4>2. late' = late \cup {turn}
        BY <3>2 DEF DeadlinePasses
      <4>3. QED
        BY <3>1, <4>1, <4>2
    <3>3. CASE TimerFires
      BY <3>1, <3>3 DEF TimerFires
    <3>4. QED
      BY <1>20, <3>2, <3>3
  <2>4. TypeOK' /\ Position'
    BY <1>1, <2>1, <2>2, <2>3 DEF TypeOK, Position
  <2>5. QED
    BY <1>1, <2>1, <2>4, QuietStep DEF TypeOK
<1>21. ASSUME NEW c \in threads, ThreadActs(c) \/ ThreadEnds(c) PROVE IInv'
  <2>1. /\ UNCHANGED <<maxSteps, turn, pc, step, at, batch, timed, expired, fired, late,
                       memory, audit, reply, ended>>
        /\ threads' \subseteq threads /\ threads' \cup effects' \subseteq threads \cup effects
    BY <1>21 DEF ThreadActs, ThreadEnds, loopVars, deadlineVars
  <2>2. TypeOK' /\ Position'
    BY <1>1, <2>1 DEF TypeOK, Position
  <2>3. Fresh' /\ Closed'
    BY <2>1 DEF IInv, Fresh, Closed, ClosedOnce, Unclosed, Passed, Current
  <2>4. Governed' /\ Subjects'
    BY <2>1 DEF IInv, Governed, Subjects
  <2>5. QED
    BY <2>2, <2>3, <2>4 DEF IInv
<1>22. QED
  BY <1>2, <1>3, <1>4, <1>5, <1>6, <1>7, <1>8, <1>9, <1>10, <1>11, <1>12, <1>13, <1>14, <1>15,
     <1>16, <1>17, <1>18, <1>19, <1>20, <1>21 DEF Next, TurnStep

(* The inductive invariant: the loop knows where it is, the audit has nothing of
   the calls to come, and the call that runs has its start and no ending. *)
THEOREM Invariant == Spec => []IInv
BY InitIInv, StepIInv, PTL DEF Spec

------------------------------------------------------------------------------
(* Every variable of a session keeps its type, the loop counters their limits. *)
THEOREM TypeCorrect == Spec => []TypeOK
<1>1. IInv => TypeOK
  BY DEF IInv
<1>2. QED
  BY <1>1, Invariant, PTL

(* A tool that acted, in its turn or long after it, was approved and its start
   recorded, whatever times out, raises or is cut off (_invoke_tool). *)
THEOREM EffectsAreGovernedAlways == Spec => []EffectsAreGoverned
<1>1. IInv => EffectsAreGoverned
  BY DEF IInv, Governed, EffectsAreGoverned
<1>2. QED
  BY <1>1, Invariant, PTL

(* When a turn is over that reports no deadline, each tool.start of it has exactly
   one closing event (_invoke_tool, on every path out of a call). *)
THEOREM StartsAreClosedAlways == Spec => []StartsAreClosed
<1>1. IInv => StartsAreClosed
  <2> SUFFICES ASSUME IInv, NEW record \in audit, record[2] = "tool.start",
                      record[1][1] \in Done, ended[record[1][1]] # "deadline_exceeded"
               PROVE  \E e \in Closing :
                         audit \cap ({record[1]} \X Closing) = {<<record[1], e>>}
    BY DEF StartsAreClosed
  <2> DEFINE c == record[1]
  <2>1. c \in Call /\ <<c, "tool.start">> \in audit
    BY DEF IInv, Subjects, CallEvents
  <2>2. c[1] \in 1 .. MaxTurns /\ ended[c[1]] # "none"
    BY DEF IInv, TypeOK, Done
  <2>3. ~(pc = "running" /\ c = Current)
    BY <2>2 DEF IInv, Position, Current
  <2>4. ClosedOnce(c)
    BY <2>1, <2>3 DEF IInv, Closed
  <2>5. PICK e \in Closing :
          <<c, e>> \in audit /\ \A f \in Closing : <<c, f>> \in audit => f = e
    BY <2>4 DEF ClosedOnce
  <2>6. audit \cap ({c} \X Closing) = {<<c, e>>}
    BY <2>5
  <2>7. QED
    BY <2>6
<1>2. QED
  BY <1>1, Invariant, PTL
------------------------------------------------------------------------------
(* What the session's memory needs, besides: the clock marks its turn late, ... *)
Clocked ==
    /\ pc = "idle" => ~expired /\ ~fired
    /\ fired => expired
    /\ expired => turn \in late

InBatch == pc \in {"call", "approve", "running"}

(* ... the open turn has its user message once it is past the guardrails, and its
   tool calls are those of the steps taken, ... *)
Placed ==
    /\ \A m \in Said : m.turn <= turn
    /\ pc \in {"entry", "input"} => \A m \in Said : m.turn # turn
    /\ pc \notin {"idle", "entry", "input"} =>
          /\ \E m \in Said : m.role = "user" /\ m.turn = turn
          /\ \A m \in Said : m.role = "calls" /\ m.turn = turn =>
                /\ m.step <= step
                /\ pc \in {"step", "model"} => m.step < step
                /\ InBatch /\ m.step = step => m.at = batch
    /\ InBatch => \E m \in Said : m.role = "calls" /\ m.turn = turn /\ m.step = step /\ m.at = batch

Result(m, i) == [role |-> "tool", turn |-> m.turn, step |-> m.step, at |-> i]

(* ... each call that the loop has passed has its result, ... *)
Answering ==
    pc # "idle" /\ turn \notin late =>
        \A m \in Said : m.role = "calls" /\ m.turn = turn =>
            \A i \in 1 .. m.at : (InBatch /\ m.step = step => i < at) => Result(m, i) \in Said

(* ... and only a reply of a completed turn comes with an answer. *)
Replying ==
    /\ pc # "output" <=> reply = "none"
    /\ reply = "completed" => \E m \in Said : m.role = "assistant" /\ m.turn = turn
    /\ pc # "idle" /\ reply # "completed" =>
          \A m \in Said : m.turn = turn => m.role # "assistant"

BlockedAt(n) == <<<<n>>, "guardrail.block.INPUT">> \in audit

(* A turn that was blocked at its input is over and left no message. *)
BlockedEmpty ==
    \A n \in 1 .. MaxTurns : BlockedAt(n) =>
        n <= turn /\ (n = turn => pc = "idle") /\ \A m \in Said : m.turn # n

Remembers ==
    /\ Clocked /\ Placed /\ Answering /\ Replying /\ BlockedEmpty
    /\ HistoryWellFormed /\ CallsAnswered /\ MemoryMatchesOutcome
------------------------------------------------------------------------------
(* The history, as a sequence. *)
Formed(history) ==
    \A i \in DOMAIN history :
        LET m == history[i]
            before == {history[j] : j \in 1 .. i - 1}
        IN  /\ m.role = "system" <=> i = 1
            /\ m.role = "user" => ~\E o \in before : o.role # "system" /\ o.turn = m.turn
            /\ m.role \in {"assistant", "calls", "tool"} =>
                 \E o \in before : o.role = "user" /\ o.turn = m.turn
            /\ m.role = "tool" =>
                 \E o \in before : /\ o.role = "calls" /\ o.turn = m.turn
                                   /\ o.step = m.step /\ m.at <= o.at

SaidIn(history) == {history[i] : i \in DOMAIN history}

(* What is said after one more message. *)
LEMMA SaidAppend ==
    ASSUME NEW h \in Seq(Messages), NEW m \in Messages
    PROVE  /\ Append(h, m) \in Seq(Messages)
           /\ SaidIn(Append(h, m)) = SaidIn(h) \cup {m}
<1>1. /\ DOMAIN h = 1 .. Len(h) /\ DOMAIN Append(h, m) = 1 .. (Len(h) + 1) /\ Len(h) \in Nat
      /\ \A i \in 1 .. Len(h) : Append(h, m)[i] = h[i]
      /\ Append(h, m)[Len(h) + 1] = m
  OBVIOUS
<1>2. 1 .. (Len(h) + 1) = (1 .. Len(h)) \cup {Len(h) + 1}
  BY <1>1
<1>3. SaidIn(Append(h, m)) = SaidIn(h) \cup {m}
  BY <1>1, <1>2 DEF SaidIn
<1>4. QED
  BY <1>3

(* A message that fits what was said before it keeps the history well formed. *)
LEMMA FormedAppend ==
    ASSUME NEW h \in Seq(Messages), NEW m \in Messages, Formed(h), h # <<>>, m.role # "system",
           m.role = "user" => \A o \in SaidIn(h) : o.role = "system" \/ o.turn # m.turn,
           m.role # "user" => \E o \in SaidIn(h) : o.role = "user" /\ o.turn = m.turn,
           m.role = "tool" => \E o \in SaidIn(h) :
              o.role = "calls" /\ o.turn = m.turn /\ o.step = m.step /\ m.at <= o.at
    PROVE  Formed(Append(h, m))
<1> DEFINE g == Append(h, m)
<1>1. /\ DOMAIN h = 1 .. Len(h) /\ DOMAIN g = 1 .. (Len(h) + 1) /\ Len(h) \in Nat \ {0}
      /\ \A i \in 1 .. Len(h) : g[i] = h[i]
      /\ g[Len(h) + 1] = m
  OBVIOUS
<1> HIDE DEF g
<1>2. \A i \in 1 .. (Len(h) + 1) : {g[j] : j \in 1 .. i - 1} = {h[j] : j \in 1 .. i - 1}
  <2> SUFFICES ASSUME NEW i \in 1 .. (Len(h) + 1)
               PROVE  \A j \in 1 .. i - 1 : g[j] = h[j]
    OBVIOUS
  <2> QED
    BY <1>1
<1>3. SaidIn(h) = {h[j] : j \in 1 .. (Len(h) + 1) - 1}
  BY <1>1 DEF SaidIn
<1> SUFFICES ASSUME NEW i \in DOMAIN g
             PROVE  LET n == g[i]
                        before == {g[j] : j \in 1 .. i - 1}
                    IN  /\ n.role = "system" <=> i = 1
                        /\ n.role = "user" => ~\E o \in before : o.role # "system" /\ o.turn = n.turn
                        /\ n.role \in {"assistant", "calls", "tool"} =>
                             \E o \in before : o.role = "user" /\ o.turn = n.turn
                        /\ n.role = "tool" =>
                             \E o \in before : /\ o.role = "calls" /\ o.turn = n.turn
                                               /\ o.step = n.step /\ n.at <= o.at
  BY DEF Formed, g
<1>4. CASE i = Len(h) + 1
  <2>1. g[i] = m /\ i # 1 /\ {g[j] : j \in 1 .. i - 1} = SaidIn(h)
    BY <1>1, <1>2, <1>3, <1>4
  <2> QED
    BY <2>1
<1>5. CASE i \in 1 .. Len(h)
  <2>1. g[i] = h[i] /\ {g[j] : j \in 1 .. i - 1} = {h[j] : j \in 1 .. i - 1} /\ i \in DOMAIN h
    BY <1>1, <1>2, <1>5
  <2>2. LET before == {h[j] : j \in 1 .. i - 1}
        IN  /\ h[i].role = "system" <=> i = 1
            /\ h[i].role = "user" => ~\E o \in before : o.role # "system" /\ o.turn = h[i].turn
            /\ h[i].role \in {"assistant", "calls", "tool"} =>
                 \E o \in before : o.role = "user" /\ o.turn = h[i].turn
            /\ h[i].role = "tool" =>
                 \E o \in before : /\ o.role = "calls" /\ o.turn = h[i].turn
                                   /\ o.step = h[i].step /\ h[i].at <= o.at
    BY <2>1, Zenon DEF Formed
  <2> QED
    BY <2>1, <2>2, Zenon
<1> QED
  BY <1>1, <1>4, <1>5

(* What is said are messages. *)
LEMMA SaidTyped == TypeOK => Said \subseteq Messages /\ Said = SaidIn(memory)
BY DEF TypeOK, Said, SaidIn

(* The result of a call, as CallsAnswered has it. *)
LEMMA ResultIs ==
    ASSUME NEW m \in Messages, NEW i \in Int
    PROVE  [m EXCEPT !.role = "tool", !.at = i] = Result(m, i)
<1> DEFINE n == [m EXCEPT !.role = "tool", !.at = i]
<1>1. n \in [role : {"tool"}, turn : 1 .. MaxTurns, step : 0 .. MaxSteps, at : Int]
  BY DEF Messages
<1>2. n.turn = m.turn /\ n.step = m.step /\ n.at = i
  BY DEF Messages
<1> HIDE DEF n
<1>3. n = Result(m, i)
  BY <1>1, <1>2 DEF Result
<1> QED
  BY <1>3 DEF n

(* What a turn that is over has told. *)
Told(n) ==
    /\ ended[n] = "completed" => \E m \in Said : m.turn = n /\ m.role = "assistant"
    /\ ended[n] \in {"max_steps", "model_error"} =>
          \A m \in Said : m.turn = n => m.role # "assistant"
    /\ BlockedAt(n) => \A m \in Said : m.turn # n

(* MemoryMatchesOutcome, turn by turn. *)
LEMMA OutcomeIs == MemoryMatchesOutcome <=> \A n \in Done : Told(n)
<1> SUFFICES ASSUME NEW n \in Done
             PROVE  LET mine == {m \in Said : m.turn = n} IN
                    (/\ ended[n] = "completed" => \E m \in mine : m.role = "assistant"
                     /\ ended[n] \in {"max_steps", "model_error"} =>
                          ~\E m \in mine : m.role = "assistant"
                     /\ <<<<n>>, "guardrail.block.INPUT">> \in audit => mine = {})
                    <=> Told(n)
  BY Zenon DEF MemoryMatchesOutcome
<1> DEFINE mine == {m \in Said : m.turn = n}
<1>1. mine = {} <=> \A m \in Said : m.turn # n
  OBVIOUS
<1>2. \A m : m \in mine <=> m \in Said /\ m.turn = n
  OBVIOUS
<1> HIDE DEF mine
<1> QED
  BY <1>1, <1>2 DEF Told, BlockedAt, mine

(* What is kept when no message is added and no turn ends. *)
LEMMA QuietKept ==
    ASSUME Remembers, UNCHANGED <<memory, ended>>, late \subseteq late',
           \A n \in 1 .. MaxTurns : BlockedAt(n)' <=> BlockedAt(n),
           ended \in [1 .. MaxTurns -> Stops \cup {"none"}]
    PROVE  Said' = Said /\ HistoryWellFormed' /\ CallsAnswered' /\ MemoryMatchesOutcome'
<1>1. Said' = Said /\ Done' = Done /\ Done \subseteq 1 .. MaxTurns
  BY DEF Said, Done
<1>2. HistoryWellFormed'
  BY DEF Remembers, HistoryWellFormed
<1>3. CallsAnswered'
  BY <1>1 DEF Remembers, CallsAnswered
<1>4. MemoryMatchesOutcome'
  BY <1>1 DEF Remembers, MemoryMatchesOutcome, BlockedAt
<1> QED
  BY <1>1, <1>2, <1>3, <1>4

(* Steps of an open turn that add no message. *)
LEMMA QuietRemembers ==
    ASSUME IInv, Remembers, pc # "idle", pc' # "idle",
           UNCHANGED <<turn, step, at, batch, memory, ended>>, late' \in {late, late \cup {turn}},
           Clocked', \A n \in 1 .. MaxTurns : BlockedAt(n)' <=> BlockedAt(n),
           \/ pc' = pc /\ reply' = reply
           \/ pc \in {"entry", "input"} /\ pc' \in {"entry", "input"} /\ reply' = reply
           \/ pc \in {"step", "model"} /\ pc' \in {"step", "model"} /\ reply' = reply
           \/ InBatch /\ InBatch' /\ reply' = reply
           \/ /\ pc \notin {"entry", "input", "output"} /\ pc' = "output"
              /\ reply' \notin {"none", "completed"}
              /\ turn \in late \/ ~InBatch
    PROVE  Remembers'
<1>1. Said' = Said /\ HistoryWellFormed' /\ CallsAnswered' /\ MemoryMatchesOutcome'
  BY QuietKept DEF IInv, TypeOK
<1>2. InBatch <=> pc \in {"call", "approve", "running"}
  BY DEF InBatch
<1>3. InBatch' <=> pc' \in {"call", "approve", "running"}
  BY DEF InBatch
<1>4. Placed'
  BY <1>1, <1>2, <1>3 DEF Remembers, Placed
<1>5. Answering'
  BY <1>1, <1>2, <1>3 DEF Remembers, Answering, Result
<1>6. Replying'
  BY <1>1, <1>2, <1>3 DEF Remembers, Replying
<1>7. BlockedEmpty'
  BY <1>1 DEF Remembers, BlockedEmpty
<1> QED
  BY <1>1, <1>4, <1>5, <1>6, <1>7 DEF Remembers

(* How a turn ends: its calls have their results unless it was cut off, and it
   reports an answer if there is one. *)
LEMMA EndRemembers ==
    ASSUME IInv, Remembers, pc # "idle", NEW reason \in Stops, NEW events, End(reason, events),
           reason = "raised" \/ turn \in late \/ ~InBatch,
           reason = "completed" => reply = "completed",
           reason \in {"max_steps", "model_error"} => reply # "completed",
           \A n \in 1 .. MaxTurns : BlockedAt(n)' /\ ~BlockedAt(n) => n = turn /\ pc = "input",
           \A n \in 1 .. MaxTurns : BlockedAt(n) => BlockedAt(n)'
    PROVE  Remembers'
<1>1. /\ turn \in 1 .. MaxTurns /\ ended[turn] = "none"
      /\ ended \in [1 .. MaxTurns -> Stops \cup {"none"}]
  BY Bounds DEF IInv, TypeOK, Position
<1>2. /\ ended'[turn] = reason /\ reason # "none"
      /\ \A n \in 1 .. MaxTurns : n # turn => ended'[n] = ended[n]
      /\ Done' = Done \cup {turn} /\ turn \notin Done /\ Done \subseteq 1 .. MaxTurns
  BY <1>1 DEF End, Done, Stops
<1>3. Said' = Said /\ late' = late /\ pc' = "idle" /\ turn' = turn /\ reply' = "none"
  BY DEF End, Said
<1>4. Said \subseteq Messages
  BY SaidTyped DEF IInv
<1>5. HistoryWellFormed'
  BY DEF Remembers, HistoryWellFormed, End
<1>6. CallsAnswered'
  <2> SUFFICES ASSUME NEW m \in Said, m.role = "calls", m.turn \in Done' \ late,
                      ended'[m.turn] # "raised", NEW i \in 1 .. m.at
               PROVE  [m EXCEPT !.role = "tool", !.at = i] \in Said
    BY <1>3 DEF CallsAnswered
  <2>1. CASE m.turn = turn
    <3>1. i \in Int
      OBVIOUS
    <3>2. Result(m, i) \in Said
      BY <1>2, <2>1 DEF Remembers, Answering, InBatch
    <3> QED
      BY <1>4, <3>1, <3>2, ResultIs
  <2>2. CASE m.turn # turn
    BY <1>2, <2>2 DEF Remembers, CallsAnswered
  <2> QED
    BY <2>1, <2>2
<1>7. BlockedEmpty'
  BY <1>1, <1>3 DEF Remembers, BlockedEmpty, Placed
<1>8. MemoryMatchesOutcome'
  <2>1. \A n \in Done : Told(n)
    BY OutcomeIs DEF Remembers
  <2>2. ASSUME NEW n \in Done' PROVE Told(n)'
    <3>1. BlockedAt(n)' => \A m \in Said' : m.turn # n
      BY <1>1, <1>2, <1>3, <1>7 DEF BlockedEmpty
    <3>2. CASE n = turn
      <4>1. reason = "completed" => \E m \in Said : m.turn = n /\ m.role = "assistant"
        BY <3>2 DEF Remembers, Replying
      <4>2. reason \in {"max_steps", "model_error"} =>
              \A m \in Said : m.turn = n => m.role # "assistant"
        BY <3>2 DEF Remembers, Replying
      <4> QED
        BY <1>2, <1>3, <3>1, <3>2, <4>1, <4>2 DEF Told
    <3>3. CASE n # turn
      <4>1. n \in Done /\ ended'[n] = ended[n] /\ Told(n)
        BY <1>2, <2>1, <3>3
      <4> QED
        BY <1>3, <3>1, <4>1 DEF Told
    <3> QED
      BY <3>2, <3>3
  <2>3. (MemoryMatchesOutcome <=> \A n \in Done : Told(n))'
    BY OutcomeIs, PTL
  <2> QED
    BY <2>2, <2>3
<1>9. Clocked' /\ Placed' /\ Answering' /\ Replying'
  BY <1>3 DEF Remembers, Clocked, Placed, Answering, Replying, InBatch, End
<1> QED
  BY <1>5, <1>6, <1>7, <1>8, <1>9 DEF Remembers

(* The model or a tool says something in the open turn. *)
LEMMA SaysRemembers ==
    ASSUME IInv, Remembers, pc \notin {"idle", "entry", "input"}, pc' # "idle",
           NEW m \in Messages, memory' = Append(memory, m),
           m.role \in {"assistant", "calls", "tool"}, m.turn = turn,
           UNCHANGED <<turn, ended, late>>, Clocked',
           \A n \in 1 .. MaxTurns : BlockedAt(n)' <=> BlockedAt(n),
           m.role = "tool" => InBatch /\ m.step = step /\ m.at <= batch,
           Placed', Answering', Replying'
    PROVE  Remembers'
<1>1. /\ turn \in 1 .. MaxTurns /\ ended[turn] = "none" /\ memory \in Seq(Messages)
      /\ ended \in [1 .. MaxTurns -> Stops \cup {"none"}]
  BY Bounds DEF IInv, TypeOK, Position
<1>2. Said = SaidIn(memory) /\ Said' = SaidIn(memory') /\ SaidIn(memory') = Said \cup {m}
  BY <1>1, SaidAppend DEF Said, SaidIn
<1>3. Done' = Done /\ turn \notin Done /\ Done \subseteq 1 .. MaxTurns
  BY <1>1 DEF Done
<1>4. HistoryWellFormed'
  <2>1. \E o \in Said : o.role = "user" /\ o.turn = turn
    BY DEF Remembers, Placed
  <2>2. m.role = "tool" => \E o \in Said :
           o.role = "calls" /\ o.turn = m.turn /\ o.step = m.step /\ m.at <= o.at
    BY DEF Remembers, Placed
  <2>3. memory # <<>>
    BY <1>2, <2>1 DEF SaidIn
  <2>4. Formed(memory)
    BY DEF Formed, Remembers, HistoryWellFormed
  <2>5. Formed(memory')
    BY <1>1, <1>2, <2>1, <2>2, <2>3, <2>4, FormedAppend
  <2> QED
    BY <2>5 DEF Formed, HistoryWellFormed
<1>5. CallsAnswered'
  BY <1>2, <1>3 DEF Remembers, CallsAnswered
<1>6. MemoryMatchesOutcome'
  <2>1. \A n \in Done : Told(n)
    BY OutcomeIs DEF Remembers
  <2>2. \A n \in Done' : Told(n)'
    BY <1>2, <1>3, <2>1 DEF Told
  <2>3. (MemoryMatchesOutcome <=> \A n \in Done : Told(n))'
    BY OutcomeIs, PTL
  <2> QED
    BY <2>2, <2>3
<1>7. BlockedEmpty'
  BY <1>1, <1>2 DEF Remembers, BlockedEmpty
<1> QED
  BY <1>4, <1>5, <1>6, <1>7 DEF Remembers

(* The result of a call, and the loop goes on. *)
LEMMA AnsweredRemembers ==
    ASSUME IInv, Remembers, pc \in {"approve", "running"},
           NEW event \in {Rejected} \cup Closing, Answered(event),
           UNCHANGED <<turn, deadlineVars, ended>>
    PROVE  Remembers'
<1>1. /\ turn \in 1 .. MaxTurns /\ step \in 1 .. MaxSteps /\ at \in 1 .. MaxBatch
      /\ batch \in 1 .. MaxBatch /\ at <= batch /\ InBatch /\ memory \in Seq(Messages)
      /\ reply = "none"
  BY Bounds DEF IInv, TypeOK, Position, InBatch, Remembers, Replying
<1>2. Message("tool") \in Messages
  BY <1>1, MessageType DEF IInv
<1> DEFINE m == Message("tool")
<1>3. m = Result(m, at) /\ m.role = "tool" /\ m.turn = turn /\ m.step = step /\ m.at = at
  BY DEF Message, Result
<1>4. memory' = Append(memory, m) /\ audit' = audit \cup {<<Current, event>>}
  BY DEF Answered, Record
<1>5. Said' = Said \cup {m}
  BY <1>1, <1>2, <1>4, SaidAppend DEF Said, SaidIn
<1>6. Said \subseteq Messages
  BY SaidTyped DEF IInv
<1> HIDE DEF m
<1>7. \/ at < batch /\ pc' = "call" /\ at' = at + 1 /\ UNCHANGED <<step, batch, reply>>
      \/ at = batch /\ pc' = "step" /\ step' = step + 1 /\ reply' = reply
      \/ at = batch /\ pc' = "output" /\ step' = step /\ reply' = "max_steps"
  BY <1>1 DEF Answered, NextCall, Stop
<1>8. Placed'
  <2>1. \A o \in Said : o.turn <= turn
    BY DEF Remembers, Placed
  <2>2. /\ \E o \in Said : o.role = "user" /\ o.turn = turn
        /\ \E o \in Said : o.role = "calls" /\ o.turn = turn /\ o.step = step /\ o.at = batch
        /\ \A o \in Said : o.role = "calls" /\ o.turn = turn =>
              o.step <= step /\ (o.step = step => o.at = batch)
    BY <1>1 DEF Remembers, Placed
  <2>3. \A o \in Said : o.step \in Int /\ o.at \in Int /\ o.turn \in Int
    BY <1>6, Bounds DEF Messages
  <2>4. turn' = turn
    OBVIOUS
  <2>5. CASE pc' = "call"
    BY <1>1, <1>3, <1>5, <1>7, <2>1, <2>2, <2>3, <2>4, <2>5 DEF Placed, InBatch
  <2>6. CASE pc' = "step"
    BY <1>1, <1>3, <1>5, <1>7, <2>1, <2>2, <2>3, <2>4, <2>6 DEF Placed, InBatch
  <2>7. CASE pc' = "output"
    BY <1>1, <1>3, <1>5, <1>7, <2>1, <2>2, <2>3, <2>4, <2>7 DEF Placed, InBatch
  <2> QED
    BY <1>7, <2>5, <2>6, <2>7
<1>9. Answering'
  <2> SUFFICES ASSUME turn \notin late, NEW o \in Said, o.role = "calls", o.turn = turn,
                      NEW i \in 1 .. o.at, InBatch' /\ o.step = step' => i < at'
               PROVE  Result(o, i) \in Said \cup {m}
    BY <1>3, <1>5 DEF Answering, deadlineVars
  <2>1. \A k \in 1 .. o.at : (o.step = step => k < at) => Result(o, k) \in Said
    BY <1>1 DEF Remembers, Answering
  <2>2. o.step \in Int /\ o.at \in Int /\ i \in Int
    BY <1>6, Bounds DEF Messages
  <2>3. CASE o.step = step /\ i = at
    BY <1>3, <2>3 DEF Result
  <2>4. CASE o.step = step /\ i # at
    <3>1. o.at = batch
      BY <1>1, <2>4 DEF Remembers, Placed
    <3>2. i < at
      BY <1>1, <1>7, <2>2, <2>4, <3>1 DEF InBatch
    <3> QED
      BY <2>1, <3>2
  <2>5. CASE o.step # step
    BY <2>1, <2>5
  <2> QED
    BY <2>3, <2>4, <2>5
<1>10. Replying'
  <2>1. \A o \in Said : o.turn = turn => o.role # "assistant"
    BY <1>1 DEF Remembers, Replying
  <2> QED
    BY <1>1, <1>3, <1>5, <1>7, <2>1 DEF Replying
<1>11. Clocked' /\ UNCHANGED late /\ pc' # "idle"
  BY <1>1, <1>7 DEF Remembers, Clocked, deadlineVars, InBatch
<1>12. \A n \in 1 .. MaxTurns : BlockedAt(n)' <=> BlockedAt(n)
  BY <1>4 DEF BlockedAt, Closing, Rejected
<1> QED
  BY <1>1, <1>2, <1>3, <1>4, <1>8, <1>9, <1>10, <1>11, <1>12, SaysRemembers DEF m

(* The delegate opens the turn: a prompt if there is none, and the question. *)
LEMMA OpeningRemembers == IInv /\ Remembers /\ InputAllowed => Remembers'
<1> SUFFICES ASSUME IInv, Remembers, InputAllowed PROVE Remembers'
  OBVIOUS
<1>1. /\ pc = "input" /\ pc' = "step" /\ step' = 1 /\ memory' = memory \o Opening
      /\ UNCHANGED <<maxSteps, turn, at, batch, timed, expired, fired, late, audit, reply, ended>>
  BY DEF InputAllowed, deadlineVars
<1>2. /\ turn \in 1 .. MaxTurns /\ ended[turn] = "none" /\ memory \in Seq(Messages)
      /\ ended \in [1 .. MaxTurns -> Stops \cup {"none"}] /\ reply = "none"
  BY <1>1, Bounds DEF IInv, TypeOK, Position, Remembers, Replying
<1>3. Done' = Done /\ turn \notin Done /\ Done \subseteq 1 .. MaxTurns
  BY <1>1, <1>2 DEF Done
<1> DEFINE u == Message("user")
           s == Message("system")
<1>4. /\ u \in Messages /\ u.role = "user" /\ u.turn = turn
      /\ s \in Messages /\ s.role = "system" /\ s.turn = turn
  BY <1>2, MessageType DEF IInv, Message
<1>5. Said = SaidIn(memory) /\ Said' = SaidIn(memory') /\ Formed(memory)
  BY DEF Said, SaidIn, Formed, Remembers, HistoryWellFormed
<1>6. \A o \in Said : o.turn < turn
  <2>1. \A o \in Said : o.turn <= turn /\ o.turn # turn
    BY <1>1 DEF Remembers, Placed
  <2>2. \A o \in Said : o.turn \in Int
    BY SaidTyped, Bounds DEF IInv, Messages
  <2> QED
    BY <1>2, <2>1, <2>2
<1>7. /\ Formed(memory') /\ Said' \in {Said \cup {u}, Said \cup {s, u}}
  <2>1. CASE \E i \in DOMAIN memory : memory[i].role = "system"
    <3>1. memory' = Append(memory, u) /\ memory # <<>>
      BY <1>1, <1>2, <2>1 DEF Opening
    <3>2. Formed(memory')
      BY <1>2, <1>4, <1>5, <1>6, <3>1, FormedAppend DEF u
    <3> QED
      BY <1>2, <1>4, <1>5, <3>1, <3>2, SaidAppend
  <2>2. CASE ~\E i \in DOMAIN memory : memory[i].role = "system"
    <3>1. memory = <<>>
      <4>1. 1 \in DOMAIN memory => memory[1].role = "system"
        BY DEF Remembers, HistoryWellFormed
      <4> QED
        BY <1>2, <2>2, <4>1
    <3>2. memory' = Append(<<s>>, u)
      BY <1>1, <2>2, <3>1 DEF Opening
    <3> HIDE DEF s, u
    <3>3. /\ <<s>> \in Seq(Messages) /\ <<s>> # <<>> /\ DOMAIN <<s>> = {1} /\ <<s>>[1] = s
          /\ SaidIn(<<s>>) = {s}
      BY <1>4 DEF SaidIn
    <3>4. Formed(<<s>>)
      BY <1>4, <3>3 DEF Formed
    <3>5. Formed(Append(<<s>>, u))
      BY <1>4, <3>3, <3>4, FormedAppend
    <3>6. SaidIn(Append(<<s>>, u)) = {s} \cup {u}
      BY <1>4, <3>3, SaidAppend, Zenon
    <3>7. Said = {}
      BY <1>5, <3>1 DEF SaidIn
    <3> QED
      BY <1>5, <3>2, <3>5, <3>6, <3>7
  <2> QED
    BY <2>1, <2>2
<1> HIDE DEF s, u
<1>8. /\ u \in Said' /\ Said \subseteq Said'
      /\ \A m \in Said' : m \in Said \/ (m.turn = turn /\ m.role \in {"user", "system"})
  <2>1. \A m \in Said' : m \in Said \/ m = u \/ m = s
    BY <1>7
  <2> QED
    BY <1>4, <1>7, <2>1
<1>9. HistoryWellFormed'
  BY <1>7 DEF Formed, HistoryWellFormed
<1>10. CallsAnswered'
  BY <1>1, <1>3, <1>8 DEF Remembers, CallsAnswered
<1>11. BlockedEmpty' /\ ~BlockedAt(turn)
  BY <1>1, <1>2, <1>8 DEF Remembers, BlockedEmpty, BlockedAt
<1>12. MemoryMatchesOutcome'
  <2>1. \A n \in Done : Told(n)
    BY OutcomeIs DEF Remembers
  <2>2. \A n \in Done' : Told(n)'
    <3> SUFFICES ASSUME NEW n \in Done PROVE Told(n)'
      BY <1>3
    <3>1. n # turn /\ Told(n) /\ ended'[n] = ended[n] /\ (BlockedAt(n)' <=> BlockedAt(n))
      BY <1>1, <1>3, <2>1 DEF BlockedAt
    <3>2. \A m \in Said' : m.turn = n => m \in Said
      BY <1>8, <3>1
    <3> QED
      BY <1>8, <3>1, <3>2 DEF Told
  <2>3. (MemoryMatchesOutcome <=> \A n \in Done : Told(n))'
    BY OutcomeIs, PTL
  <2> QED
    BY <2>2, <2>3
<1>13. Placed'
  <2>1. \A m \in Said' : m.turn <= turn
    BY <1>2, <1>6, <1>8 DEF Remembers, Placed
  <2>2. \A m \in Said' : m.turn = turn => m.role # "calls"
    BY <1>6, <1>8, <1>2
  <2> QED
    BY <1>1, <1>4, <1>8, <2>1, <2>2 DEF Placed, InBatch
<1>14. Answering' /\ Replying'
  <2>1. \A m \in Said' : m.turn = turn => m.role \in {"user", "system"}
    BY <1>2, <1>6, <1>8
  <2> QED
    BY <1>1, <1>2, <2>1 DEF Answering, Replying
<1>15. Clocked'
  BY <1>1 DEF Remembers, Clocked
<1> QED
  BY <1>9, <1>10, <1>11, <1>12, <1>13, <1>14, <1>15 DEF Remembers

(* Nothing is said at first. *)
LEMMA InitRemembers == Init => Remembers
<1> SUFFICES ASSUME Init PROVE Remembers
  OBVIOUS
<1>1. memory = <<>> /\ Said = {} /\ Done = {} /\ audit = {} /\ turn = 0 /\ pc = "idle"
      /\ reply = "none" /\ ~expired /\ ~fired
  BY DEF Init, Said, Done
<1>2. Clocked /\ Placed /\ Answering /\ Replying /\ BlockedEmpty
  BY <1>1 DEF Clocked, Placed, Answering, Replying, BlockedEmpty, BlockedAt, InBatch
<1>3. HistoryWellFormed /\ CallsAnswered /\ MemoryMatchesOutcome
  BY <1>1 DEF HistoryWellFormed, CallsAnswered, MemoryMatchesOutcome
<1> QED
  BY <1>2, <1>3 DEF Remembers

(* Every step of the turn, and what runs beside it, keeps the memory right. *)
LEMMA StepRemembers == IInv /\ Remembers /\ [Next]_vars => Remembers'
<1> SUFFICES ASSUME IInv, Remembers, [Next]_vars PROVE Remembers'
  OBVIOUS
<1>1. /\ turn \in 0 .. MaxTurns /\ ended \in [1 .. MaxTurns -> Stops \cup {"none"}]
      /\ Said \subseteq Messages
      /\ pc # "idle" => turn \in 1 .. MaxTurns /\ ended[turn] = "none"
  BY Bounds, SaidTyped DEF IInv, TypeOK, Position
<1>2. Clocked /\ Replying
  BY DEF Remembers
<1>3. CASE UNCHANGED vars \/ \E c \in threads : ThreadActs(c) \/ ThreadEnds(c)
  <2>1. UNCHANGED <<turn, pc, step, at, batch, expired, fired, memory, audit, reply, ended, late>>
    BY <1>3 DEF vars, ThreadActs, ThreadEnds, loopVars, deadlineVars
  <2>2. \A n \in 1 .. MaxTurns : BlockedAt(n)' <=> BlockedAt(n)
    BY <2>1 DEF BlockedAt
  <2>3. Said' = Said /\ HistoryWellFormed' /\ CallsAnswered' /\ MemoryMatchesOutcome'
    BY <1>1, <2>1, <2>2, QuietKept
  <2>4. Clocked' /\ Placed' /\ Answering' /\ Replying' /\ BlockedEmpty'
    BY <2>1, <2>2, <2>3 DEF Remembers, Clocked, Placed, Answering, Replying, BlockedEmpty, InBatch
  <2> QED
    BY <2>3, <2>4 DEF Remembers
<1>4. CASE StartTurn
  <2>1. /\ pc = "idle" /\ pc' = "entry" /\ turn' = turn + 1
        /\ UNCHANGED <<step, at, batch, expired, fired, memory, reply, ended, late>>
        /\ audit' = audit \cup {<<<<turn + 1>>, "turn.start">>}
    BY <1>4 DEF StartTurn, loopVars
  <2>2. \A n \in 1 .. MaxTurns : BlockedAt(n)' <=> BlockedAt(n)
    BY <2>1 DEF BlockedAt
  <2>3. Said' = Said /\ HistoryWellFormed' /\ CallsAnswered' /\ MemoryMatchesOutcome'
    BY <1>1, <2>1, <2>2, QuietKept
  <2>4. \A m \in Said : m.turn \in Int /\ m.turn <= turn /\ m.turn < turn'
    BY <1>1, <2>1, Bounds DEF Remembers, Placed, Messages
  <2>5. Placed'
    BY <1>1, <2>1, <2>3, <2>4 DEF Placed, InBatch
  <2>6. Answering' /\ Replying' /\ Clocked'
    BY <1>1, <1>2, <2>1, <2>3, <2>4 DEF Answering, Replying, Clocked
  <2>7. BlockedEmpty'
    BY <1>1, <2>1, <2>2, <2>3 DEF Remembers, BlockedEmpty
  <2> QED
    BY <2>3, <2>5, <2>6, <2>7 DEF Remembers
<1>5. CASE EnterScope
  <2>1. CASE expired /\ End("deadline_exceeded", {})
    <3>1. \A n \in 1 .. MaxTurns : BlockedAt(n)' <=> BlockedAt(n)
      BY <2>1 DEF End, BlockedAt
    <3> QED
      BY <1>2, <1>5, <2>1, <3>1, EndRemembers DEF EnterScope, Clocked, Stops
  <2>2. CASE ~expired /\ pc' = "input" /\ UNCHANGED <<turn, loopVars, deadlineVars, memory,
                                                      audit, reply, ended>>
    <3>1. \A n \in 1 .. MaxTurns : BlockedAt(n)' <=> BlockedAt(n)
      BY <2>2 DEF BlockedAt
    <3>2. Clocked'
      BY <1>2, <1>5, <2>2 DEF Clocked, EnterScope, deadlineVars
    <3> QED
      BY <1>5, <2>2, <3>1, <3>2, QuietRemembers DEF EnterScope, loopVars, deadlineVars
  <2> QED
    BY <1>5, <2>1, <2>2 DEF EnterScope
<1>6. CASE InputStops
  <2>1. pc = "input" /\ ~InBatch /\ reply = "none"
    BY <1>2, <1>6 DEF InputStops, InBatch, Replying
  <2>2. PICK reason \in {"blocked", "deadline_exceeded", "raised"},
             events \in SUBSET {<<<<turn>>, "guardrail.block.INPUT">>} : End(reason, events)
    BY <1>6 DEF InputStops, Return
  <2>3. \A n \in 1 .. MaxTurns : BlockedAt(n)' /\ ~BlockedAt(n) => n = turn
    BY <2>2 DEF End, BlockedAt
  <2>4. \A n \in 1 .. MaxTurns : BlockedAt(n) => BlockedAt(n)'
    BY <2>2 DEF End, BlockedAt
  <2>5. reason \in Stops
    BY DEF Stops
  <2> QED
    BY <2>1, <2>2, <2>3, <2>4, <2>5, EndRemembers
<1>7. CASE InputAllowed
  BY <1>7, OpeningRemembers
<1>8. CASE OutputDone
  <2>1. pc = "output" /\ ~InBatch
    BY <1>8 DEF OutputDone, InBatch
  <2>2. PICK reason \in {reply, "blocked", "deadline_exceeded", "raised"},
             events \in SUBSET {<<<<turn>>, "guardrail.block.OUTPUT">>} : End(reason, events)
    BY <1>8 DEF OutputDone, Return
  <2>3. \A n \in 1 .. MaxTurns : BlockedAt(n)' <=> BlockedAt(n)
    BY <2>2 DEF End, BlockedAt
  <2>4. reason \in Stops
    BY <1>2, <2>1 DEF IInv, TypeOK, Stops, Replying
  <2> QED
    BY <2>1, <2>2, <2>3, <2>4, EndRemembers
<1>9. CASE Cancelled
  <2>1. pc # "idle" /\ turn \in late /\ End("deadline_exceeded", {})
    BY <1>2, <1>9 DEF Cancelled, InScope, Clocked
  <2>2. \A n \in 1 .. MaxTurns : BlockedAt(n)' <=> BlockedAt(n)
    BY <2>1 DEF End, BlockedAt
  <2> QED
    BY <2>1, <2>2, EndRemembers DEF Stops
<1>10. CASE ApprovalRaises
  <2>1. pc # "idle" /\ End("raised", {})
    BY <1>10 DEF ApprovalRaises
  <2>2. \A n \in 1 .. MaxTurns : BlockedAt(n)' <=> BlockedAt(n)
    BY <2>1 DEF End, BlockedAt
  <2> QED
    BY <2>1, <2>2, EndRemembers DEF Stops
<1>11. CASE BeginStep \/ CheckCall \/ CallStarts \/ ModelFails
  <2>1. /\ UNCHANGED <<turn, step, at, batch, memory, ended, late, expired, fired>>
        /\ pc # "idle" /\ pc' # "idle"
        /\ \/ pc = "step" /\ pc' = "model" /\ reply' = reply
           \/ pc = "call" /\ pc' = "approve" /\ reply' = reply
           \/ pc = "approve" /\ pc' = "running" /\ reply' = reply
           \/ /\ pc \in {"step", "model", "call"} /\ pc' = "output"
              /\ reply' \in {"deadline_exceeded", "model_error"}
              /\ pc = "call" => expired
        /\ \E s \in Call \cup {<<turn>>} :
              audit' \subseteq audit \cup {<<s, "error">>, <<s, "tool.start">>}
              /\ audit \subseteq audit'
    BY <1>11, CurrentIsCall
       DEF BeginStep, CheckCall, CallStarts, ModelFails, Stop, Record, loopVars, deadlineVars
  <2>2. \A n \in 1 .. MaxTurns : BlockedAt(n)' <=> BlockedAt(n)
    BY <2>1 DEF BlockedAt
  <2>3. Clocked' /\ (expired => turn \in late)
    BY <1>2, <2>1 DEF Clocked
  <2> QED
    BY <2>1, <2>2, <2>3, QuietRemembers DEF InBatch
<1>12. CASE DeadlinePasses \/ TimerFires
  <2>1. /\ UNCHANGED <<turn, pc, step, at, batch, memory, audit, reply, ended>> /\ pc # "idle"
        /\ late' \in {late, late \cup {turn}}
        /\ Clocked'
    BY <1>2, <1>12 DEF DeadlinePasses, TimerFires, InScope, loopVars, Clocked
  <2>2. \A n \in 1 .. MaxTurns : BlockedAt(n)' <=> BlockedAt(n)
    BY <2>1 DEF BlockedAt
  <2> QED
    BY <2>1, <2>2, QuietRemembers
<1>13. CASE ModelAnswers
  <2>1. /\ pc = "model" /\ memory' = Append(memory, Message("assistant")) /\ pc' = "output"
        /\ reply' = "completed"
        /\ UNCHANGED <<turn, step, at, batch, ended, late, expired, fired, audit>>
    BY <1>13 DEF ModelAnswers, Stop, loopVars, deadlineVars
  <2> DEFINE m == Message("assistant")
  <2>2. m \in Messages /\ m.role = "assistant" /\ m.turn = turn
    BY <1>1, <2>1, MessageType DEF IInv, Message
  <2>3. Said' = Said \cup {m}
    BY SMTT(30), <2>1, <2>2, SaidAppend DEF IInv, TypeOK, Said, SaidIn
  <2> HIDE DEF m
  <2>4. Placed'
    BY <1>1, <2>1, <2>2, <2>3 DEF Remembers, Placed, InBatch
  <2>5. Answering'
    BY <2>1, <2>2, <2>3 DEF Remembers, Answering, InBatch, Result
  <2>6. Replying'
    BY <2>1, <2>2, <2>3 DEF Replying
  <2>7. Clocked' /\ \A n \in 1 .. MaxTurns : BlockedAt(n)' <=> BlockedAt(n)
    BY <1>2, <2>1 DEF Clocked, BlockedAt
  <2> QED
    BY <2>1, <2>2, <2>4, <2>5, <2>6, <2>7, SaysRemembers DEF m
<1>14. CASE ModelCallsTools
  <2>1. PICK n \in 1 .. MaxBatch :
          batch' = n /\ memory' = Append(memory, [Message("calls") EXCEPT !.at = n])
    BY <1>14 DEF ModelCallsTools
  <2>2. /\ pc = "model" /\ pc' = "call" /\ at' = 1
        /\ UNCHANGED <<turn, step, ended, late, expired, fired, audit, reply>>
    BY <1>14 DEF ModelCallsTools, deadlineVars
  <2> DEFINE m == [Message("calls") EXCEPT !.at = n]
  <2>3. m \in Messages /\ m.role = "calls" /\ m.turn = turn /\ m.step = step /\ m.at = n
    BY <1>1, <2>2, MessageType DEF IInv, Message
  <2>4. Said' = Said \cup {m}
    BY SMTT(30), <2>1, <2>3, SaidAppend DEF IInv, TypeOK, Said, SaidIn
  <2> HIDE DEF m
  <2>5. \A o \in Said : o.role = "calls" /\ o.turn = turn => o.step < step
    BY <2>2 DEF Remembers, Placed
  <2>6. step \in Int /\ turn \in Int /\ \A o \in Said : o.step \in Int /\ o.turn \in Int
    BY <1>1, Bounds DEF IInv, TypeOK, Messages
  <2>7. Placed'
    BY <1>1, <2>1, <2>2, <2>3, <2>4, <2>5, <2>6 DEF Remembers, Placed, InBatch
  <2>8. Answering'
    <3> SUFFICES ASSUME turn \notin late, NEW o \in Said', o.role = "calls", o.turn = turn,
                        NEW i \in 1 .. o.at, o.step = step => i < 1
                 PROVE  Result(o, i) \in Said'
      BY <2>2 DEF Answering, InBatch
    <3>1. o \in Said
      BY <2>3, <2>4
    <3>2. Result(o, i) \in Said
      BY <2>2, <3>1 DEF Remembers, Answering, InBatch
    <3> QED
      BY <2>4, <3>2
  <2>9. Replying'
    BY <1>2, <2>2, <2>3, <2>4 DEF Replying
  <2>10. Clocked' /\ \A k \in 1 .. MaxTurns : BlockedAt(k)' <=> BlockedAt(k)
    BY <1>2, <2>2 DEF Clocked, BlockedAt
  <2> QED
    BY <2>1, <2>2, <2>3, <2>7, <2>8, <2>9, <2>10, SaysRemembers DEF m
<1>15. CASE CallRejected \/ ToolReturns \/ ToolRaises \/ ToolTimesOut
  BY <1>15, AnsweredRemembers DEF CallRejected, ToolReturns, ToolRaises, ToolTimesOut, Closing
<1> QED
  BY <1>3, <1>4, <1>5, <1>6, <1>7, <1>8, <1>9, <1>10, <1>11, <1>12, <1>13, <1>14, <1>15
  DEF Next, TurnStep

(* Over any number of turns, the history the model is sent is a conversation with
   the result of every call, and says what each turn reported, whatever times out,
   raises or is cut off (DefaultAgent.run and its loop). *)
THEOREM SessionRemembersAlways == Spec => []SessionRemembers
<1>1. Spec => []Remembers
  BY InitRemembers, StepRemembers, Invariant, PTL DEF Spec
<1>2. IInv /\ Remembers => SessionRemembers
  BY DEF IInv, Remembers, SessionRemembers
<1> QED
  BY <1>1, <1>2, Invariant, PTL
==============================================================================
