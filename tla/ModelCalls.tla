----------------------------- MODULE ModelCalls -----------------------------
(***************************************************************************)
(* Runs that share one TokenBudget (budget.py): BudgetAgent around an      *)
(* agent whose model calls go through ResilientModelPort (resilient.py),   *)
(* and its BudgetObserver.  A call of the provider is billed when it was   *)
(* answered, in time or not; an answer costs Cost tokens at most.          *)
(***************************************************************************)
EXTENDS Integers, FiniteSets, Functions

CONSTANTS
    Runs,
    Limit, Cost,                \* token limit; tokens of the dearest answer
    MaxAttempts,                \* max_attempts of the model port
    MaxSteps,                   \* model calls in one run of the agent
    MaxRuns                     \* bound of the model

VARIABLES
    total,      \* input_tokens + output_tokens of the budget
    billed,     \* tokens the provider was paid for
    late,       \* tokens of answers that were thrown away
    run,        \* each run: phase, model calls and attempts so far, last answer
    begun

vars == <<total, billed, late, run, begun>>

Idle == [phase |-> "idle"]
Exhausted == total >= Limit

Init ==
    /\ total = 0 /\ billed = 0 /\ late = 0
    /\ run = [r \in Runs |-> Idle]
    /\ begun = 0

Set(r, v) == run' = [run EXCEPT ![r] = v]

(* Mutant: a request is let in whatever was used. *)
Begin_Unchecked(r) ==
    /\ run[r].phase = "idle" /\ begun < MaxRuns
    /\ begun' = begun + 1
    /\ Set(r, [phase |-> "call", calls |-> 1, attempt |-> 1])
    /\ UNCHANGED <<total, billed, late>>

(* BudgetAgent.run refuses when the budget is exhausted. *)
Begin(r) ==
    /\ run[r].phase = "idle" /\ begun < MaxRuns
    /\ begun' = begun + 1
    /\ Set(r, IF Exhausted THEN [phase |-> "stopped"]
              ELSE [phase |-> "call", calls |-> 1, attempt |-> 1])
    /\ UNCHANGED <<total, billed, late>>

(* The answer is in time: on_usage adds it, 0 for numbers that are missing. *)
Answer(r, tokens) ==
    /\ run[r].phase = "call"
    /\ billed' = billed + tokens
    /\ total' = total + tokens
    /\ Set(r, [run[r] EXCEPT !.phase = "decide"])
    /\ UNCHANGED <<late, begun>>

(* An attempt failed: it is made again unless it was the last one. *)
Again(r) == IF run[r].attempt >= MaxAttempts THEN [phase |-> "failed"]
            ELSE [run[r] EXCEPT !.phase = "backoff"]

(* The call is cancelled at timeout_seconds; the answer may have been on its
   way, or there already when the deadline was looked at. *)
Timeout(r, tokens) ==
    /\ run[r].phase = "call"
    /\ billed' = billed + tokens /\ late' = late + tokens
    /\ Set(r, Again(r))
    /\ UNCHANGED <<total, begun>>

(* The delegate raises: a retryable exception, or one that is not. *)
Raise(r, retryable) ==
    /\ run[r].phase = "call"
    /\ Set(r, IF retryable THEN Again(r) ELSE [phase |-> "failed"])
    /\ UNCHANGED <<total, billed, late, begun>>

(* Mutant: a retry is not counted as an attempt. *)
Retry_Uncounted(r) ==
    /\ run[r].phase = "backoff"
    /\ Set(r, [run[r] EXCEPT !.phase = "call"])
    /\ UNCHANGED <<total, billed, late, begun>>

(* After the jittered backoff. *)
Retry(r) ==
    /\ run[r].phase = "backoff"
    /\ Set(r, [phase |-> "call", calls |-> run[r].calls, attempt |-> run[r].attempt + 1])
    /\ UNCHANGED <<total, billed, late, begun>>

(* The agent calls the model again, with its next step. *)
CallAgain(r) ==
    /\ run[r].phase = "decide" /\ run[r].calls < MaxSteps
    /\ Set(r, [phase |-> "call", calls |-> run[r].calls + 1, attempt |-> 1])
    /\ UNCHANGED <<total, billed, late, begun>>

(* The agent completes; BudgetAgent looks at the budget again. *)
Finish(r) ==
    /\ run[r].phase = "decide"
    /\ Set(r, [phase |-> IF Exhausted THEN "stopped" ELSE "completed"])
    /\ UNCHANGED <<total, billed, late, begun>>

(* The caller has the answer and may ask again. *)
Over(r) == run[r].phase \in {"completed", "stopped", "failed"}
Return(r) == Over(r) /\ Set(r, Idle) /\ UNCHANGED <<total, billed, late, begun>>

(* TokenBudget.reset *)
Reset == total > 0 /\ total' = 0 /\ UNCHANGED <<billed, late, run, begun>>

Progress(r) ==
    \/ \E tokens \in 0 .. Cost : Answer(r, tokens) \/ Timeout(r, tokens)
    \/ \E retryable \in BOOLEAN : Raise(r, retryable)
    \/ Retry(r) \/ CallAgain(r) \/ Finish(r)

Next ==
    \/ \E r \in Runs : Begin(r) \/ Progress(r) \/ Return(r)
    \/ Reset

(* A call times out and a sleep ends: no run waits for ever. *)
Spec == Init /\ [][Next]_vars /\ \A r \in Runs : WF_vars(Progress(r))

------------------------------------------------------------------------------
(* What each run may still cost. *)
Left == [r \in Runs |->
    CASE run[r].phase \in {"call", "backoff"} -> Cost * (MaxSteps - run[r].calls + 1)
      [] run[r].phase = "decide"             -> Cost * (MaxSteps - run[r].calls)
      [] OTHER                               -> 0]

Expected == total + SumFunctionOnSet(Left, Runs)

(* "short-circuits when the budget is exhausted": however many requests come,
   what is used beyond the limit was used by runs that were let in before it was
   reached, by each at most what its steps can cost. *)
OverrunBounded ==
    /\ Expected > 0 => Expected < Limit + Cardinality(Runs) * (MaxSteps * Cost)
    /\ total + late <= billed

(* A model that keeps failing or hanging does not keep a run: it comes to its
   end, whatever the other runs do. *)
RunsEnd == \A r \in Runs : run[r].phase = "call" ~> Over(r)

------------------------------------------------------------------------------
(* The inductive invariant. *)
Made == {"call", "backoff", "decide"}   \* a run that has made calls

Shaped ==
    /\ total \in Nat /\ billed \in Nat /\ late \in Nat
    /\ run \in [Runs -> [phase : {"idle", "stopped", "completed", "failed"}]
                       \cup [phase : Made, calls : 1 .. MaxSteps, attempt : Nat]]

IInv == Shaped /\ OverrunBounded
==============================================================================
