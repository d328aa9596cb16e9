----------------------------- MODULE DecisionLog -----------------------------
(***************************************************************************)
(* What DecisionStore promises its callers, whatever processes share the   *)
(* file: each operation takes effect once and at one instant, before it    *)
(* returns; one that fails or whose process dies has taken effect or not,  *)
(* and nothing else ever changes the log.                                  *)
(***************************************************************************)
EXTENDS DecisionOps

CONSTANT Task

VARIABLES
    db,         \* contents of the store
    operation,  \* what each task asked for
    state       \* "idle", "waiting", "applied", "returned" or "gave up"

logVars == <<db, operation, state>>

NoOperation == [kind |-> "none"]

Init ==
    /\ db = Empty
    /\ operation = [t \in Task |-> NoOperation]
    /\ state = [t \in Task |-> "idle"]

Ask(t) ==
    /\ state[t] = "idle"
    /\ \E op \in Operation : operation' = [operation EXCEPT ![t] = op]
    /\ state' = [state EXCEPT ![t] = "waiting"]
    /\ UNCHANGED db

Apply(t) ==
    /\ state[t] = "waiting"
    /\ db' = Effect(db, operation[t], t)
    /\ state' = [state EXCEPT ![t] = "applied"]
    /\ UNCHANGED operation

Return(t) ==
    /\ state[t] = "applied"
    /\ state' = [state EXCEPT ![t] = "returned"]
    /\ UNCHANGED <<db, operation>>

(* Any number of tasks fail or die together. *)
GiveUp(T) ==
    /\ \A t \in T : state[t] \in {"waiting", "applied"}
    /\ state' = [t \in Task |-> IF t \in T THEN "gave up" ELSE state[t]]
    /\ UNCHANGED <<db, operation>>

Next ==
    \/ \E t \in Task : Ask(t) \/ Apply(t) \/ Return(t)
    \/ \E T \in SUBSET Task : GiveUp(T)

Spec == Init /\ [][Next]_logVars
==============================================================================
