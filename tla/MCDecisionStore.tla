--------------------------- MODULE MCDecisionStore ---------------------------
(* Three threads: two share a store, the third runs in another process.      *)
EXTENDS DecisionStore

CONSTANTS s1, s2, t1, t2, t3

MCStoreOf == [t \in Task |-> IF t = t3 THEN s2 ELSE s1]
==============================================================================
