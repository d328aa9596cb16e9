----------------------------- MODULE TrustGrade -----------------------------
(***************************************************************************)
(* The evidence-based grade of an answer (trust.py).  A threshold record   *)
(* th, a sample size n and a coverage cov are all multiples of 1/Unit, so  *)
(* that tuned thresholds stay whole numbers over three tunings by 5/4 or   *)
(* 4/5.  cov is a percentage.                                              *)
(***************************************************************************)
EXTENDS Integers

Unit == 8000

Tier == {"INSUFFICIENT", "DIRECTIONAL", "TRUSTED"}

Rank == [INSUFFICIENT |-> 0, DIRECTIONAL |-> 1, TRUSTED |-> 2]

MinTier(a, b) == IF Rank[a] <= Rank[b] THEN a ELSE b

DefaultThresholds ==
    [MIN_COVERAGE |-> 50 * Unit, MIN_N |-> 30 * Unit,
     ABSTAIN_N |-> 8 * Unit, TRUSTED_N |-> 200 * Unit]

(* TRUST_BOUNDS: the range that tuning may move a threshold in. *)
Low  == [MIN_COVERAGE |-> 10 * Unit, MIN_N |-> 5 * Unit,
         ABSTAIN_N |-> 3 * Unit, TRUSTED_N |-> 50 * Unit]
High == [MIN_COVERAGE |-> 95 * Unit, MIN_N |-> 200 * Unit,
         ABSTAIN_N |-> 50 * Unit, TRUSTED_N |-> 1000 * Unit]

NoGates == [g \in {} |-> TRUE]

AllPassed(gates) == DOMAIN gates # {} /\ \A g \in DOMAIN gates : gates[g]

(* The tier of a sample that is not below ABSTAIN_N; MIN_N changes the reasons
   that are given and no tier. *)
EvidenceTier(th, n, cov, gates) ==
    IF cov < th.MIN_COVERAGE THEN "INSUFFICIENT"
    ELSE IF n >= th.TRUSTED_N /\ AllPassed(gates) THEN "TRUSTED" ELSE "DIRECTIONAL"

(* grade(): half borrowed evidence, or fewer than three samples, cap the tier. *)
Grade(th, n, cov, gates, borrowed) ==
    IF n < th.ABSTAIN_N THEN "INSUFFICIENT"
    ELSE IF borrowed \/ n < 3 * Unit
         THEN MinTier(EvidenceTier(th, n, cov, gates), "DIRECTIONAL")
         ELSE EvidenceTier(th, n, cov, gates)
==============================================================================
