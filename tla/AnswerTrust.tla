---------------------------- MODULE AnswerTrust -----------------------------
(***************************************************************************)
(* The trust thresholds of a process (trust.py), and the outcome and audit *)
(* tables of SqliteAuditStore (audit_store.py) they are tuned from.  The   *)
(* thresholds are module globals: a restart reads them from the            *)
(* environment again.  Every write to the database may fail and is then    *)
(* dropped without a word.                                                 *)
(***************************************************************************)
EXTENDS TrustGrade, Sequences, FiniteSetsExt

CONSTANTS
    Start,          \* thresholds the environment configures
    MinSamples,     \* min_samples
    MaxOutcomes, MaxTunings, MaxRestarts    \* bounds of the model

VARIABLES
    threshold,      \* MIN_COVERAGE, MIN_N, ABSTAIN_N, TRUSTED_N of this process
    outcomes,       \* recommendation_outcomes: number of rows per tier and label
    audited,        \* trust_tuning rows of audit_events, oldest first
    lost,           \* tunings whose audit row was not written
    tuned,          \* result of the last tuning in this process
    tunings, restarts

vars == <<threshold, outcomes, audited, lost, tuned, tunings, restarts>>

Label == {"right", "wrong", "none"}

Untuned == [action |-> "none", applied |-> FALSE, samples |-> 0]

Init ==
    /\ threshold = Start
    /\ outcomes = [row \in Tier \X Label |-> 0]
    /\ audited = <<>>
    /\ lost = 0
    /\ tuned = Untuned
    /\ tunings = 0 /\ restarts = 0

TotalOf(rows) == MapThenSumSet(LAMBDA row : outcomes[row], rows)

(* record_outcome: a row, or nothing when the database fails. *)
RecordOutcome(tier, label) ==
    /\ TotalOf(Tier \X Label) < MaxOutcomes
    /\ outcomes' = [outcomes EXCEPT ![<<tier, label>>] = @ + 1]
    /\ UNCHANGED <<threshold, audited, lost, tuned, tunings, restarts>>

Asserted == {"TRUSTED", "DIRECTIONAL"}

(* SqliteAuditStore.tune_trust_thresholds: more than a fifth of the asserted
   answers wrong raises the bar; else more than half of the refused ones right
   lowers it. *)
Suggested ==
    LET high == TotalOf(Asserted \X {"right", "wrong"})
        low  == TotalOf({"INSUFFICIENT"} \X {"right", "wrong"})
    IN  IF high > 0 /\ 5 * TotalOf(Asserted \X {"wrong"}) > high THEN "raise"
        ELSE IF low > 0 /\ 2 * TotalOf({"INSUFFICIENT"} \X {"right"}) > low THEN "lower"
        ELSE "keep"

(* Its suggestion carries rates and no counts, so _tuning_sample_count is 0. *)
AuditSuggestion == [action |-> Suggested, samples |-> 0]

(* Suggestions of DecisionStore.tune_trust_thresholds (samplesByTier). *)
DecisionSuggestions ==
    [action : {"raise", "lower", "hold"}, samples : {MinSamples - 1, MinSamples}]

Clamp(name, v) ==
    IF v < Low[name] THEN Low[name] ELSE IF v > High[name] THEN High[name] ELSE v

(* The factor is 1.25 or its inverse. *)
Scaled(action, v) == IF action = "raise" THEN (v * 5) \div 4 ELSE (v * 4) \div 5

(* Mutant: a threshold that reaches its bound wraps to the other one. *)
Tuning_Wraps(th, action) ==
    [name \in DOMAIN th |->
        IF Scaled(action, th[name]) > High[name] THEN Low[name]
        ELSE Clamp(name, Scaled(action, th[name]))]

(* apply_trust_tuning: every threshold moves and is clamped on its own. *)
Tuning(th, action) == [name \in DOMAIN th |-> Clamp(name, Scaled(action, th[name]))]

(* record_trust_tuning through _record_event: dropped when the write fails. *)
Audit(old, new, action) ==
    \/ /\ audited' = Append(audited, [old |-> old, new |-> new, action |-> action,
                                      run |-> restarts])
       /\ UNCHANGED lost
    \/ lost' = lost + 1 /\ UNCHANGED audited

(* Mutant: the number of samples is not asked for. *)
Justified_Any(suggestion) == suggestion.action \in {"raise", "lower"}

Justified(suggestion) ==
    suggestion.action \in {"raise", "lower"} /\ suggestion.samples >= MinSamples

(* auto_tune_trust_thresholds with the toggle set: nothing is applied, or
   audited, when no threshold moves. *)
AutoTune(suggestion) ==
    LET new == Tuning(threshold, suggestion.action)
        applied == Justified(suggestion) /\ new # threshold
    IN  /\ tunings < MaxTunings
        /\ tunings' = tunings + 1
        /\ tuned' = [action |-> suggestion.action, applied |-> applied,
                     samples |-> suggestion.samples]
        /\ \/ applied /\ threshold' = new /\ Audit(threshold, new, suggestion.action)
           \/ ~applied /\ UNCHANGED <<threshold, audited, lost>>
        /\ UNCHANGED <<outcomes, restarts>>

(* The process starts again: the globals are new, the database is not. *)
Restart ==
    /\ restarts < MaxRestarts
    /\ restarts' = restarts + 1
    /\ threshold' = Start
    /\ tuned' = Untuned
    /\ UNCHANGED <<outcomes, audited, lost, tunings>>

Next ==
    \/ \E tier \in Tier, label \in Label : RecordOutcome(tier, label)
    \/ \E suggestion \in DecisionSuggestions \cup {AuditSuggestion} : AutoTune(suggestion)
    \/ Restart

Spec == Init /\ [][Next]_vars

------------------------------------------------------------------------------
(* Every variable has its type; no run of tunings puts the thresholds out of
   order, so that no sample is both refused and trusted. *)
ThresholdsOrdered ==
    /\ \A name \in DOMAIN threshold : threshold[name] \in Low[name] .. High[name]
    /\ threshold.ABSTAIN_N <= threshold.MIN_N
    /\ threshold.MIN_N <= threshold.TRUSTED_N
    /\ tuned.applied \in BOOLEAN
    /\ lost + Len(audited) <= tunings

(* The evidence that tells the tiers apart, in samples and percent. *)
Samples == {2, 3, 4, 8, 16, 25, 50, 100, 200, 800, 1000}
Coverages == {5, 10, 40, 50, 90, 100}

GradeOf(th, n, cov, gates) == Grade(th, n * Unit, cov * Unit, gates, FALSE)

(* "raise makes the bar stricter, lower makes it looser": whatever was tuned
   before and however often a threshold is clamped, no answer is graded better
   after a raise, or worse after a lower. *)
TuningIsMonotone ==
    tuned'.applied /\ tunings' # tunings =>
        \A n \in Samples, cov \in Coverages, gate \in BOOLEAN :
           LET gates == [g \in {"gate"} |-> gate]
               old == Rank[GradeOf(threshold, n, cov, gates)]
               new == Rank[GradeOf(threshold', n, cov, gates)]
           IN  IF tuned'.action = "raise" THEN new <= old ELSE new >= old

(* "auditable": when no audit row was lost, the rows of this process lead from
   the configured thresholds to the present ones, one step after the other, and
   each step rests on enough labelled outcomes. *)
TuningIsAudited ==
    LET mine == {i \in DOMAIN audited : audited[i].run = restarts}
        before(i) == IF i - 1 \in mine THEN audited[i - 1].new ELSE Start
    IN  /\ lost = 0 =>
              /\ threshold = before(Len(audited) + 1)
              /\ \A i \in mine : audited[i].old = before(i)
        /\ tuned.applied => tuned.samples >= MinSamples

(* The inductive invariant: the thresholds keep their order, and no audit row is of
   a later run of the process. *)
AuditRow ==
    [old : [DOMAIN Low -> Int], new : [DOMAIN Low -> Int], action : {"raise", "lower"}, run : Nat]

IInv ==
    /\ threshold \in [DOMAIN Low -> Int] /\ ThresholdsOrdered
    /\ audited \in Seq(AuditRow) /\ \A i \in DOMAIN audited : audited[i].run <= restarts
    /\ lost \in Nat /\ tunings \in Nat /\ restarts \in Nat
    /\ TuningIsAudited
==============================================================================
