----------------------------- MODULE DecisionOps -----------------------------
(***************************************************************************)
(* The decision records of demos/analytics (decision_store.py) and what    *)
(* each mutating operation of DecisionStore does to them.  Comments,       *)
(* authors, dates and schedules are left out; a history record keeps the   *)
(* operation that wrote it and the stage it wrote.                         *)
(***************************************************************************)
EXTENDS Sequences

CONSTANTS
    Rid,      \* unit_id::action_type
    Status,   \* the statuses used, a subset of STATUSES
    Stage     \* the stages used by set_stage, a subset of STAGES

ASSUME StatusAssumption == Status \subseteq {"accepted", "rejected", "deferred", "pending"}
ASSUME StageAssumption  ==
    Stage \subseteq {"pending", "approved", "scheduled", "implemented",
                     "rejected", "deferred"}

(* VERB_TO_STAGE.get(status, "pending") *)
VerbToStage(status) ==
    CASE status = "accepted" -> "approved"
      [] status = "rejected" -> "rejected"
      [] status = "deferred" -> "deferred"
      [] OTHER               -> "pending"

(* No entry yet: the first operation on a rid creates it with one history
   record, so an empty history stands for a missing entry. *)
Missing == [status |-> "pending", stage |-> "pending",
            notify |-> "not_requested", history |-> <<>>]

Empty == [entries |-> [r \in Rid |-> Missing], outcomes |-> <<>>]

Operation ==
    [kind : {"record"}, rid : Rid, value : Status]
      \cup [kind : {"set_stage"}, rid : Rid, value : Stage]
      \cup [kind : {"notify_host"}, rid : Rid, value : {"requested"}]
      \cup [kind : {"record_outcome"}, rid : Rid, value : {"outcome"}]
      \cup [kind : {"close"}]

(* Mutant: the guard of record is forgotten. *)
RecordedStage_NoGuard(entry, status) == VerbToStage(status)

(* The stage that record gives an entry. *)
RecordedStage(entry, status) ==
    IF /\ entry.history # <<>>
       /\ entry.stage \in {"scheduled", "implemented"}
       /\ VerbToStage(status) \in {"approved", "pending"}
    THEN entry.stage
    ELSE VerbToStage(status)

Record(entry, status, who) ==
    LET stage == RecordedStage(entry, status)
    IN  [entry EXCEPT !.status = status, !.stage = stage,
                      !.history = Append(@, [by |-> who, stage |-> stage])]

(* Mutant: the stage is changed and not logged. *)
SetStage_Unlogged(entry, stage, who) == [entry EXCEPT !.stage = stage]

SetStage(entry, stage, who) ==
    [entry EXCEPT !.stage = stage,
                  !.history = Append(@, [by |-> who, stage |-> stage])]

(* Mutant: the notification is written over the stage. *)
NotifyHost_Stage(entry, who) ==
    [entry EXCEPT !.stage = "requested",
                  !.history = Append(@, [by |-> who, stage |-> "none"])]

NotifyHost(entry, who) ==
    [entry EXCEPT !.notify = "requested",
                  !.history = Append(@, [by |-> who, stage |-> "none"])]

(* The body of an operation of task `who` on the contents of the store; close
   only makes the store reload and save. *)
Effect(db, operation, who) ==
    LET entry == db.entries[operation.rid]
        put(e) == [db EXCEPT !.entries[operation.rid] = e]
    IN  CASE operation.kind = "close" -> db
          [] operation.kind = "record" -> put(Record(entry, operation.value, who))
          [] operation.kind = "set_stage" -> put(SetStage(entry, operation.value, who))
          [] operation.kind = "notify_host" -> put(NotifyHost(entry, who))
          [] OTHER -> [db EXCEPT !.outcomes = Append(@, who)]
==============================================================================
