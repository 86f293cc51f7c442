----------------------- MODULE RecommendationMachine -----------------------
(***************************************************************************)
(* The recommendation transition table of app/state_machine: the states,   *)
(* the events and the guards of StateMachine.transition.  The module has   *)
(* no variables; RecommendationLifecycle runs the table on its own and     *)
(* RunCoordinator runs it from the durable record of a plan.               *)
(*                                                                         *)
(* A proposal is what an evaluator hands to the machine: an event, the     *)
(* validated guard outcomes, and how the sale source and the quantity it   *)
(* names compare with the plan and the position ("authorized" stands for   *)
(* a position that passes ensure_authorized_rotation_source, "within" for  *)
(* a positive quantity not above the position's).                          *)
(***************************************************************************)

States == {"IDLE", "WATCHING", "NEAR_TRIGGER", "ACTION_PENDING",
           "ACTION_NOTIFIED", "DATA_DEGRADED", "INVALIDATED",
           "PARTIALLY_EXECUTED", "WAITING_CONFIRMATION", "STAGE_COMPLETED",
           "ROTATION_COMPLETED", "PAUSED"}

Events == {"PLAN_ACTIVATED", "DATA_DEGRADED", "DATA_RECOVERED", "NEAR_SIGNAL",
           "ACTION_SIGNAL", "DECISION_VALIDATED", "VALIDATION_FAILED",
           "SIGNAL_INVALIDATED", "EXECUTION_CONFIRMED", "NEXT_STAGE_ELIGIBLE",
           "RESUME_REMAINING_STAGES", "ALL_STAGES_DONE", "PLAN_PAUSED",
           "PLAN_RESUMED"}

DataOutcomes == {"UNKNOWN", "DEGRADED", "FRESH_COMPLETE", "FRESH_FULL_EVALUATION"}
RuleOutcomes == {"NOT_EVALUATED", "FAILED", "PASSED", "FRESH_FULL_EVALUATION"}
SizingOutcomes == {"NOT_VALIDATED", "FAILED", "PASSED"}
ConfirmationOutcomes == {"PARTIAL", "STAGE_COMPLETED"}
Sources == {"none", "authorized", "unauthorized"}
Quantities == {"none", "within", "above"}

AllProposals ==
  [event : Events, planValid : BOOLEAN, data : DataOutcomes,
   rule : RuleOutcomes, sizing : SizingOutcomes, authorized : BOOLEAN,
   confirmed : BOOLEAN, confirmation : ConfirmationOutcomes,
   source : Sources, quantity : Quantities]

(* TransitionResult, reduced to what the strategy run keeps of it. *)
Results == [state : States, halted : BOOLEAN, intent : BOOLEAN]

To(next, halted) == [state |-> next, halted |-> halted, intent |-> FALSE]
Stay(s, h) == To(s, h)
-----------------------------------------------------------------------------
(* Mutants: plausible bugs of the table, each breaking one property that   *)
(* LifecycleHistory states.                                                *)

(* Recovered data restores the recommendation it had suspended. *)
DataRecoveredRestoresAction(s, h, p, r) ==
  /\ p.event = "DATA_RECOVERED"
  /\ p.data = "FRESH_FULL_EVALUATION"
  /\ \/ s = "WATCHING" /\ r = Stay(s, h)
     \/ s = "DATA_DEGRADED" /\ h /\ r = To("WAITING_CONFIRMATION", TRUE)
     \/ s = "DATA_DEGRADED" /\ ~h /\ r = To("ACTION_PENDING", h)

(* The result of an invalidation keeps the request's halt flag. *)
SignalInvalidatedKeepsHalt(s, h, p, r) ==
  /\ p.event = "SIGNAL_INVALIDATED"
  /\ p.rule = "PASSED"
  /\ \/ s = "INVALIDATED" /\ r = Stay(s, h)
     \/ s = "PARTIALLY_EXECUTED" /\ r = To("WAITING_CONFIRMATION", TRUE)
     \/ /\ s \in {"WATCHING", "NEAR_TRIGGER", "ACTION_PENDING", "ACTION_NOTIFIED"}
        /\ r = To("INVALIDATED", h)

(* The repeated DECISION_VALIDATED is not recognised as a no-op. *)
DecisionValidatedTwice(s, h, p, r) ==
  /\ p.event = "DECISION_VALIDATED"
  /\ p.sizing = "PASSED"
  /\ s \in {"ACTION_PENDING", "ACTION_NOTIFIED"}
  /\ r = [state |-> "ACTION_NOTIFIED", halted |-> h, intent |-> TRUE]

(* Resuming a paused plan also clears the halt. *)
PlanResumedClearsHalt(s, h, p, r) ==
  /\ p.event = "PLAN_RESUMED"
  /\ p.authorized
  /\ p.rule = "FRESH_FULL_EVALUATION"
  /\ s \in {"WATCHING", "PAUSED"}
  /\ r = To("WATCHING", FALSE)

(* The terminal state can be paused. *)
PlanPausedAnywhere(s, h, p, r) ==
  /\ p.event = "PLAN_PAUSED"
  /\ p.authorized
  /\ r = To("PAUSED", h)
-----------------------------------------------------------------------------
(* One relation per event: r is the result of proposal p in (s, h).  A     *)
(* proposal no result satisfies is one the code rejects with               *)
(* TransitionNotAllowed.                                                   *)

PlanPaused(s, h, p, r) ==
  /\ p.event = "PLAN_PAUSED"
  /\ p.authorized
  /\ s # "ROTATION_COMPLETED"
  /\ r = To("PAUSED", h)

PlanResumed(s, h, p, r) ==
  /\ p.event = "PLAN_RESUMED"
  /\ p.authorized
  /\ p.rule = "FRESH_FULL_EVALUATION"
  /\ s \in {"WATCHING", "PAUSED"}
  /\ r = To("WATCHING", h)

DataDegraded(s, h, p, r) ==
  /\ p.event = "DATA_DEGRADED"
  /\ p.data = "DEGRADED"
  /\ \/ /\ s \in {"DATA_DEGRADED", "WAITING_CONFIRMATION"}
        /\ r = Stay(s, h)
     \/ /\ s = "PARTIALLY_EXECUTED"
        /\ r = To("WAITING_CONFIRMATION", TRUE)
     \/ /\ s \in {"WATCHING", "NEAR_TRIGGER", "ACTION_PENDING",
                  "ACTION_NOTIFIED", "STAGE_COMPLETED"}
        /\ r = To("DATA_DEGRADED", h)

DataRecovered(s, h, p, r) ==
  /\ p.event = "DATA_RECOVERED"
  /\ p.data = "FRESH_FULL_EVALUATION"
  /\ \/ s = "WATCHING" /\ r = Stay(s, h)
     \/ s = "DATA_DEGRADED" /\ h /\ r = To("WAITING_CONFIRMATION", TRUE)
     \/ s = "DATA_DEGRADED" /\ ~h /\ r = To("WATCHING", h)

PlanActivated(s, h, p, r) ==
  /\ p.event = "PLAN_ACTIVATED"
  /\ p.planValid
  /\ s \in {"IDLE", "WATCHING"}
  /\ r = To("WATCHING", h)

NearSignal(s, h, p, r) ==
  /\ p.event = "NEAR_SIGNAL"
  /\ p.rule = "PASSED"
  /\ s \in {"WATCHING", "NEAR_TRIGGER"}
  /\ r = To("NEAR_TRIGGER", h)

ActionSignal(s, h, p, r) ==
  /\ p.event = "ACTION_SIGNAL"
  /\ p.rule = "PASSED"
  /\ s \in {"NEAR_TRIGGER", "ACTION_PENDING"}
  /\ r = To("ACTION_PENDING", h)

DecisionValidated(s, h, p, r) ==
  /\ p.event = "DECISION_VALIDATED"
  /\ p.sizing = "PASSED"
  /\ \/ s = "ACTION_NOTIFIED" /\ r = Stay(s, h)
     \/ s = "ACTION_PENDING"
        /\ r = [state |-> "ACTION_NOTIFIED", halted |-> h, intent |-> TRUE]

ValidationFailed(s, h, p, r) ==
  /\ p.event = "VALIDATION_FAILED"
  /\ s = "ACTION_PENDING"
  /\ r = To("WATCHING", h)

SignalInvalidated(s, h, p, r) ==
  /\ p.event = "SIGNAL_INVALIDATED"
  /\ p.rule = "PASSED"
  /\ \/ s = "INVALIDATED" /\ r = Stay(s, h)
     \/ s = "PARTIALLY_EXECUTED" /\ r = To("WAITING_CONFIRMATION", TRUE)
     \/ /\ s \in {"WATCHING", "NEAR_TRIGGER", "ACTION_PENDING", "ACTION_NOTIFIED"}
        /\ r = To("INVALIDATED", TRUE)

ExecutionConfirmed(s, h, p, r) ==
  /\ p.event = "EXECUTION_CONFIRMED"
  /\ p.confirmed
  /\ \/ /\ s \in {"DATA_DEGRADED", "INVALIDATED", "WAITING_CONFIRMATION"}
        /\ r = To("WAITING_CONFIRMATION", TRUE)
     \/ /\ s = "ACTION_NOTIFIED"
        /\ p.confirmation = "PARTIAL"
        /\ r = To("PARTIALLY_EXECUTED", h)
     \/ /\ s = "ACTION_NOTIFIED"
        /\ p.confirmation # "PARTIAL"
        /\ r = To("STAGE_COMPLETED", h)

NextStageEligible(s, h, p, r) ==
  /\ p.event = "NEXT_STAGE_ELIGIBLE"
  /\ ~h
  /\ p.rule = "FRESH_FULL_EVALUATION"
  /\ s \in {"ACTION_PENDING", "PARTIALLY_EXECUTED"}
  /\ r = To("ACTION_PENDING", h)

ResumeRemainingStages(s, h, p, r) ==
  /\ p.event = "RESUME_REMAINING_STAGES"
  /\ p.authorized
  /\ p.rule = "FRESH_FULL_EVALUATION"
  /\ \/ s = "WATCHING" /\ r = Stay(s, h)
     \/ s = "WAITING_CONFIRMATION" /\ h /\ r = To("WATCHING", FALSE)

AllStagesDone(s, h, p, r) ==
  /\ p.event = "ALL_STAGES_DONE"
  /\ s \in {"STAGE_COMPLETED", "ROTATION_COMPLETED"}
  /\ r = To("ROTATION_COMPLETED", h)

(* _reject_unauthorized_sale_source: the action and sale events need an    *)
(* authorized source, a passed sizing also a quantity it can deliver.      *)
SaleSourceAccepted(p) ==
  p.event \in {"ACTION_SIGNAL", "DECISION_VALIDATED", "NEXT_STAGE_ELIGIBLE"} =>
    /\ p.source = "authorized"
    /\ p.event = "DECISION_VALIDATED" /\ p.sizing = "PASSED" =>
         p.quantity = "within"

(* StateMachine.transition. *)
Transition(s, h, p, r) ==
  /\ SaleSourceAccepted(p)
  /\ \/ PlanPaused(s, h, p, r)         \/ PlanResumed(s, h, p, r)
     \/ DataDegraded(s, h, p, r)       \/ DataRecovered(s, h, p, r)
     \/ PlanActivated(s, h, p, r)      \/ NearSignal(s, h, p, r)
     \/ ActionSignal(s, h, p, r)       \/ DecisionValidated(s, h, p, r)
     \/ ValidationFailed(s, h, p, r)   \/ SignalInvalidated(s, h, p, r)
     \/ ExecutionConfirmed(s, h, p, r) \/ NextStageEligible(s, h, p, r)
     \/ ResumeRemainingStages(s, h, p, r) \/ AllStagesDone(s, h, p, r)

Allowed(s, h, p) == {r \in Results : Transition(s, h, p, r)}
=============================================================================
