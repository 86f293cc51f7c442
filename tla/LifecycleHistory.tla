-------------------------- MODULE LifecycleHistory --------------------------
(***************************************************************************)
(* RecommendationLifecycle with history variables, to state what a user of *)
(* the recommendation relies on over several transitions.                  *)
(***************************************************************************)
EXTENDS RecommendationLifecycle, Naturals

CONSTANT MaxDecisions   \* bound on how often ACTION_PENDING is entered

VARIABLES
  event,      \* the event of the last accepted proposal
  watched,    \* WATCHING was visited since the record was last stale
  decisions,  \* how often ACTION_PENDING was entered
  notices     \* how many notification intents the machine asked for

historyVars == <<state, halted, event, watched, decisions, notices>>

(* The states in which an earlier signal no longer counts. *)
Stale == {"IDLE", "DATA_DEGRADED", "INVALIDATED", "WAITING_CONFIRMATION", "PAUSED"}

(* The states that carry a signal, a decision or an execution. *)
Signalled == {"NEAR_TRIGGER", "ACTION_PENDING", "ACTION_NOTIFIED",
              "PARTIALLY_EXECUTED", "STAGE_COMPLETED", "ROTATION_COMPLETED"}

HInit ==
  /\ state = "IDLE" /\ halted = FALSE
  /\ event = "PLAN_PAUSED" /\ watched = FALSE
  /\ decisions = 0 /\ notices = 0

Enters(r) == r.state = "ACTION_PENDING" /\ state # "ACTION_PENDING"

HAdvance(p, r) ==
  /\ Advance(p, r)
  /\ Enters(r) => decisions < MaxDecisions
  /\ event' = p.event
  /\ watched' = (r.state \notin Stale /\ (watched \/ r.state = "WATCHING"))
  /\ decisions' = IF Enters(r) THEN decisions + 1 ELSE decisions
  /\ notices' = IF r.intent THEN notices + 1 ELSE notices

HNext == \E p \in Proposals : \E r \in Allowed(state, halted, p) : HAdvance(p, r)

HSpec == HInit /\ [][HNext]_historyVars
-----------------------------------------------------------------------------
(* docs/state-machine.md, "Recovery always requires a new full evaluation  *)
(* and never restores the old action": after data degradation,             *)
(* invalidation, a pause or a wait for confirmation no signal, decision or *)
(* execution state is held before WATCHING has been visited again.         *)
NeverRevived == state \in Signalled => watched

(* DECISION_VALIDATED asks for one notification intent per decision: the   *)
(* repeated event is the no-op of StateMachine._noop and asks for none.    *)
OneNoticePerDecision == notices <= decisions

(* "Only an authorized explicit resume event ... can clear the halt; it    *)
(* starts from WATCHING": no other event ever clears remaining_stages_halted. *)
HaltEndsOnlyByResume ==
  [][halted /\ ~halted' =>
       /\ event' = "RESUME_REMAINING_STAGES"
       /\ state = "WAITING_CONFIRMATION" /\ state' = "WATCHING"]_historyVars

(* ROTATION_COMPLETED closes the lifecycle: no event, pause and data       *)
(* degradation included, leaves it.                                        *)
CompletedIsFinal ==
  [][state = "ROTATION_COMPLETED" => state' = "ROTATION_COMPLETED"]_historyVars

(* "WAITING_CONFIRMATION | RESUME_REMAINING_STAGES | authorized explicit   *)
(* resume plus fresh valid evaluation | WATCHING | clear halt" is the only *)
(* row of the table that accepts a resume, and what no row accepts is      *)
(* rejected: an accepted resume leaves no halt behind.                     *)
AcceptedResumeClearsHalt ==
  [][event' = "RESUME_REMAINING_STAGES" => ~halted']_historyVars
=============================================================================
