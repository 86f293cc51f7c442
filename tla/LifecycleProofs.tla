-------------------------- MODULE LifecycleProofs --------------------------
(***************************************************************************)
(* Proofs about the transition table and the record that follows it, for   *)
(* every set of proposals.  One lemma says what a single accepted          *)
(* transition can do to the state, the halt flag and the notices; the      *)
(* invariants and the action properties follow from it step by step.       *)
(***************************************************************************)
EXTENDS LifecycleHistory, TLAPS

AwaitsResume == {"INVALIDATED", "WAITING_CONFIRMATION"}

(* What one accepted transition from (s, h) to r under event e respects. *)
Lawful(s, h, e, r) ==
  /\ r.state \in States /\ r.halted \in BOOLEAN /\ r.intent \in BOOLEAN
  /\ (s \in AwaitsResume => h) => (r.state \in AwaitsResume => r.halted)
  /\ h /\ ~r.halted => /\ e = "RESUME_REMAINING_STAGES"
                        /\ s = "WAITING_CONFIRMATION" /\ r.state = "WATCHING"
  /\ s = "ROTATION_COMPLETED" => r.state = "ROTATION_COMPLETED"
  /\ r.state \notin Stale => s \notin Stale \/ r.state = "WATCHING"
  /\ r.intent => s = "ACTION_PENDING" /\ r.state = "ACTION_NOTIFIED"

(* Every one of the fourteen events is lawful in every state. *)
LEMMA TransitionIsLawful ==
  ASSUME NEW s \in States, NEW h \in BOOLEAN, NEW p, NEW r,
         Transition(s, h, p, r)
  PROVE  Lawful(s, h, p.event, r)
<1>1. CASE PlanPaused(s, h, p, r)
  BY <1>1 DEF PlanPaused, Lawful, To, Stay, States, Stale, AwaitsResume
<1>2. CASE PlanResumed(s, h, p, r)
  BY <1>2 DEF PlanResumed, Lawful, To, Stay, States, Stale, AwaitsResume
<1>3. CASE DataDegraded(s, h, p, r)
  <2>1. CASE s \in {"DATA_DEGRADED", "WAITING_CONFIRMATION"} /\ r = Stay(s, h)
    BY <2>1 DEF Lawful, To, Stay, States, Stale, AwaitsResume
  <2>2. CASE s = "PARTIALLY_EXECUTED" /\ r = To("WAITING_CONFIRMATION", TRUE)
    BY <2>2 DEF Lawful, To, Stay, States, Stale, AwaitsResume
  <2>3. CASE s \in {"WATCHING", "NEAR_TRIGGER", "ACTION_PENDING",
                    "ACTION_NOTIFIED", "STAGE_COMPLETED"}
            /\ r = To("DATA_DEGRADED", h)
    BY <2>3 DEF Lawful, To, Stay, States, Stale, AwaitsResume
  <2> QED
    BY <1>3, <2>1, <2>2, <2>3 DEF DataDegraded
<1>4. CASE DataRecovered(s, h, p, r)
  <2>1. CASE s = "WATCHING" /\ r = Stay(s, h)
    BY <2>1 DEF Lawful, To, Stay, States, Stale, AwaitsResume
  <2>2. CASE s = "DATA_DEGRADED" /\ r = To("WAITING_CONFIRMATION", TRUE)
    BY <2>2 DEF Lawful, To, Stay, States, Stale, AwaitsResume
  <2>3. CASE s = "DATA_DEGRADED" /\ r = To("WATCHING", h)
    BY <2>3 DEF Lawful, To, Stay, States, Stale, AwaitsResume
  <2> QED
    BY <1>4, <2>1, <2>2, <2>3 DEF DataRecovered
<1>5. CASE PlanActivated(s, h, p, r)
  BY <1>5 DEF PlanActivated, Lawful, To, Stay, States, Stale, AwaitsResume
<1>6. CASE NearSignal(s, h, p, r)
  BY <1>6 DEF NearSignal, Lawful, To, Stay, States, Stale, AwaitsResume
<1>7. CASE ActionSignal(s, h, p, r)
  BY <1>7 DEF ActionSignal, Lawful, To, Stay, States, Stale, AwaitsResume
<1>8. CASE DecisionValidated(s, h, p, r)
  <2>1. CASE s = "ACTION_NOTIFIED" /\ r = Stay(s, h)
    BY <2>1 DEF Lawful, To, Stay, States, Stale, AwaitsResume
  <2>2. CASE s = "ACTION_PENDING"
            /\ r = [state |-> "ACTION_NOTIFIED", halted |-> h, intent |-> TRUE]
    BY <2>2 DEF Lawful, To, Stay, States, Stale, AwaitsResume
  <2> QED
    BY <1>8, <2>1, <2>2 DEF DecisionValidated
<1>9. CASE ValidationFailed(s, h, p, r)
  BY <1>9 DEF ValidationFailed, Lawful, To, Stay, States, Stale, AwaitsResume
<1>10. CASE SignalInvalidated(s, h, p, r)
  <2>1. CASE s = "INVALIDATED" /\ r = Stay(s, h)
    BY <2>1 DEF Lawful, To, Stay, States, Stale, AwaitsResume
  <2>2. CASE s = "PARTIALLY_EXECUTED" /\ r = To("WAITING_CONFIRMATION", TRUE)
    BY <2>2 DEF Lawful, To, Stay, States, Stale, AwaitsResume
  <2>3. CASE s \in {"WATCHING", "NEAR_TRIGGER", "ACTION_PENDING", "ACTION_NOTIFIED"}
            /\ r = To("INVALIDATED", TRUE)
    BY <2>3 DEF Lawful, To, Stay, States, Stale, AwaitsResume
  <2> QED
    BY <1>10, <2>1, <2>2, <2>3 DEF SignalInvalidated
<1>11. CASE ExecutionConfirmed(s, h, p, r)
  <2>1. CASE s \in {"DATA_DEGRADED", "INVALIDATED", "WAITING_CONFIRMATION"}
            /\ r = To("WAITING_CONFIRMATION", TRUE)
    BY <2>1 DEF Lawful, To, Stay, States, Stale, AwaitsResume
  <2>2. CASE s = "ACTION_NOTIFIED" /\ r = To("PARTIALLY_EXECUTED", h)
    BY <2>2 DEF Lawful, To, Stay, States, Stale, AwaitsResume
  <2>3. CASE s = "ACTION_NOTIFIED" /\ r = To("STAGE_COMPLETED", h)
    BY <2>3 DEF Lawful, To, Stay, States, Stale, AwaitsResume
  <2> QED
    BY <1>11, <2>1, <2>2, <2>3 DEF ExecutionConfirmed
<1>12. CASE NextStageEligible(s, h, p, r)
  BY <1>12 DEF NextStageEligible, Lawful, To, Stay, States, Stale, AwaitsResume
<1>13. CASE ResumeRemainingStages(s, h, p, r)
  <2>1. CASE s = "WATCHING" /\ r = Stay(s, h)
    BY <2>1 DEF Lawful, To, Stay, States, Stale, AwaitsResume
  <2>2. CASE p.event = "RESUME_REMAINING_STAGES"
            /\ s = "WAITING_CONFIRMATION" /\ r = To("WATCHING", FALSE)
    BY <2>2 DEF Lawful, To, Stay, States, Stale, AwaitsResume
  <2> QED
    BY <1>13, <2>1, <2>2 DEF ResumeRemainingStages
<1>14. CASE AllStagesDone(s, h, p, r)
  BY <1>14 DEF AllStagesDone, Lawful, To, Stay, States, Stale, AwaitsResume
<1> QED
  BY <1>1, <1>2, <1>3, <1>4, <1>5, <1>6, <1>7, <1>8, <1>9, <1>10, <1>11, <1>12,
     <1>13, <1>14 DEF Transition
-----------------------------------------------------------------------------
(* The record on its own *)

(* The record keeps a state and a flag, and while the recommendation is    *)
(* invalidated or waits for confirmation its stages are halted: the second *)
(* guard of RESUME_REMAINING_STAGES in StateMachine.transition always      *)
(* holds, whatever the evaluators propose and wherever the plan started.   *)
THEOREM RecordInvariant == Spec => [](LTypeOK /\ WaitingIsHalted)
<1> DEFINE Inv == LTypeOK /\ WaitingIsHalted
<1>1. Init => Inv
  BY StartsAssumption DEF Init, LTypeOK, WaitingIsHalted, States
<1>2. ASSUME Inv, [Next]_lifecycleVars
      PROVE  Inv'
  <2>1. CASE Next
    <3>1. PICK p \in Proposals, intent \in BOOLEAN :
            Advance(p, [state |-> state', halted |-> halted', intent |-> intent])
      BY <2>1 DEF Next
    <3> DEFINE r == [state |-> state', halted |-> halted', intent |-> intent]
    <3>2. Lawful(state, halted, p.event, r)
      <4>1. Transition(state, halted, p, r)
        BY <3>1 DEF Advance
      <4> QED
        BY <1>2, <4>1, TransitionIsLawful DEF LTypeOK
    <3> QED
      BY <1>2, <3>2 DEF Lawful, LTypeOK, WaitingIsHalted, AwaitsResume
  <2>2. CASE UNCHANGED lifecycleVars
    BY <1>2, <2>2 DEF lifecycleVars, LTypeOK, WaitingIsHalted
  <2> QED
    BY <1>2, <2>1, <2>2
<1> QED
  BY <1>1, <1>2, PTL DEF Spec
-----------------------------------------------------------------------------
(* The record with its history *)

(* NeverRevived and OneNoticePerDecision are not inductive as they stand:  *)
(* an ACTION_PENDING record needs a decision that was not notified yet,    *)
(* and WATCHING itself must already count as watched.                      *)
HInv ==
  /\ LTypeOK
  /\ WaitingIsHalted
  /\ watched \in BOOLEAN /\ decisions \in Nat /\ notices \in Nat
  /\ state \notin Stale => watched
  /\ notices <= decisions
  /\ state = "ACTION_PENDING" => notices < decisions

(* What a step with history does to the record is lawful. *)
LEMMA StepIsLawful ==
  ASSUME LTypeOK, NEW p \in Proposals, NEW r \in Results, HAdvance(p, r)
  PROVE  Lawful(state, halted, p.event, r)
BY TransitionIsLawful DEF HAdvance, Advance, LTypeOK

(* The inductive invariant of the record with its history. *)
LEMMA HistoryInvariant == HSpec => []HInv
<1>1. HInit => HInv
  <2> SUFFICES ASSUME HInit PROVE HInv
    OBVIOUS
  <2>1. LTypeOK /\ WaitingIsHalted
    BY DEF HInit, LTypeOK, WaitingIsHalted, States
  <2>2. watched \in BOOLEAN /\ decisions = 0 /\ notices = 0
    BY DEF HInit
  <2>3. state \in Stale /\ state # "ACTION_PENDING"
    BY DEF HInit, Stale
  <2> QED
    BY <2>1, <2>2, <2>3 DEF HInv
<1>2. ASSUME HInv, [HNext]_historyVars
      PROVE  HInv'
  <2>1. ASSUME NEW p \in Proposals, NEW r \in Results, HAdvance(p, r)
        PROVE  HInv'
    <3>1. Lawful(state, halted, p.event, r)
      BY <1>2, <2>1, StepIsLawful DEF HInv
    <3>2. state' = r.state /\ halted' = r.halted
      BY <2>1 DEF HAdvance, Advance
    <3>3. LTypeOK' /\ WaitingIsHalted'
      BY <1>2, <3>1, <3>2 DEF HInv, Lawful, LTypeOK, WaitingIsHalted, AwaitsResume
    <3>4. watched' \in BOOLEAN /\ (state' \notin Stale => watched')
      BY <1>2, <2>1, <3>1, <3>2 DEF HInv, Lawful, HAdvance
    <3>5. CASE r.intent
      <4>1. state = "ACTION_PENDING" /\ state' = "ACTION_NOTIFIED"
        BY <3>1, <3>2, <3>5 DEF Lawful
      <4>2. notices' = notices + 1 /\ decisions' = decisions
        BY <2>1, <3>2, <3>5, <4>1 DEF HAdvance, Enters
      <4> QED
        BY <1>2, <3>3, <3>4, <4>1, <4>2 DEF HInv
    <3>6. CASE ~r.intent
      <4>1. notices' = notices
        BY <2>1, <3>6 DEF HAdvance
      <4>2. CASE Enters(r)
        <5>1. decisions' = decisions + 1
          BY <2>1, <4>2 DEF HAdvance
        <5> QED
          BY <1>2, <3>3, <3>4, <4>1, <5>1 DEF HInv
      <4>3. CASE ~Enters(r)
        <5>1. decisions' = decisions
          BY <2>1, <4>3 DEF HAdvance
        <5>2. state' = "ACTION_PENDING" => state = "ACTION_PENDING"
          BY <3>2, <4>3 DEF Enters
        <5> QED
          BY <1>2, <3>3, <3>4, <4>1, <5>1, <5>2 DEF HInv
      <4> QED
        BY <4>2, <4>3
    <3> QED
      BY <3>5, <3>6
  <2>2. CASE UNCHANGED historyVars
    BY <1>2, <2>2 DEF historyVars, HInv, LTypeOK, WaitingIsHalted
  <2> QED
    BY <1>2, <2>1, <2>2 DEF HNext, Allowed
<1> QED
  BY <1>1, <1>2, PTL DEF HSpec

(* After a degradation, an invalidation, a pause or a wait for             *)
(* confirmation the old signal is never restored: the plan is watched      *)
(* again first.                                                            *)
THEOREM SignalsAreNeverRevived == HSpec => []NeverRevived
<1>1. HInv => NeverRevived
  BY DEF HInv, NeverRevived, Signalled, Stale
<1> QED
  BY <1>1, HistoryInvariant, PTL

(* The transition table asks for at most one notification intent for each  *)
(* decision it enters.                                                     *)
THEOREM DecisionsAreNotifiedOnce == HSpec => []OneNoticePerDecision
<1>1. HInv => OneNoticePerDecision
  BY DEF HInv, OneNoticePerDecision
<1> QED
  BY <1>1, HistoryInvariant, PTL

(* Only an explicit resume from WAITING_CONFIRMATION clears the halt, and  *)
(* it lands in WATCHING.                                                   *)
THEOREM OnlyResumeEndsHalt == HSpec => HaltEndsOnlyByResume
<1>1. ASSUME HInv, [HNext]_historyVars
      PROVE  [halted /\ ~halted' =>
                /\ event' = "RESUME_REMAINING_STAGES"
                /\ state = "WAITING_CONFIRMATION" /\ state' = "WATCHING"]_historyVars
  <2>1. ASSUME NEW p \in Proposals, NEW r \in Results, HAdvance(p, r)
        PROVE  halted /\ ~halted' =>
                 /\ event' = "RESUME_REMAINING_STAGES"
                 /\ state = "WAITING_CONFIRMATION" /\ state' = "WATCHING"
    <3>1. Lawful(state, halted, p.event, r)
      BY <1>1, <2>1, StepIsLawful DEF HInv
    <3> QED
      BY <2>1, <3>1 DEF HAdvance, Advance, Lawful
  <2> QED
    BY <1>1, <2>1 DEF HNext, Allowed
<1> QED
  BY <1>1, HistoryInvariant, PTL DEF HSpec, HaltEndsOnlyByResume

(* A completed rotation stays completed, under a pause and under degraded  *)
(* data too.                                                               *)
THEOREM CompletionIsFinal == HSpec => CompletedIsFinal
<1>1. ASSUME HInv, [HNext]_historyVars
      PROVE  [state = "ROTATION_COMPLETED" =>
                state' = "ROTATION_COMPLETED"]_historyVars
  <2>1. ASSUME NEW p \in Proposals, NEW r \in Results, HAdvance(p, r)
        PROVE  state = "ROTATION_COMPLETED" => state' = "ROTATION_COMPLETED"
    <3>1. Lawful(state, halted, p.event, r)
      BY <1>1, <2>1, StepIsLawful DEF HInv
    <3> QED
      BY <2>1, <3>1 DEF HAdvance, Advance, Lawful
  <2> QED
    BY <1>1, <2>1 DEF HNext, Allowed
<1> QED
  BY <1>1, HistoryInvariant, PTL DEF HSpec, CompletedIsFinal
=============================================================================
