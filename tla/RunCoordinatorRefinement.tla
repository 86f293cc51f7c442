---------------------- MODULE RunCoordinatorRefinement ----------------------
(***************************************************************************)
(* RunCoordinator implements the two promises its callers rely on: the     *)
(* plan's record follows the transition table although candidates are      *)
(* evaluated against records that are stale by the time they are applied,  *)
(* and each scan keeps the ledger of docs/idempotency.md.                  *)
(***************************************************************************)
EXTENDS RunCoordinator

(* What a legacy run was decided from, before fences existed. *)
LegacyEvidence ==
  [event |-> "DECISION_VALIDATED", planValid |-> FALSE, data |-> "UNKNOWN",
   rule |-> "NOT_EVALUATED", sizing |-> "PASSED", authorized |-> FALSE,
   confirmed |-> FALSE, confirmation |-> "PARTIAL", source |-> "authorized",
   quantity |-> "within"]

(* What the record may be moved by: the evaluators' proposals, the degraded *)
(* evidence the coordinator proposes itself, and the one a migrated run    *)
(* was decided from.                                                       *)
Evidence ==
  Proposals \cup {DegradedEvidence}
            \cup (IF LegacyScans = {} THEN {} ELSE {LegacyEvidence})

(* A migrated record starts notified. *)
Lifecycle == INSTANCE RecommendationLifecycle WITH
  state <- rec.state, halted <- rec.halted,
  Proposals <- Evidence,
  Starts <- IF LegacyScans = {} THEN Starts
            ELSE Starts \cup {<<LegacyRun.next, LegacyRun.nextHalted>>}

Phase(s) ==
  IF scans[s] = "COMPLETED" THEN "COMPLETED"
  ELSE IF runs[s] # None THEN "DECIDED"
  ELSE IF scans[s] = "RUNNING" THEN "OPEN" ELSE "NEW"

Ledger == INSTANCE ScanLedger WITH
  phase <- [s \in Scans |-> Phase(s)],
  calls <- fetches,
  verdict <- [s \in Scans |->
    IF scans[s] = "COMPLETED" THEN Verdict(attempts[s]) ELSE "NONE"]

(* The record only ever takes steps of the transition table, each from the *)
(* state it is in: the state a candidate was evaluated against must be the *)
(* current one when the candidate is applied.                              *)
ImplementsLifecycle == Lifecycle!Spec

(* Per scan: provider calls within the budget and never once a run exists, *)
(* one run, one verdict, and a completed scan never changes again.         *)
ImplementsLedger == Ledger!Spec
=============================================================================
