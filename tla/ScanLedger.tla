----------------------------- MODULE ScanLedger -----------------------------
(***************************************************************************)
(* What docs/idempotency.md promises of each logical scan: a bounded       *)
(* number of provider calls while nothing is decided, at most one          *)
(* candidate run, no provider call once there is one, and one final        *)
(* verdict that never changes.  RunCoordinator implements it.              *)
(***************************************************************************)
EXTENDS Naturals

CONSTANTS Scans, MaxProviderAttempts

VARIABLES
  phase,   \* NEW, OPEN, DECIDED (a run is stored), COMPLETED
  calls,   \* provider calls made for the scan
  verdict  \* NONE until COMPLETED, then APPLIED or SUPERSEDED

ledgerVars == <<phase, calls, verdict>>

(* A migrated database may hold scans that were decided but never completed. *)
Init ==
  /\ phase \in [Scans -> {"NEW", "DECIDED"}]
  /\ calls = [s \in Scans |-> IF phase[s] = "NEW" THEN 0 ELSE 1]
  /\ verdict = [s \in Scans |-> "NONE"]

Move(s, from, to) == phase[s] = from /\ phase' = [phase EXCEPT ![s] = to]

Open(s) == Move(s, "NEW", "OPEN") /\ UNCHANGED <<calls, verdict>>

CallProvider(s) ==
  /\ phase[s] = "OPEN"
  /\ calls[s] < MaxProviderAttempts
  /\ calls' = [calls EXCEPT ![s] = @ + 1]
  /\ UNCHANGED <<phase, verdict>>

Decide(s) ==
  /\ calls[s] > 0
  /\ Move(s, "OPEN", "DECIDED")
  /\ UNCHANGED <<calls, verdict>>

Complete(s) ==
  /\ Move(s, "DECIDED", "COMPLETED")
  /\ \E v \in {"APPLIED", "SUPERSEDED"} : verdict' = [verdict EXCEPT ![s] = v]
  /\ UNCHANGED calls

Next == \E s \in Scans : Open(s) \/ CallProvider(s) \/ Decide(s) \/ Complete(s)

Spec == Init /\ [][Next]_ledgerVars
=============================================================================
