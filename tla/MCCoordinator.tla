--------------------------- MODULE MCCoordinator ---------------------------
(* Two workers and two or three scans of one plan, with the proposals that *)
(* move the record between the states a decision, a notification, an       *)
(* invalidation, a degradation and a recovery need.                        *)
EXTENDS RunCoordinatorRefinement, TLC

CONSTANTS w1, w2, s1, s2, s3

Proposal(e, rule) ==
  [event |-> e, planValid |-> TRUE, data |-> "FRESH_FULL_EVALUATION",
   rule |-> rule, sizing |-> "PASSED", authorized |-> TRUE, confirmed |-> TRUE,
   confirmation |-> "PARTIAL", source |-> "authorized", quantity |-> "within"]

MCWorkers == {w1, w2}
MCScans == {s1, s2}
MCProposals == {Proposal("DECISION_VALIDATED", "NOT_EVALUATED"),
                Proposal("SIGNAL_INVALIDATED", "PASSED"),
                Proposal("DATA_RECOVERED", "NOT_EVALUATED")}
MCStarts == {<<"ACTION_PENDING", FALSE>>}
MCIdleStarts == MCStarts \cup {<<"IDLE", FALSE>>}
Symmetry == Permutations(MCWorkers) \cup Permutations(MCScans)

(* The shortest way from a watched plan through a degradation and back. *)
MCThreeScans == {s1, s2, s3}
MCWatchProposals == {Proposal("NEAR_SIGNAL", "PASSED"),
                     Proposal("DATA_RECOVERED", "NOT_EVALUATED")}
MCWatchStarts == {<<"WATCHING", FALSE>>}
ThreeScanSymmetry == Permutations(MCWorkers) \cup Permutations(MCThreeScans)
=============================================================================
