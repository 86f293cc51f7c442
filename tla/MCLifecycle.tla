---------------------------- MODULE MCLifecycle ----------------------------
(* LifecycleHistory over every event, each with its guards granted, with   *)
(* one guard at a time refused, and with every sale source and quantity.   *)
EXTENDS LifecycleHistory

Granted(e) ==
  [event |-> e, planValid |-> TRUE,
   data |-> IF e = "DATA_DEGRADED" THEN "DEGRADED" ELSE "FRESH_FULL_EVALUATION",
   rule |-> IF e \in {"NEAR_SIGNAL", "ACTION_SIGNAL", "SIGNAL_INVALIDATED"}
              THEN "PASSED" ELSE "FRESH_FULL_EVALUATION",
   sizing |-> "PASSED", authorized |-> TRUE, confirmed |-> TRUE,
   confirmation |-> "PARTIAL", source |-> "authorized", quantity |-> "within"]

MCProposals ==
  UNION { {Granted(e)}
          \cup {[Granted(e) EXCEPT !.planValid = FALSE],
                [Granted(e) EXCEPT !.authorized = FALSE],
                [Granted(e) EXCEPT !.confirmed = FALSE],
                [Granted(e) EXCEPT !.confirmation = "STAGE_COMPLETED"]}
          \cup {[Granted(e) EXCEPT !.data = d] : d \in DataOutcomes}
          \cup {[Granted(e) EXCEPT !.rule = o] : o \in RuleOutcomes}
          \cup {[Granted(e) EXCEPT !.sizing = z] : z \in SizingOutcomes}
          \cup {[Granted(e) EXCEPT !.source = c, !.quantity = q] :
                  c \in Sources, q \in Quantities} : e \in Events }

MCStarts == {<<"IDLE", FALSE>>}
=============================================================================
