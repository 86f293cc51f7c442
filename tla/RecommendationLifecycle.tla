---------------------- MODULE RecommendationLifecycle ----------------------
(***************************************************************************)
(* What the durable record of one rotation plan promises: it starts IDLE   *)
(* (or wherever earlier scans of the plan have left it) and every change   *)
(* of its state and of its halt flag is one accepted step of the           *)
(* transition table.  RunCoordinator is shown to implement this module;    *)
(* LifecycleHistory checks what follows from the table alone.              *)
(***************************************************************************)
EXTENDS RecommendationMachine

CONSTANTS
  Proposals,  \* the proposals evaluators make
  Starts      \* the (state, halted) pairs the plan's record may start from

ASSUME ProposalsAssumption == Proposals \subseteq AllProposals
(* No earlier scan leaves an idle plan halted, or an invalidated or waiting *)
(* one unhalted.                                                           *)
ASSUME StartsAssumption ==
  /\ Starts \subseteq States \X BOOLEAN
  /\ \A start \in Starts :
       /\ start[1] = "IDLE" => ~start[2]
       /\ start[1] \in {"INVALIDATED", "WAITING_CONFIRMATION"} => start[2]

VARIABLES state, halted

lifecycleVars == <<state, halted>>

Init == \E start \in Starts : state = start[1] /\ halted = start[2]

(* One accepted transition: the machine's result becomes the record. *)
Advance(p, r) ==
  /\ Transition(state, halted, p, r)
  /\ state' = r.state
  /\ halted' = r.halted

Next ==
  \E p \in Proposals, intent \in BOOLEAN :
    Advance(p, [state |-> state', halted |-> halted', intent |-> intent])

Spec == Init /\ [][Next]_lifecycleVars
-----------------------------------------------------------------------------
(* Type correctness of the record. *)
LTypeOK == state \in States /\ halted \in BOOLEAN

(* A recommendation that was invalidated, or that waits for the user's     *)
(* confirmation, has its remaining stages halted, by whichever of the five *)
(* events it got there.  It is what makes the second guard of              *)
(* RESUME_REMAINING_STAGES in StateMachine.transition always hold.         *)
WaitingIsHalted == state \in {"INVALIDATED", "WAITING_CONFIRMATION"} => halted
=============================================================================
