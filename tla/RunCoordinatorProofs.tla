------------------------ MODULE RunCoordinatorProofs ------------------------
(***************************************************************************)
(* Proofs about RunCoordinator for any number of workers, scans and        *)
(* provider attempts, any proposals, and any number of exceptions and      *)
(* crashes.                                                                *)
(*                                                                         *)
(* TypeOK is not inductive alone: a worker inside run() must be known to   *)
(* serve a scan (work is None for a caller that was turned away) and to    *)
(* hold its lease, and the labels of the finalization must imply that the  *)
(* scan's run is there to be read.  Control says so; TypeOK and            *)
(* LockExclusion follow from it.                                           *)
(***************************************************************************)
EXTENDS RunCoordinator, RunCoordinatorRefinement, SequenceTheorems, FiniteSetTheorems, TLAPS

(* Labels at which the scan's run exists, and at which it cannot yet. *)
Finalizing == {"recover", "adjudicate", "apply", "claim", "intent", "recordFinal",
               "recordSuperseded", "attach", "attachSuperseded"}
Searching == {"open", "fetch", "degradeRead", "degradeWrite", "recordDegraded",
              "evaluate", "decide"}

Leased ==
  \A w \in Workers : pc[w] # "idle" => work[w] \in Scans /\ locks[work[w]] = w

RunAtHand ==
  \A w \in Workers :
    /\ pc[w] \in Finalizing => runs[work[w]] # None
    /\ pc[w] \in Searching => runs[work[w]] = None

Control == TypeOK /\ Leased /\ RunAtHand

Verdicts == {"APPLIED", "SUPERSEDED"}
-----------------------------------------------------------------------------
(* Lemmas about the helpers *)

(* What record_attempt appends keeps the attempts well typed. *)
LEMMA RecordTyped ==
  ASSUME StoresOK, NEW s \in Scans, NEW a \in Attempts, Record(s, a)
  PROVE  attempts' \in [Scans -> Seq(Attempts)]
<1>1. Append(attempts[s], a) \in Seq(Attempts)
  BY DEF StoresOK
<1> QED
  BY <1>1 DEF StoresOK, Record

(* The final attempt is typed, reused or appended. *)
LEMMA VerdictTyped ==
  ASSUME StoresOK, NEW s \in Scans, NEW d \in Verdicts, RecordVerdict(s, d)
  PROVE  attempts' \in [Scans -> Seq(Attempts)]
<1>1. Attempt("SUCCEEDED", Len(attempts[s]), d) \in Attempts
  BY DEF StoresOK, Attempt, Attempts, Verdicts
<1>2. CASE UNCHANGED attempts
  BY <1>2 DEF StoresOK
<1>3. CASE Record(s, Attempt("SUCCEEDED", Len(attempts[s]), d))
  BY <1>1, <1>3, RecordTyped
<1> QED
  BY <1>2, <1>3 DEF RecordVerdict

(* record_transition keeps the record well typed and moves its revision. *)
LEMMA ReplaceTyped ==
  ASSUME rec \in Records, NEW state \in States, NEW halted \in BOOLEAN,
         NEW fence \in Scans \cup {None, EarlierRun},
         Replace(state, halted, fence)
  PROVE  /\ rec' \in Records
         /\ rec'.revision = rec.revision + 1 /\ rec'.fence = fence
         /\ rec'.state = state /\ rec'.halted = halted
<1>1. rec.revision + 1 \in Nat
  BY DEF Records
<1>2. rec' = [state |-> state, halted |-> halted, revision |-> rec.revision + 1,
              fence |-> fence, claim |-> rec.claim]
  BY DEF Records, Replace
<1> QED
  BY <1>1, <1>2 DEF Records

(* Where a step of w inside run() may lead, and what it leaves alone.      *)
Moves(w) ==
  /\ pc[w] # "idle" /\ work[w] \in Scans
  /\ UNCHANGED <<work, locks, runs>>
  /\ \E l \in Labels : /\ l # "idle" /\ pc' = [pc EXCEPT ![w] = l]
                       /\ l \in Finalizing => runs[work[w]] # None
                       /\ l \in Searching => runs[work[w]] = None

(* Such a step leaves every worker's lease and run alone. *)
LEMMA MovesKeepControl ==
  ASSUME Control, NEW w \in Workers, Moves(w)
  PROVE  pc' \in [Workers -> Labels] /\ Leased' /\ RunAtHand'
<1>1. PICK l \in Labels : /\ l # "idle" /\ pc' = [pc EXCEPT ![w] = l]
                          /\ l \in Finalizing => runs[work[w]] # None
                          /\ l \in Searching => runs[work[w]] = None
  BY DEF Moves
<1> QED
  BY <1>1 DEF Moves, Control, TypeOK, ProcessOK, Leased, RunAtHand
-----------------------------------------------------------------------------
(* A worker inside run(): every action but Decide and Release *)

Working(w) == (Step(w) /\ ~Decide(w) /\ ~Release(w)) \/ Raise(w)

(* Each of them moves, and the labels agree with the run of the scan. *)
LEMMA WorkingMoves ==
  ASSUME Control, NEW w \in Workers, Working(w)
  PROVE  Moves(w)
<1>1. CASE AnswerCompleted(w)
  <2>1. pc[w] # "idle" /\ work[w] \in Scans
    BY <1>1 DEF AnswerCompleted, At, Control, Leased
  <2> QED
    BY <1>1, <2>1 DEF AnswerCompleted, At, Goto, Return, Moves, Labels,
           Finalizing, Searching, stores, locals, Control, RunAtHand
<1>2. CASE CreateOrRecover(w)
  <2>1. pc[w] # "idle" /\ work[w] \in Scans
    BY <1>2 DEF CreateOrRecover, At, Control, Leased
  <2> QED
    BY <1>2, <2>1 DEF CreateOrRecover, At, Goto, Moves, Labels, Finalizing,
           Searching, stores, locals, Control, RunAtHand
<1>3. CASE RetryExhausted(w)
  <2>1. pc[w] # "idle" /\ work[w] \in Scans
    BY <1>3 DEF RetryExhausted, At, Control, Leased
  <2> QED
    BY <1>3, <2>1 DEF RetryExhausted, At, Goto, Return, Moves, Labels,
           Finalizing, Searching, stores, locals, Control, RunAtHand
<1>4. CASE OpenAttempt(w)
  <2>1. pc[w] # "idle" /\ work[w] \in Scans
    BY <1>4 DEF OpenAttempt, At, Control, Leased
  <2> QED
    BY <1>4, <2>1 DEF OpenAttempt, At, Goto, Moves, Labels, Finalizing,
           Searching, stores, locals, Control, RunAtHand
<1>5. CASE Fetch(w)
  <2>1. pc[w] # "idle" /\ work[w] \in Scans
    BY <1>5 DEF Fetch, At, Control, Leased
  <2> QED
    BY <1>5, <2>1 DEF Fetch, At, Goto, Moves, Labels, Finalizing, Searching,
           stores, locals, Control, RunAtHand
<1>6. CASE DegradeRead(w)
  <2>1. pc[w] # "idle" /\ work[w] \in Scans
    BY <1>6 DEF DegradeRead, At, Control, Leased
  <2> QED
    BY <1>6, <2>1 DEF DegradeRead, At, Goto, Moves, Labels, Finalizing,
           Searching, stores, locals, Control, RunAtHand
<1>7. CASE DegradeWrite(w)
  <2>1. pc[w] # "idle" /\ work[w] \in Scans
    BY <1>7 DEF DegradeWrite, At, Control, Leased
  <2> QED
    BY <1>7, <2>1 DEF DegradeWrite, At, Goto, Moves, Labels, Finalizing,
           Searching, stores, locals, Control, RunAtHand
<1>8. CASE RecordDegraded(w)
  <2>1. pc[w] # "idle" /\ work[w] \in Scans
    BY <1>8 DEF RecordDegraded, At, Control, Leased
  <2> QED
    BY <1>8, <2>1 DEF RecordDegraded, At, Goto, Return, Moves, Labels,
           Finalizing, Searching, stores, locals, Control, RunAtHand
<1>9. CASE RecordFailed(w)
  <2>1. pc[w] # "idle" /\ work[w] \in Scans
    BY <1>9 DEF RecordFailed, At, Control, Leased
  <2> QED
    BY <1>9, <2>1 DEF RecordFailed, At, Goto, Return, Moves, Labels,
           Finalizing, Searching, stores, locals, Control, RunAtHand
<1>10. CASE EvaluateRead(w)
  <2>1. pc[w] # "idle" /\ work[w] \in Scans
    BY <1>10 DEF EvaluateRead, At, Control, Leased
  <2> QED
    BY <1>10, <2>1 DEF EvaluateRead, At, Goto, Moves, Labels, Finalizing,
           Searching, stores, locals, Control, RunAtHand
<1>11. CASE Recover(w)
  <2>1. pc[w] # "idle" /\ work[w] \in Scans
    BY <1>11 DEF Recover, At, Control, Leased
  <2> QED
    BY <1>11, <2>1 DEF Recover, At, Goto, Return, Moves, Labels, Finalizing,
           Searching, stores, locals, Control, RunAtHand
<1>12. CASE FenceHeld(w)
  <2>1. pc[w] # "idle" /\ work[w] \in Scans
    BY <1>12 DEF FenceHeld, Adjudicates, At, Control, Leased
  <2> QED
    BY <1>12, <2>1 DEF FenceHeld, Adjudicates, At, Goto, AfterEffects, Moves,
           Labels, Finalizing, Searching, stores, locals, Control, RunAtHand
<1>13. CASE LegacyHeld(w)
  <2>1. pc[w] # "idle" /\ work[w] \in Scans
    BY <1>13 DEF LegacyHeld, Adjudicates, At, Control, Leased
  <2> QED
    BY <1>13, <2>1 DEF LegacyHeld, Adjudicates, At, Goto, Abandon, Return,
           Moves, Labels, Finalizing, Searching, stores, locals, Control,
           RunAtHand
<1>14. CASE StillWaiting(w)
  <2>1. pc[w] # "idle" /\ work[w] \in Scans
    BY <1>14 DEF StillWaiting, Adjudicates, At, Control, Leased
  <2> QED
    BY <1>14, <2>1 DEF StillWaiting, Adjudicates, At, Goto, Moves, Labels,
           Finalizing, Searching, stores, locals, Control, RunAtHand
<1>15. CASE Superseded(w)
  <2>1. pc[w] # "idle" /\ work[w] \in Scans
    BY <1>15 DEF Superseded, Adjudicates, At, Control, Leased
  <2> QED
    BY <1>15, <2>1 DEF Superseded, Adjudicates, At, Goto, Moves, Labels,
           Finalizing, Searching, stores, locals, Control, RunAtHand
<1>16. CASE Apply(w)
  <2>1. pc[w] # "idle" /\ work[w] \in Scans
    BY <1>16 DEF Apply, At, Control, Leased
  <2> QED
    BY <1>16, <2>1 DEF Apply, At, Goto, AfterEffects, Abandon, Return, Moves,
           Labels, Finalizing, Searching, stores, locals, Control, RunAtHand
<1>17. CASE ClaimLegacy(w)
  <2>1. pc[w] # "idle" /\ work[w] \in Scans
    BY <1>17 DEF ClaimLegacy, At, Control, Leased
  <2> QED
    BY <1>17, <2>1 DEF ClaimLegacy, At, Goto, Abandon, Return, Moves, Labels,
           Finalizing, Searching, stores, locals, Control, RunAtHand
<1>18. CASE RecordIntent(w)
  <2>1. pc[w] # "idle" /\ work[w] \in Scans
    BY <1>18 DEF RecordIntent, At, Control, Leased
  <2> QED
    BY <1>18, <2>1 DEF RecordIntent, At, Goto, Moves, Labels, Finalizing,
           Searching, stores, locals, Control, RunAtHand
<1>19. CASE RecordFinal(w)
  <2>1. pc[w] # "idle" /\ work[w] \in Scans
    BY <1>19 DEF RecordFinal, At, Control, Leased
  <2> QED
    BY <1>19, <2>1 DEF RecordFinal, At, Goto, Moves, Labels, Finalizing,
           Searching, stores, locals, Control, RunAtHand
<1>20. CASE RecordSuperseded(w)
  <2>1. pc[w] # "idle" /\ work[w] \in Scans
    BY <1>20 DEF RecordSuperseded, At, Control, Leased
  <2> QED
    BY <1>20, <2>1 DEF RecordSuperseded, At, Goto, Moves, Labels, Finalizing,
           Searching, stores, locals, Control, RunAtHand
<1>21. CASE Attach(w)
  <2>1. pc[w] # "idle" /\ work[w] \in Scans
    BY <1>21 DEF Attach, At, Control, Leased
  <2> QED
    BY <1>21, <2>1 DEF Attach, At, Goto, Return, Moves, Labels, Finalizing,
           Searching, stores, locals, Control, RunAtHand
<1>22. CASE Raise(w)
  <2>1. pc[w] # "idle" /\ work[w] \in Scans
    BY <1>22 DEF Raise, At, Uncaught, Audited, Effects, Settling, Control,
           Leased
  <2> QED
    BY <1>22, <2>1 DEF Raise, At, Goto, Abandon, Return, Uncaught, Audited,
           Effects, Settling, Moves, Labels, Finalizing, Searching, stores,
           locals, Control, RunAtHand
<1> QED
  BY <1>1, <1>2, <1>3, <1>4, <1>5, <1>6, <1>7, <1>8, <1>9, <1>10,
     <1>11, <1>12, <1>13, <1>14, <1>15, <1>16, <1>17, <1>18, <1>19, <1>20,
     <1>21, <1>22
     DEF Working, Step

(* Each of them leaves the stores well typed. *)
LEMMA WorkingKeepsStores ==
  ASSUME Control, NEW w \in Workers, Working(w)
  PROVE  StoresOK'
<1>0. StoresOK /\ work[w] \in Scans
  BY WorkingMoves DEF Control, TypeOK, Moves
<1>1. CASE AnswerCompleted(w)
  <2>1. CASE RecordVerdict(work[w], "APPLIED")
    BY <1>0, <1>1, <2>1, VerdictTyped DEF AnswerCompleted, Verdicts, StoresOK
  <2>2. CASE UNCHANGED attempts
    BY <1>0, <1>1, <2>2 DEF AnswerCompleted, StoresOK
  <2> QED
    BY <1>1, <2>1, <2>2 DEF AnswerCompleted
<1>2. CASE CreateOrRecover(w)
  BY <1>0, <1>2 DEF CreateOrRecover, stores, StoresOK
<1>3. CASE RetryExhausted(w)
  BY <1>0, <1>3 DEF RetryExhausted, stores, StoresOK
<1>4. CASE OpenAttempt(w)
  <2>1. Attempt("RUNNING", Len(attempts[work[w]]), "NONE") \in Attempts
    BY <1>0 DEF Control, TypeOK, StoresOK, ProcessOK, Attempt, Attempts
  <2> QED
    BY <1>0, <1>4, <2>1, RecordTyped DEF OpenAttempt, StoresOK
<1>5. CASE Fetch(w)
  BY <1>0, <1>5 DEF Fetch, stores, StoresOK
<1>6. CASE DegradeRead(w)
  BY <1>0, <1>6 DEF DegradeRead, stores, StoresOK
<1>7. CASE DegradeWrite(w)
  <2>1. ASSUME NEW r \in Allowed(rec.state, rec.halted, DegradedEvidence),
               Replace(r.state, r.halted, None)
        PROVE  StoresOK'
    <3>1. rec' \in Records
      BY <1>0, <2>1, ReplaceTyped DEF StoresOK, Allowed, Results
    <3> QED
      BY <1>0, <1>7, <3>1 DEF DegradeWrite, StoresOK
  <2>2. CASE UNCHANGED rec
    BY <1>0, <1>7, <2>2 DEF DegradeWrite, StoresOK
  <2> QED
    BY <1>7, <2>1, <2>2 DEF DegradeWrite
<1>8. CASE RecordDegraded(w)
  <2>1. Attempt("DEGRADED", opened[w], "NONE") \in Attempts
    BY <1>0 DEF Control, TypeOK, StoresOK, ProcessOK, Attempt, Attempts
  <2> QED
    BY <1>0, <1>8, <2>1, RecordTyped DEF RecordDegraded, StoresOK
<1>9. CASE RecordFailed(w)
  <2>1. Attempt("FAILED", opened[w], "NONE") \in Attempts
    BY <1>0 DEF Control, TypeOK, StoresOK, ProcessOK, Attempt, Attempts
  <2> QED
    BY <1>0, <1>9, <2>1, RecordTyped DEF RecordFailed, StoresOK
<1>10. CASE EvaluateRead(w)
  BY <1>0, <1>10 DEF EvaluateRead, stores, StoresOK
<1>11. CASE Recover(w)
  BY <1>0, <1>11 DEF Recover, stores, StoresOK
<1>12. CASE FenceHeld(w)
  BY <1>0, <1>12 DEF FenceHeld, Adjudicates, stores, StoresOK
<1>13. CASE LegacyHeld(w)
  BY <1>0, <1>13 DEF LegacyHeld, Adjudicates, stores, StoresOK
<1>14. CASE StillWaiting(w)
  BY <1>0, <1>14 DEF StillWaiting, Adjudicates, stores, StoresOK
<1>15. CASE Superseded(w)
  BY <1>0, <1>15 DEF Superseded, Adjudicates, stores, StoresOK
<1>16. CASE Apply(w)
  <2>1. runs[work[w]] \in Candidates
    BY <1>0, <1>16 DEF Apply, At, Finalizing, StoresOK, Control, RunAtHand
  <2>2. CASE Replace(runs[work[w]].next, runs[work[w]].nextHalted, work[w])
    <3>1. rec' \in Records
      BY <1>0, <2>1, <2>2, ReplaceTyped DEF StoresOK, Candidates
    <3> QED
      BY <1>0, <1>16, <3>1 DEF Apply, StoresOK
  <2>3. CASE UNCHANGED rec
    BY <1>0, <1>16, <2>3 DEF Apply, StoresOK
  <2> QED
    BY <1>16, <2>2, <2>3 DEF Apply
<1>17. CASE ClaimLegacy(w)
  <2>1. runs[work[w]] \in Candidates
    BY <1>0, <1>17 DEF ClaimLegacy, At, Finalizing, StoresOK, Control, RunAtHand
  <2>2. CASE Replace(runs[work[w]].next, runs[work[w]].nextHalted, work[w])
    <3>1. rec' \in Records
      BY <1>0, <2>1, <2>2, ReplaceTyped DEF StoresOK, Candidates
    <3> QED
      BY <1>0, <1>17, <3>1 DEF ClaimLegacy, StoresOK
  <2>3. CASE UNCHANGED rec
    BY <1>0, <1>17, <2>3 DEF ClaimLegacy, StoresOK
  <2> QED
    BY <1>17, <2>2, <2>3 DEF ClaimLegacy
<1>18. CASE RecordIntent(w)
  BY <1>0, <1>18 DEF RecordIntent, stores, StoresOK
<1>19. CASE RecordFinal(w)
  <2>1. attempts' \in [Scans -> Seq(Attempts)]
    BY <1>0, <1>19, VerdictTyped DEF RecordFinal, Verdicts
  <2> QED
    BY <1>0, <1>19, <2>1 DEF RecordFinal, StoresOK
<1>20. CASE RecordSuperseded(w)
  <2>1. attempts' \in [Scans -> Seq(Attempts)]
    BY <1>0, <1>20, VerdictTyped DEF RecordSuperseded, Verdicts
  <2> QED
    BY <1>0, <1>20, <2>1 DEF RecordSuperseded, StoresOK
<1>21. CASE Attach(w)
  BY <1>0, <1>21 DEF Attach, stores, StoresOK
<1>22. CASE Raise(w)
  BY <1>0, <1>22 DEF Raise, stores, StoresOK
<1> QED
  BY <1>1, <1>2, <1>3, <1>4, <1>5, <1>6, <1>7, <1>8, <1>9, <1>10,
     <1>11, <1>12, <1>13, <1>14, <1>15, <1>16, <1>17, <1>18, <1>19, <1>20,
     <1>21, <1>22
     DEF Working, Step

(* Each of them leaves the process well typed. *)
LEMMA WorkingKeepsProcess ==
  ASSUME Control, NEW w \in Workers, Working(w)
  PROVE  ProcessOK'
<1>0. /\ StoresOK /\ ProcessOK
      /\ work[w] \in Scans /\ pc' \in [Workers -> Labels]
  BY WorkingMoves, MovesKeepControl DEF Control, TypeOK, Moves
<1>1. CASE AnswerCompleted(w)
  BY <1>0, <1>1 DEF AnswerCompleted, Return, locals, StoresOK, ProcessOK,
         Returned, Dispositions
<1>2. CASE CreateOrRecover(w)
  BY <1>0, <1>2 DEF CreateOrRecover, locals, StoresOK, ProcessOK, Returned,
         Dispositions
<1>3. CASE RetryExhausted(w)
  BY <1>0, <1>3 DEF RetryExhausted, Return, locals, StoresOK, ProcessOK,
         Returned, Dispositions
<1>4. CASE OpenAttempt(w)
  <2>1. Len(attempts[work[w]]) + 1 \in Nat
    BY <1>0 DEF StoresOK
  <2>2. opened' \in [Workers -> Nat]
    BY <1>0, <1>4, <2>1 DEF OpenAttempt, ProcessOK
  <2> QED
    BY <1>0, <1>4, <2>2 DEF OpenAttempt, ProcessOK
<1>5. CASE Fetch(w)
  BY <1>0, <1>5 DEF Fetch, locals, StoresOK, ProcessOK, Returned, Dispositions
<1>6. CASE DegradeRead(w)
  BY <1>0, <1>6 DEF DegradeRead, locals, StoresOK, ProcessOK, Returned,
         Dispositions
<1>7. CASE DegradeWrite(w)
  BY <1>0, <1>7 DEF DegradeWrite, locals, StoresOK, ProcessOK, Returned,
         Dispositions
<1>8. CASE RecordDegraded(w)
  BY <1>0, <1>8 DEF RecordDegraded, Return, locals, StoresOK, ProcessOK,
         Returned, Dispositions
<1>9. CASE RecordFailed(w)
  BY <1>0, <1>9 DEF RecordFailed, Return, locals, StoresOK, ProcessOK,
         Returned, Dispositions
<1>10. CASE EvaluateRead(w)
  BY <1>0, <1>10 DEF EvaluateRead, locals, StoresOK, ProcessOK, Returned,
         Dispositions
<1>11. CASE Recover(w)
  BY <1>0, <1>11 DEF Recover, Return, locals, StoresOK, ProcessOK, Returned,
         Dispositions
<1>12. CASE FenceHeld(w)
  BY <1>0, <1>12 DEF FenceHeld, Adjudicates, locals, StoresOK, ProcessOK,
         Returned, Dispositions
<1>13. CASE LegacyHeld(w)
  BY <1>0, <1>13 DEF LegacyHeld, Adjudicates, Return, Abandon, locals,
         StoresOK, ProcessOK, Returned, Dispositions
<1>14. CASE StillWaiting(w)
  BY <1>0, <1>14 DEF StillWaiting, Adjudicates, locals, StoresOK, ProcessOK,
         Returned, Dispositions
<1>15. CASE Superseded(w)
  BY <1>0, <1>15 DEF Superseded, Adjudicates, locals, StoresOK, ProcessOK,
         Returned, Dispositions
<1>16. CASE Apply(w)
  BY <1>0, <1>16 DEF Apply, Return, Abandon, locals, StoresOK, ProcessOK,
         Returned, Dispositions
<1>17. CASE ClaimLegacy(w)
  BY <1>0, <1>17 DEF ClaimLegacy, Return, Abandon, locals, StoresOK, ProcessOK,
         Returned, Dispositions
<1>18. CASE RecordIntent(w)
  BY <1>0, <1>18 DEF RecordIntent, locals, StoresOK, ProcessOK, Returned,
         Dispositions
<1>19. CASE RecordFinal(w)
  BY <1>0, <1>19 DEF RecordFinal, locals, StoresOK, ProcessOK, Returned,
         Dispositions
<1>20. CASE RecordSuperseded(w)
  BY <1>0, <1>20 DEF RecordSuperseded, locals, StoresOK, ProcessOK, Returned,
         Dispositions
<1>21. CASE Attach(w)
  BY <1>0, <1>21 DEF Attach, Return, locals, StoresOK, ProcessOK, Returned,
         Dispositions
<1>22. CASE Raise(w)
  <2>1. disruptions' \in Nat
    BY <1>0, <1>22 DEF Raise, ProcessOK
  <2>2. result' \in [Workers -> Returned]
    BY <1>0, <1>22
       DEF Raise, Return, Abandon, ProcessOK, Returned, Dispositions
  <2> QED
    BY <1>0, <1>22, <2>1, <2>2 DEF Raise, locals, ProcessOK
<1> QED
  BY <1>1, <1>2, <1>3, <1>4, <1>5, <1>6, <1>7, <1>8, <1>9, <1>10,
     <1>11, <1>12, <1>13, <1>14, <1>15, <1>16, <1>17, <1>18, <1>19, <1>20,
     <1>21, <1>22
     DEF Working, Step

(* Each of them leaves the history well typed. *)
LEMMA WorkingKeepsHistory ==
  ASSUME Control, NEW w \in Workers, Working(w)
  PROVE  HistoryOK'
<1>0. HistoryOK /\ work[w] \in Scans /\ rec.revision + 1 \in Nat
  BY WorkingMoves DEF Control, TypeOK, StoresOK, Records, Moves
<1>1. CASE AnswerCompleted(w)
  BY <1>0, <1>1 DEF AnswerCompleted, history, HistoryOK
<1>2. CASE CreateOrRecover(w)
  BY <1>0, <1>2 DEF CreateOrRecover, history, HistoryOK
<1>3. CASE RetryExhausted(w)
  BY <1>0, <1>3 DEF RetryExhausted, history, HistoryOK
<1>4. CASE OpenAttempt(w)
  BY <1>0, <1>4 DEF OpenAttempt, history, HistoryOK
<1>5. CASE Fetch(w)
  BY <1>0, <1>5 DEF Fetch, history, HistoryOK
<1>6. CASE DegradeRead(w)
  BY <1>0, <1>6 DEF DegradeRead, history, HistoryOK
<1>7. CASE DegradeWrite(w)
  BY <1>0, <1>7 DEF DegradeWrite, history, HistoryOK
<1>8. CASE RecordDegraded(w)
  BY <1>0, <1>8 DEF RecordDegraded, history, HistoryOK
<1>9. CASE RecordFailed(w)
  BY <1>0, <1>9 DEF RecordFailed, history, HistoryOK
<1>10. CASE EvaluateRead(w)
  BY <1>0, <1>10 DEF EvaluateRead, history, HistoryOK
<1>11. CASE Recover(w)
  BY <1>0, <1>11 DEF Recover, history, HistoryOK
<1>12. CASE FenceHeld(w)
  BY <1>0, <1>12 DEF FenceHeld, Adjudicates, history, HistoryOK
<1>13. CASE LegacyHeld(w)
  BY <1>0, <1>13 DEF LegacyHeld, Adjudicates, history, HistoryOK
<1>14. CASE StillWaiting(w)
  BY <1>0, <1>14 DEF StillWaiting, Adjudicates, history, HistoryOK
<1>15. CASE Superseded(w)
  BY <1>0, <1>15 DEF Superseded, Adjudicates, history, HistoryOK
<1>16. CASE Apply(w)
  <2>1. applied' \in [Scans -> Nat]
    BY <1>0, <1>16 DEF Apply, HistoryOK
  <2> QED
    BY <1>0, <1>16, <2>1 DEF Apply, HistoryOK
<1>17. CASE ClaimLegacy(w)
  <2>1. applied' \in [Scans -> Nat]
    BY <1>0, <1>17 DEF ClaimLegacy, HistoryOK
  <2> QED
    BY <1>0, <1>17, <2>1 DEF ClaimLegacy, HistoryOK
<1>18. CASE RecordIntent(w)
  BY <1>0, <1>18 DEF RecordIntent, history, HistoryOK
<1>19. CASE RecordFinal(w)
  BY <1>0, <1>19 DEF RecordFinal, history, HistoryOK
<1>20. CASE RecordSuperseded(w)
  BY <1>0, <1>20 DEF RecordSuperseded, history, HistoryOK
<1>21. CASE Attach(w)
  BY <1>0, <1>21 DEF Attach, history, HistoryOK
<1>22. CASE Raise(w)
  BY <1>0, <1>22 DEF Raise, history, HistoryOK
<1> QED
  BY <1>1, <1>2, <1>3, <1>4, <1>5, <1>6, <1>7, <1>8, <1>9, <1>10,
     <1>11, <1>12, <1>13, <1>14, <1>15, <1>16, <1>17, <1>18, <1>19, <1>20,
     <1>21, <1>22
     DEF Working, Step

(* Each of them keeps control. *)
LEMMA WorkingKeepsControl ==
  ASSUME Control, NEW w \in Workers, Working(w)
  PROVE  Control'
BY WorkingMoves, MovesKeepControl, WorkingKeepsStores, WorkingKeepsProcess,
   WorkingKeepsHistory DEF Control, TypeOK
-----------------------------------------------------------------------------
(* The other actions *)

(* Decide: the run is stored, for a scan no other worker serves. *)
LEMMA DecideKeeps ==
  ASSUME Control, NEW w \in Workers, Decide(w)
  PROVE  Control'
<1> DEFINE s == work[w]
<1>1. pc[w] # "idle" /\ s \in Scans /\ runs[s] = None
  BY DEF Decide, At, Control, Leased, RunAtHand, Searching
<1>2. CASE UNCHANGED <<runs, basis>> /\ Goto(w, "recordFailed")
  <2>1. Moves(w)
    BY <1>1, <1>2 DEF Decide, Goto, locals, Moves, Labels, Finalizing, Searching
  <2> QED
    BY <1>2, <2>1, MovesKeepControl
       DEF Decide, locals, Control, TypeOK, StoresOK, ProcessOK, HistoryOK
<1>3. ASSUME NEW p \in Proposals, NEW r \in Evaluated(seen[w], p),
             runs' = [runs EXCEPT ![s] =
               [prev |-> seen[w].state, prevHalted |-> seen[w].halted,
                next |-> r.state, nextHalted |-> r.halted, intent |-> r.intent]],
             basis' = [basis EXCEPT ![s] = seen[w].revision],
             Goto(w, "adjudicate")
      PROVE  Control'
  <2> DEFINE c == [prev |-> seen[w].state, prevHalted |-> seen[w].halted,
                   next |-> r.state, nextHalted |-> r.halted, intent |-> r.intent]
  <2>1. seen[w] \in Records
    BY DEF Control, TypeOK, ProcessOK
  <2>2. c \in Candidates
    BY <2>1 DEF Evaluated, Allowed, Results, Candidates, Records
  <2>3. c # None
    BY <2>2, NoneAssumption
  <2> HIDE DEF c
  <2>4. runs' \in [Scans -> Candidates \cup {None}] /\ runs'[s] # None
    BY <1>1, <1>3, <2>2, <2>3 DEF c, Control, TypeOK, StoresOK
  <2>5. UNCHANGED <<work, locks>>
    BY DEF Decide, locals
  <2>6. \A v \in Workers \ {w} : pc[v] # "idle" => runs'[work[v]] = runs[work[v]]
    <3> SUFFICES ASSUME NEW v \in Workers \ {w}, pc[v] # "idle"
                 PROVE  runs'[work[v]] = runs[work[v]]
      OBVIOUS
    <3>1. work[v] \in Scans /\ work[v] # s
      BY <1>1 DEF Control, Leased
    <3> QED
      BY <1>3, <3>1 DEF Control, TypeOK, StoresOK
  <2>7. pc' \in [Workers -> Labels] /\ pc' = [pc EXCEPT ![w] = "adjudicate"]
    BY <1>3 DEF Goto, Control, TypeOK, ProcessOK, Labels
  <2>8. Leased'
    BY <1>1, <2>5, <2>7 DEF Control, TypeOK, ProcessOK, Leased
  <2>9. RunAtHand'
    <3> SUFFICES ASSUME NEW v \in Workers
                 PROVE  /\ pc'[v] \in Finalizing => runs'[work'[v]] # None
                        /\ pc'[v] \in Searching => runs'[work'[v]] = None
      BY DEF RunAtHand
    <3>1. CASE v = w
      BY <2>4, <2>5, <2>7, <3>1 DEF Control, TypeOK, ProcessOK, Searching
    <3>2. CASE v # w
      <4>1. pc'[v] = pc[v] /\ work'[v] = work[v]
        BY <2>5, <2>7, <3>2 DEF Control, TypeOK, ProcessOK
      <4>2. CASE pc[v] # "idle"
        BY <2>6, <3>2, <4>1, <4>2 DEF Control, RunAtHand
      <4>3. CASE pc[v] = "idle"
        BY <4>1, <4>3 DEF Finalizing, Searching
      <4> QED
        BY <4>2, <4>3
    <3> QED
      BY <3>1, <3>2
  <2>10. StoresOK'
    BY <2>4 DEF Decide, Control, TypeOK, StoresOK
  <2>11. ProcessOK'
    BY <2>7 DEF Decide, locals, Control, TypeOK, ProcessOK
  <2>12. HistoryOK'
    <3>1. seen[w].revision \in Nat
      BY <2>1 DEF Records
    <3> QED
      BY <1>1, <1>3, <3>1 DEF Decide, Control, TypeOK, HistoryOK
  <2> QED
    BY <2>8, <2>9, <2>10, <2>11, <2>12 DEF Control, TypeOK
<1> QED
  BY <1>2, <1>3 DEF Decide

(* Release: the worker gives back the one lease it holds. *)
LEMMA ReleaseKeeps ==
  ASSUME Control, NEW w \in Workers, Release(w)
  PROVE  Control'
<1>1. work[w] \in Scans /\ locks[work[w]] = w
  BY DEF Release, At, Control, Leased
<1>2. /\ pc' = [pc EXCEPT ![w] = "idle"] /\ UNCHANGED <<work, runs>>
      /\ locks' = [locks EXCEPT ![work[w]] = None]
  BY DEF Release, Goto, stores
<1>3. pc' \in [Workers -> Labels] /\ locks' \in [Scans -> Workers \cup {None}]
  BY <1>1, <1>2 DEF Control, TypeOK, ProcessOK, Labels
<1>4. Leased'
  <2> SUFFICES ASSUME NEW v \in Workers, pc'[v] # "idle"
               PROVE  work'[v] \in Scans /\ locks'[work'[v]] = v
    BY DEF Leased
  <2>1. v # w /\ pc[v] # "idle"
    BY <1>2 DEF Control, TypeOK, ProcessOK
  <2>2. work[v] \in Scans /\ locks[work[v]] = v
    BY <2>1 DEF Control, Leased
  <2>3. work[v] # work[w]
    BY <1>1, <2>1, <2>2
  <2> QED
    BY <1>2, <2>2, <2>3 DEF Control, TypeOK, ProcessOK
<1>5. RunAtHand'
  BY <1>2 DEF Control, TypeOK, ProcessOK, RunAtHand, Finalizing, Searching
<1>6. StoresOK' /\ HistoryOK'
  BY DEF Release, stores, history, Control, TypeOK, StoresOK, HistoryOK
<1>7. Blank \in Records
  BY DEF Blank, Records, States
<1>8. ProcessOK'
  BY <1>3, <1>7 DEF Release, Control, TypeOK, ProcessOK
<1> QED
  BY <1>4, <1>5, <1>6, <1>8 DEF Control, TypeOK

(* Acquire: a free lease is taken by an idle worker. *)
LEMMA AcquireKeeps ==
  ASSUME Control, NEW w \in Workers, NEW s \in Scans, Acquire(w, s)
  PROVE  Control'
<1>1. /\ pc[w] = "idle" /\ locks[s] = None
      /\ pc' = [pc EXCEPT ![w] = "lookup"] /\ work' = [work EXCEPT ![w] = s]
      /\ locks' = [locks EXCEPT ![s] = w] /\ UNCHANGED runs
  BY DEF Acquire, At, Goto, stores
<1>2. /\ pc' \in [Workers -> Labels] /\ work' \in [Workers -> Scans \cup {None}]
      /\ locks' \in [Scans -> Workers \cup {None}]
  BY <1>1 DEF Control, TypeOK, ProcessOK, Labels
<1>3. Leased'
  <2> SUFFICES ASSUME NEW v \in Workers, pc'[v] # "idle"
               PROVE  work'[v] \in Scans /\ locks'[work'[v]] = v
    BY DEF Leased
  <2>1. CASE v = w
    BY <1>1, <2>1 DEF Control, TypeOK, ProcessOK
  <2>2. CASE v # w
    <3>1. pc[v] # "idle" /\ work'[v] = work[v]
      BY <1>1, <2>2 DEF Control, TypeOK, ProcessOK
    <3>2. work[v] \in Scans /\ locks[work[v]] = v /\ v # None
      BY <3>1, ConstantsAssumption DEF Control, Leased
    <3> QED
      BY <1>1, <3>1, <3>2 DEF Control, TypeOK, ProcessOK
  <2> QED
    BY <2>1, <2>2
<1>4. RunAtHand'
  BY <1>1 DEF Control, TypeOK, ProcessOK, RunAtHand, Finalizing, Searching
<1>5. StoresOK' /\ HistoryOK'
  BY DEF Acquire, stores, history, Control, TypeOK, StoresOK, HistoryOK
<1>6. ProcessOK'
  BY <1>2 DEF Acquire, Control, TypeOK, ProcessOK, Returned
<1> QED
  BY <1>3, <1>4, <1>5, <1>6 DEF Control, TypeOK

(* Refuse and Duplicate: a caller that is turned away stays outside. *)
LEMMA TurnedAwayKeeps ==
  ASSUME Control, NEW w \in Workers,
         Refuse(w) \/ \E s \in Scans : Duplicate(w, s)
  PROVE  Control'
<1>1. /\ pc[w] = "idle" /\ UNCHANGED <<stores, locks, pc, fresh, seen, opened,
                                       disruptions, history>>
      /\ work' = [work EXCEPT ![w] = None]
  BY DEF Refuse, Duplicate, At
<1>2. result' \in [Workers -> Returned]
  BY DEF Refuse, Duplicate, Control, TypeOK, ProcessOK, Returned, Dispositions
<1>3. StoresOK' /\ HistoryOK'
  BY <1>1 DEF stores, history, Control, TypeOK, StoresOK, HistoryOK
<1>4. ProcessOK'
  BY <1>1, <1>2 DEF Control, TypeOK, ProcessOK
<1>5. Leased' /\ RunAtHand'
  BY <1>1 DEF stores, Control, TypeOK, ProcessOK, Leased, RunAtHand, Finalizing,
              Searching
<1> QED
  BY <1>3, <1>4, <1>5 DEF Control, TypeOK

(* Crash: nobody is inside run() any more. *)
LEMMA CrashKeeps ==
  ASSUME Control, Crash
  PROVE  Control'
<1>1. StoresOK' /\ HistoryOK'
  BY DEF Crash, stores, history, Control, TypeOK, StoresOK, HistoryOK
<1>2. Blank \in Records /\ "NONE" \in Returned /\ "idle" \in Labels
  BY DEF Blank, Records, States, Returned, Labels
<1>3. ProcessOK'
  BY <1>2 DEF Crash, Control, TypeOK, ProcessOK
<1>4. Leased' /\ RunAtHand'
  BY DEF Crash, Leased, RunAtHand, Finalizing, Searching
<1> QED
  BY <1>1, <1>3, <1>4 DEF Control, TypeOK
-----------------------------------------------------------------------------
(* The theorems *)

(* Fresh plans and migrated ones start under control. *)
LEMMA InitControl == Init => Control
<1> SUFFICES ASSUME Init PROVE Control
  OBVIOUS
<1>1. ProcessInit
  BY DEF Init
<1>2. Blank \in Records /\ "NONE" \in Returned /\ "idle" \in Labels
  BY DEF Blank, Records, States, Returned, Labels
<1>3. ProcessOK /\ Leased /\ RunAtHand
  BY <1>1, <1>2, ConstantsAssumption
     DEF ProcessInit, ProcessOK, Leased, RunAtHand, Finalizing, Searching
<1>4. basis \in [Scans -> Nat] /\ degradedAt \in Nat
  BY <1>1 DEF ProcessInit
<1>5. CASE FreshInit
  <2>1. rec \in Records
    BY <1>5, ConstantsAssumption DEF FreshInit, Records
  <2>2. attempts \in [Scans -> Seq(Attempts)]
    BY <1>5 DEF FreshInit
  <2> QED
    BY <1>3, <1>4, <1>5, <2>1, <2>2
       DEF FreshInit, StoresOK, HistoryOK, Control, TypeOK
<1>6. ASSUME NEW l \in LegacyScans, NEW claimed \in BOOLEAN, LegacyInit(l, claimed)
      PROVE  Control
  <2>1. l \in Scans
    BY ConstantsAssumption
  <2>2. rec \in Records
    BY <1>6, <2>1 DEF LegacyInit, Records, States
  <2>3. Attempt("RUNNING", 0, "NONE") \in Attempts
    BY DEF Attempt, Attempts
  <2>4. attempts \in [Scans -> Seq(Attempts)]
    BY <1>6, <2>3 DEF LegacyInit
  <2>5. LegacyRun \in Candidates
    BY DEF LegacyRun, Candidates, States
  <2>6. StoresOK
    BY <1>6, <2>1, <2>2, <2>4, <2>5 DEF LegacyInit, StoresOK
  <2>7. HistoryOK
    BY <1>4, <1>6 DEF LegacyInit, HistoryOK
  <2> QED
    BY <1>3, <2>6, <2>7 DEF Control, TypeOK
<1> QED
  BY <1>5, <1>6 DEF Init

(* Every step keeps control. *)
LEMMA NextControl == Control /\ [Next]_vars => Control'
<1> SUFFICES ASSUME Control, [Next]_vars PROVE Control'
  OBVIOUS
<1>1. ASSUME NEW w \in Workers, Step(w) \/ Raise(w) PROVE Control'
  BY <1>1, WorkingKeepsControl, DecideKeeps, ReleaseKeeps DEF Working
<1>2. ASSUME NEW w \in Workers, NEW s \in Scans, Call(w, s) PROVE Control'
  BY <1>2, TurnedAwayKeeps, AcquireKeeps DEF Call
<1>3. CASE UNCHANGED vars
  BY <1>3 DEF vars, stores, locals, history, Control, TypeOK, StoresOK, ProcessOK,
              HistoryOK, Leased, RunAtHand
<1> QED
  BY <1>1, <1>2, <1>3, CrashKeeps DEF Next

(* Every store and local variable keeps its type, and a worker inside      *)
(* run() always holds the lease of the scan it serves, however calls,      *)
(* exceptions and crashes interleave.                                      *)
THEOREM ControlIsInvariant == Spec => []Control
BY InitControl, NextControl, PTL DEF Spec

(* The types of TypeOK, for any instance. *)
THEOREM TypesAreCorrect == Spec => []TypeOK
<1>1. Control => TypeOK
  BY DEF Control
<1> QED
  BY <1>1, ControlIsInvariant, PTL

(* No two workers ever serve one scan at once. *)
THEOREM LocksExclude == Spec => []LockExclusion
<1>1. Control => LockExclusion
  BY DEF Control, Leased, LockExclusion
<1> QED
  BY <1>1, ControlIsInvariant, PTL

-----------------------------------------------------------------------------
(***************************************************************************)
(* Who may claim the recommendation record, for any instance of            *)
(* RunCoordinator.  With one worker per scan (Control) a run never changes *)
(* once it is stored, so the fence keeps naming the run whose result the   *)
(* record carries, and an intent is only recorded behind a won transition. *)
(***************************************************************************)
(* FenceNamesOwner and IntentFollowsTransition become inductive once the   *)
(* fence is known to come from an applied run and a worker about to record *)
(* an intent is known to serve one.                                        *)
Claims ==
  /\ FenceNamesOwner
  /\ \A s \in Scans : rec.fence = s => applied[s] > 0
  /\ IntentFollowsTransition
  /\ \A w \in Workers :
       pc[w] = "intent" => runs[work[w]].intent /\ applied[work[w]] > 0

(* A worker's step that touches none of the record, the runs, the intents  *)
(* and the applied revisions.                                              *)
Quiet(w, l) ==
  /\ pc' = [pc EXCEPT ![w] = l]
  /\ UNCHANGED <<rec, runs, intents, applied, work>>
  /\ l = "intent" => runs[work[w]].intent /\ applied[work[w]] > 0

(* Such a step keeps the claims. *)
LEMMA QuietKeepsClaims ==
  ASSUME Control, Claims, NEW w \in Workers, NEW l \in Labels, Quiet(w, l)
  PROVE  Claims'
BY DEF Quiet, Control, TypeOK, ProcessOK, Claims, FenceNamesOwner,
       IntentFollowsTransition, Reached

(* The steps of a worker that leave the claims' variables alone.           *)
LEMMA MostStepsAreQuiet ==
  ASSUME Control, Claims, NEW w \in Workers,
         Step(w) \/ Raise(w),
         ~DegradeWrite(w), ~Decide(w), ~Apply(w), ~ClaimLegacy(w), ~RecordIntent(w)
  PROVE  \E l \in Labels : Quiet(w, l)
<1>1. CASE AnswerCompleted(w)
  BY <1>1
     DEF AnswerCompleted, Return, Goto, Quiet, stores, locals, history, Labels
<1>2. CASE CreateOrRecover(w)
  BY <1>2 DEF CreateOrRecover, Goto, Quiet, stores, locals, history, Labels
<1>3. CASE RetryExhausted(w)
  BY <1>3
     DEF RetryExhausted, Return, Goto, Quiet, stores, locals, history, Labels
<1>4. CASE OpenAttempt(w)
  BY <1>4 DEF OpenAttempt, Goto, Quiet, stores, locals, history, Labels
<1>5. CASE Fetch(w)
  BY <1>5 DEF Fetch, Goto, Quiet, stores, locals, history, Labels
<1>6. CASE DegradeRead(w)
  BY <1>6 DEF DegradeRead, Goto, Quiet, stores, locals, history, Labels
<1>7. CASE RecordDegraded(w)
  BY <1>7
     DEF RecordDegraded, Return, Goto, Quiet, stores, locals, history, Labels
<1>8. CASE RecordFailed(w)
  BY <1>8
     DEF RecordFailed, Return, Goto, Quiet, stores, locals, history, Labels
<1>9. CASE EvaluateRead(w)
  BY <1>9 DEF EvaluateRead, Goto, Quiet, stores, locals, history, Labels
<1>10. CASE Recover(w)
  BY <1>10 DEF Recover, Return, Goto, Quiet, stores, locals, history, Labels
<1>11. CASE FenceHeld(w)
  <2>1. work[w] \in Scans
    BY <1>11 DEF FenceHeld, Adjudicates, At, Control, Leased
  <2>2. applied[work[w]] > 0
    BY <1>11, <2>1 DEF FenceHeld, Claims
  <2> QED
    BY <1>11, <2>2
       DEF FenceHeld, Adjudicates, AfterEffects, Goto, Quiet, stores, history, Labels
<1>12. CASE LegacyHeld(w)
  BY <1>12
     DEF LegacyHeld, Adjudicates, Return, Abandon, Goto, Quiet, stores, locals,
         history, Labels
<1>13. CASE StillWaiting(w)
  BY <1>13
     DEF StillWaiting, Adjudicates, Goto, Quiet, stores, locals, history, Labels
<1>14. CASE Superseded(w)
  BY <1>14
     DEF Superseded, Adjudicates, Goto, Quiet, stores, locals, history, Labels
<1>15. CASE RecordFinal(w)
  BY <1>15 DEF RecordFinal, Goto, Quiet, stores, locals, history, Labels
<1>16. CASE RecordSuperseded(w)
  BY <1>16 DEF RecordSuperseded, Goto, Quiet, stores, locals, history, Labels
<1>17. CASE Attach(w)
  BY <1>17 DEF Attach, Return, Goto, Quiet, stores, locals, history, Labels
<1>18. CASE Release(w)
  BY <1>18 DEF Release, Goto, Quiet, stores, locals, history, Labels
<1>19. CASE Raise(w)
  BY <1>19
     DEF Raise, Return, Abandon, Goto, Quiet, stores, locals, history, Labels
<1> QED
  BY <1>1, <1>2, <1>3, <1>4, <1>5, <1>6, <1>7, <1>8, <1>9,
     <1>10, <1>11, <1>12, <1>13, <1>14, <1>15, <1>16, <1>17,
     <1>18, <1>19 DEF Step

(* A degradation clears the fence, whatever it was. *)
LEMMA DegradeWriteKeepsClaims ==
  ASSUME Control, Claims, NEW w \in Workers, DegradeWrite(w)
  PROVE  Claims'
<1>1. pc[w] # "idle" /\ work[w] \in Scans
  BY DEF DegradeWrite, At, Control, Leased
<1>2. UNCHANGED <<runs, intents, applied, work>>
  BY DEF DegradeWrite, locals
<1>3. PICK l \in {"recordDegraded", "recordFailed"} : pc' = [pc EXCEPT ![w] = l]
  BY DEF DegradeWrite, Goto
<1>4. CASE UNCHANGED rec
  BY <1>2, <1>3, <1>4, QuietKeepsClaims DEF Quiet, Labels
<1>5. ASSUME NEW r \in Allowed(rec.state, rec.halted, DegradedEvidence),
             Replace(r.state, r.halted, None)
      PROVE  Claims'
  <2>1. rec'.fence = None
    BY <1>5 DEF Replace, Control, TypeOK, StoresOK, Records
  <2>2. \A s \in Scans : rec'.fence # s
    BY <2>1, ConstantsAssumption
  <2>3. \A v \in Workers : pc'[v] = "intent" => pc[v] = "intent"
    BY <1>3 DEF Control, TypeOK, ProcessOK
  <2> QED
    BY <1>2, <2>2, <2>3 DEF Claims, FenceNamesOwner, IntentFollowsTransition
<1> QED
  BY <1>4, <1>5 DEF DegradeWrite

(* A new run is nobody's fence yet and has no intent yet. *)
LEMMA DecideKeepsClaims ==
  ASSUME Control, Claims, NEW w \in Workers, Decide(w)
  PROVE  Claims'
<1> DEFINE s == work[w]
<1>1. s \in Scans /\ runs[s] = None
  BY DEF Decide, At, Control, Leased, RunAtHand, Searching
<1>2. UNCHANGED <<rec, intents, applied, work>>
  BY DEF Decide, locals
<1>3. PICK l \in {"adjudicate", "recordFailed"} : pc' = [pc EXCEPT ![w] = l]
  BY DEF Decide, Goto
<1>4. \A t \in Scans \ {s} : runs'[t] = runs[t]
  BY <1>1 DEF Decide, Control, TypeOK, StoresOK
<1>5. rec.fence # s /\ s \notin intents
  BY <1>1 DEF Claims, FenceNamesOwner, IntentFollowsTransition
<1>6. FenceNamesOwner' /\ \A t \in Scans : rec'.fence = t => applied'[t] > 0
  BY <1>2, <1>4, <1>5 DEF Claims, FenceNamesOwner, Reached
<1>7. IntentFollowsTransition'
  <2>1. intents \subseteq Scans
    BY DEF Control, TypeOK, StoresOK
  <2> QED
    BY <1>2, <1>4, <1>5, <2>1 DEF Claims, IntentFollowsTransition
<1>8. ASSUME NEW v \in Workers, pc'[v] = "intent"
      PROVE  runs'[work'[v]].intent /\ applied'[work'[v]] > 0
  <2>1. v # w /\ pc[v] = "intent"
    BY <1>3, <1>8 DEF Control, TypeOK, ProcessOK
  <2>2. work[v] \in Scans /\ work[v] # s
    BY <1>1, <2>1 DEF Control, RunAtHand, Leased, Finalizing
  <2> QED
    BY <1>2, <1>4, <2>1, <2>2 DEF Claims
<1> QED
  BY <1>6, <1>7, <1>8 DEF Claims

(* The step both compare-and-sets share: the run's result replaces the     *)
(* record under its own fence, and its revision is the run's.              *)
Wins(w) ==
  /\ Replace(runs[work[w]].next, runs[work[w]].nextHalted, work[w])
  /\ applied' = [applied EXCEPT ![work[w]] = rec.revision + 1]

(* Winning the record keeps the claims. *)
LEMMA WinKeepsClaims ==
  ASSUME Control, Claims, NEW w \in Workers, NEW l \in Labels,
         work[w] \in Scans, runs[work[w]] # None, Wins(w),
         pc' = [pc EXCEPT ![w] = l], UNCHANGED <<runs, intents, work>>,
         l = "intent" => runs[work[w]].intent
  PROVE  Claims'
<1> DEFINE s == work[w]
<1>1. runs[s] \in Candidates /\ rec \in Records
  BY DEF Control, TypeOK, StoresOK
<1>2. /\ rec'.revision = rec.revision + 1 /\ rec'.fence = s
      /\ rec'.state = runs[s].next /\ rec'.halted = runs[s].nextHalted
  BY <1>1, ReplaceTyped DEF Wins, Candidates
<1>3. rec.revision + 1 > 0 /\ rec.revision + 1 \in Nat
  BY <1>1 DEF Records
<1>4. applied'[s] = rec'.revision /\ applied'[s] > 0
  BY <1>2, <1>3 DEF Wins, Control, TypeOK, HistoryOK
<1>5. \A t \in Scans : applied[t] > 0 => applied'[t] > 0
  BY <1>3 DEF Wins, Control, TypeOK, HistoryOK
<1>6. FenceNamesOwner' /\ \A t \in Scans : rec'.fence = t => applied'[t] > 0
  BY <1>2, <1>4 DEF FenceNamesOwner, Reached
<1>7. IntentFollowsTransition'
  <2>1. intents \subseteq Scans
    BY DEF Control, TypeOK, StoresOK
  <2> QED
    BY <1>5, <2>1 DEF Claims, IntentFollowsTransition
<1>8. ASSUME NEW v \in Workers, pc'[v] = "intent"
      PROVE  runs'[work'[v]].intent /\ applied'[work'[v]] > 0
  <2>1. CASE v = w
    BY <1>4, <1>8, <2>1 DEF Control, TypeOK, ProcessOK
  <2>2. CASE v # w
    <3>1. pc[v] = "intent"
      BY <1>8, <2>2 DEF Control, TypeOK, ProcessOK
    <3>2. work[v] \in Scans
      BY <3>1 DEF Control, Leased
    <3> QED
      BY <1>5, <3>1, <3>2 DEF Claims
  <2> QED
    BY <2>1, <2>2
<1> QED
  BY <1>6, <1>7, <1>8 DEF Claims

(* The run's own compare-and-set, won or lost. *)
LEMMA ApplyKeepsClaims ==
  ASSUME Control, Claims, NEW w \in Workers, Apply(w)
  PROVE  Claims'
<1>1. work[w] \in Scans /\ runs[work[w]] # None
  BY DEF Apply, At, Control, Leased, RunAtHand, Finalizing
<1>2. UNCHANGED <<runs, intents, work>>
  BY DEF Apply, locals
<1>3. CASE Wins(w)
  <2>1. PICK l \in Labels : /\ pc' = [pc EXCEPT ![w] = l]
                            /\ l = "intent" => runs[work[w]].intent
    BY <1>3 DEF Apply, Goto, Return, Abandon, AfterEffects, Labels
  <2> QED
    BY <1>1, <1>2, <1>3, <2>1, WinKeepsClaims
<1>4. CASE UNCHANGED <<rec, applied>> /\ Abandon(w)
  <2>1. PICK l \in {"recordFailed", "release"} : pc' = [pc EXCEPT ![w] = l]
    BY <1>4 DEF Abandon, Goto, Return
  <2> QED
    BY <1>2, <1>4, <2>1, QuietKeepsClaims DEF Quiet, Labels
<1> QED
  BY <1>3, <1>4 DEF Apply, Wins

(* The claimed legacy run's compare-and-set, won or lost. *)
LEMMA ClaimLegacyKeepsClaims ==
  ASSUME Control, Claims, NEW w \in Workers, ClaimLegacy(w)
  PROVE  Claims'
<1>1. work[w] \in Scans /\ runs[work[w]] # None
  BY DEF ClaimLegacy, At, Control, Leased, RunAtHand, Finalizing
<1>2. UNCHANGED <<runs, intents, work>>
  BY DEF ClaimLegacy, locals
<1>3. CASE Wins(w)
  <2>1. PICK l \in Labels : /\ pc' = [pc EXCEPT ![w] = l]
                            /\ l = "intent" => runs[work[w]].intent
    BY <1>3 DEF ClaimLegacy, Goto, Return, Abandon, AfterEffects, Labels
  <2> QED
    BY <1>1, <1>2, <1>3, <2>1, WinKeepsClaims
<1>4. CASE UNCHANGED <<rec, applied>> /\ Abandon(w)
  <2>1. PICK l \in {"recordFailed", "release"} : pc' = [pc EXCEPT ![w] = l]
    BY <1>4 DEF Abandon, Goto, Return
  <2> QED
    BY <1>2, <1>4, <2>1, QuietKeepsClaims DEF Quiet, Labels
<1> QED
  BY <1>3, <1>4 DEF ClaimLegacy, Wins

(* The intent that is recorded is the one that was due. *)
LEMMA RecordIntentKeepsClaims ==
  ASSUME Control, Claims, NEW w \in Workers, RecordIntent(w)
  PROVE  Claims'
<1>1. /\ pc[w] = "intent" /\ pc' = [pc EXCEPT ![w] = "recordFinal"]
      /\ intents' = intents \cup {work[w]}
      /\ UNCHANGED <<rec, runs, applied, work>>
  BY DEF RecordIntent, At, Goto, locals, history
<1>2. runs[work[w]] # None /\ runs[work[w]].intent /\ applied[work[w]] > 0
  BY <1>1 DEF Control, RunAtHand, Finalizing, Claims
<1>3. IntentFollowsTransition'
  BY <1>1, <1>2 DEF Claims, IntentFollowsTransition
<1>4. \A v \in Workers : pc'[v] = "intent" => pc[v] = "intent"
  BY <1>1 DEF Control, TypeOK, ProcessOK
<1> QED
  BY <1>1, <1>3, <1>4 DEF Claims, FenceNamesOwner, Reached

(* Calls that arrive or are turned away, and the loss of the process. *)
LEMMA OutsideKeepsClaims ==
  ASSUME Control, Claims, Crash \/ \E w \in Workers, s \in Scans : Call(w, s)
  PROVE  Claims'
<1>1. UNCHANGED <<rec, runs, intents, applied>>
  BY DEF Crash, Call, Refuse, Duplicate, Acquire, stores, history
<1>2. ASSUME NEW v \in Workers, pc'[v] = "intent"
      PROVE  pc[v] = "intent" /\ work'[v] = work[v]
  <2>1. CASE Crash
    BY <1>2, <2>1 DEF Crash
  <2>2. ASSUME NEW w \in Workers, NEW s \in Scans, Call(w, s)
        PROVE  pc[v] = "intent" /\ work'[v] = work[v]
    <3>1. /\ pc[w] = "idle"
          /\ pc' = pc \/ pc' = [pc EXCEPT ![w] = "lookup"]
          /\ work' = [work EXCEPT ![w] = None] \/ work' = [work EXCEPT ![w] = s]
      BY <2>2 DEF Call, Refuse, Duplicate, Acquire, At, Goto
    <3> QED
      BY <1>2, <3>1 DEF Control, TypeOK, ProcessOK
  <2> QED
    BY <2>1, <2>2
<1>3. FenceNamesOwner' /\ IntentFollowsTransition'
      /\ \A s \in Scans : rec'.fence = s => applied'[s] > 0
  BY <1>1 DEF Claims, FenceNamesOwner, IntentFollowsTransition, Reached
<1> QED
  BY <1>1, <1>2, <1>3 DEF Claims

(* Fresh plans carry no claim of these scans, migrated ones a proved one.  *)
LEMMA InitClaims == Init => Claims
<1> SUFFICES ASSUME Init PROVE Claims
  OBVIOUS
<1>1. \A w \in Workers : pc[w] # "intent"
  BY DEF Init, ProcessInit
<1>2. \A s \in Scans : rec.fence # s
  BY ConstantsAssumption DEF Init, FreshInit, LegacyInit
<1>3. IntentFollowsTransition
  <2>1. CASE FreshInit
    BY <2>1 DEF FreshInit, IntentFollowsTransition
  <2>2. ASSUME NEW l \in LegacyScans, NEW claimed \in BOOLEAN, LegacyInit(l, claimed)
        PROVE  IntentFollowsTransition
    <3>1. l \in Scans
      BY ConstantsAssumption
    <3>2. LegacyRun # None /\ LegacyRun.intent
      <4>1. LegacyRun \in Candidates
        BY DEF LegacyRun, Candidates, States
      <4> QED
        BY <4>1, NoneAssumption DEF LegacyRun
    <3> QED
      BY <2>2, <3>1, <3>2 DEF LegacyInit, IntentFollowsTransition
  <2> QED
    BY <2>1, <2>2 DEF Init
<1> QED
  BY <1>1, <1>2, <1>3 DEF Claims, FenceNamesOwner

(* Every step keeps the claims. *)
LEMMA NextClaims == Control /\ Claims /\ [Next]_vars => Claims'
<1> SUFFICES ASSUME Control, Claims, [Next]_vars PROVE Claims'
  OBVIOUS
<1>1. ASSUME NEW w \in Workers, Step(w) \/ Raise(w) PROVE Claims'
  BY <1>1, MostStepsAreQuiet, QuietKeepsClaims, DegradeWriteKeepsClaims,
     DecideKeepsClaims, ApplyKeepsClaims, ClaimLegacyKeepsClaims,
     RecordIntentKeepsClaims
<1>2. CASE UNCHANGED vars
  BY <1>2 DEF vars, stores, locals, history, Claims, FenceNamesOwner,
              IntentFollowsTransition, Reached
<1> QED
  BY <1>1, <1>2, OutsideKeepsClaims DEF Next

(* The claims hold in every reachable state. *)
LEMMA ClaimsAreInvariant == Spec => []Claims
BY InitClaims, NextClaims, ControlIsInvariant, PTL DEF Spec

(* While the record's fence names a run, the record carries exactly that   *)
(* run's result, at the revision of that run's own compare-and-set.        *)
THEOREM FenceIsTruthful == Spec => []FenceNamesOwner
<1>1. Claims => FenceNamesOwner
  BY DEF Claims
<1> QED
  BY <1>1, ClaimsAreInvariant, PTL

(* No notification intent is ever recorded for a run that lost the record  *)
(* or that did not decide to notify.                                       *)
THEOREM LosersNeverNotify == Spec => []IntentFollowsTransition
<1>1. Claims => IntentFollowsTransition
  BY DEF Claims
<1> QED
  BY <1>1, ClaimsAreInvariant, PTL

-----------------------------------------------------------------------------
(***************************************************************************)
(* The audit trail of RunCoordinator, for any number of workers, scans,    *)
(* attempts, exceptions and crashes: the attempts of a scan form one       *)
(* recovery chain, an APPLIED final attempt means what it says, and every  *)
(* caller hears the outcome that was audited.                              *)
(***************************************************************************)
Clean(list) == Numbers(list, "SUCCEEDED") = {}

SaysApplied(list) ==
  \E n \in Numbers(list, "SUCCEEDED") : list[n].disposition = "APPLIED"

Chained(list) ==
  \A n \in 1..Len(list) : Admissible(SubSeq(list, 1, n - 1), list[n])

(* Final attempts carry a verdict, and once one is APPLIED it stays the    *)
(* last word.                                                              *)
Judged(list) ==
  /\ \A n \in Numbers(list, "SUCCEEDED") : list[n].disposition \in Verdicts
  /\ ~Clean(list) => Verdict(list) \in Verdicts
  /\ SaysApplied(list) => Verdict(list) = "APPLIED"

(* The effects of a run that took effect. *)
InEffect(s) == applied[s] > 0 /\ (runs[s].intent => s \in intents)

ScanTrail(s) ==
  /\ Chained(attempts[s]) /\ Judged(attempts[s])
  /\ ~Clean(attempts[s]) => runs[s] # None
  /\ scans[s] = "COMPLETED" => ~Clean(attempts[s])
  /\ SaysApplied(attempts[s]) => InEffect(s)

Outside == {"idle", "lookup", "release"}
Auditing == {"fetch", "degradeRead", "degradeWrite", "recordDegraded", "evaluate",
             "decide", "recordFailed"}
Unsettled == Effects \cup {"recordSuperseded"}

(* A worker's own RUNNING attempt is the last one of a scan without final  *)
(* attempts; a worker that is not done with a run knows of no APPLIED one. *)
WorkerTrail(w) ==
  LET s == work[w] IN
  /\ pc[w] \notin Outside => scans[s] = "RUNNING"
  /\ pc[w] = "recover" => ~fresh[w]
  /\ pc[w] \in Auditing \/ (pc[w] \in Effects /\ fresh[w]) =>
       opened[w] = Len(attempts[s]) /\ Clean(attempts[s])
  /\ pc[w] \in Unsettled => ~SaysApplied(attempts[s])
  /\ pc[w] = "claim" => (runs[s].intent => s \in intents)
  /\ pc[w] = "recordFinal" => InEffect(s)
  /\ pc[w] = "attach" => Verdict(attempts[s]) = "APPLIED"
  /\ pc[w] = "attachSuperseded" => Verdict(attempts[s]) = "SUPERSEDED"

(* Answers that say how a scan ended, and what makes each of them true for *)
(* good: a spent budget also needs that nobody is with the provider.       *)
Conclusive == {"COMPLETED", "SUPERSEDED", "RETRY_EXHAUSTED"}
Early == {"lookup", "open", "release"}

Justified(d, s) ==
  /\ d = "COMPLETED" => scans[s] = "COMPLETED" /\ Verdict(attempts[s]) = "APPLIED"
  /\ d = "SUPERSEDED" => scans[s] = "COMPLETED" /\ Verdict(attempts[s]) = "SUPERSEDED"
  /\ d = "RETRY_EXHAUSTED" =>
       /\ runs[s] = None /\ Exhausted(s)
       /\ \A v \in Workers : pc[v] # "idle" /\ work[v] = s => pc[v] \in Early

AnswerTrail(w) ==
  result[w] \in Conclusive => work[w] \in Scans /\ Justified(result[w], work[w])

Trail ==
  /\ \A s \in Scans : ScanTrail(s)
  /\ \A w \in Workers : WorkerTrail(w) /\ AnswerTrail(w)
-----------------------------------------------------------------------------
(* Appending an attempt *)

(* The new attempt comes last, after the old ones. *)
LEMMA Appended ==
  ASSUME NEW list \in Seq(Attempts), NEW a \in Attempts
  PROVE  /\ Append(list, a) \in Seq(Attempts)
         /\ Len(list) \in Nat /\ Len(Append(list, a)) = Len(list) + 1
         /\ \A n \in 1..Len(list) : Append(list, a)[n] = list[n]
         /\ Append(list, a)[Len(list) + 1] = a
BY AppendProperties, LenProperties

(* The number of the new attempt joins those of its status. *)
LEMMA NumbersAppended ==
  ASSUME NEW list \in Seq(Attempts), NEW a \in Attempts, NEW status
  PROVE  Numbers(Append(list, a), status) =
           Numbers(list, status) \cup (IF a.status = status THEN {Len(list) + 1} ELSE {})
<1>1. 1..(Len(list) + 1) = 1..Len(list) \cup {Len(list) + 1}
  BY Appended
<1> QED
  BY <1>1, Appended DEF Numbers

(* What was appended before is a prefix. *)
LEMMA PrefixAppended ==
  ASSUME NEW list \in Seq(Attempts), NEW a \in Attempts, NEW n \in 0..Len(list)
  PROVE  SubSeq(Append(list, a), 1, n) = SubSeq(list, 1, n)
<1> DEFINE longer == Append(list, a)
<1>1. /\ Len(list) \in Nat /\ n \in Nat /\ \A i \in 1..n : i \in 1..Len(list)
  BY Appended
<1>2. \A i \in 1..n : longer[i] = list[i] /\ list[i] \in Attempts
  BY <1>1, Appended, ElementOfSeq
<1> HIDE DEF longer
<1>3. /\ SubSeq(longer, 1, n) \in Seq(Attempts)
      /\ Len(SubSeq(longer, 1, n)) = n
      /\ \A i \in 1..n : SubSeq(longer, 1, n)[i] = longer[i]
  BY <1>1, <1>2, SubSeqProperties
<1>4. /\ SubSeq(list, 1, n) \in Seq(Attempts)
      /\ Len(SubSeq(list, 1, n)) = n
      /\ \A i \in 1..n : SubSeq(list, 1, n)[i] = list[i]
  BY <1>1, <1>2, SubSeqProperties
<1>5. SubSeq(longer, 1, n) = SubSeq(list, 1, n)
  BY <1>2, <1>3, <1>4, SeqEqual
<1> QED
  BY <1>5 DEF longer

(* An admissible attempt extends the chain. *)
LEMMA ChainedAppended ==
  ASSUME NEW list \in Seq(Attempts), NEW a \in Attempts, Chained(list), Admissible(list, a)
  PROVE  Chained(Append(list, a))
<1> SUFFICES ASSUME NEW n \in 1..Len(Append(list, a))
             PROVE  Admissible(SubSeq(Append(list, a), 1, n - 1), Append(list, a)[n])
  BY DEF Chained
<1>1. Len(list) \in Nat /\ n \in 1..(Len(list) + 1) /\ n - 1 \in 0..Len(list)
  BY Appended
<1>2. SubSeq(Append(list, a), 1, n - 1) = SubSeq(list, 1, n - 1)
  BY <1>1, PrefixAppended
<1>3. CASE n = Len(list) + 1
  <2>1. SubSeq(list, 1, n - 1) = list
    BY <1>1, <1>3, SubSeqFull
  <2> QED
    BY <1>2, <1>3, <2>1, Appended
<1>4. CASE n \in 1..Len(list)
  BY <1>2, <1>4, Appended DEF Chained
<1> QED
  BY <1>1, <1>3, <1>4

(* A final attempt is the latest one, and its disposition the verdict. *)
LEMMA VerdictAppended ==
  ASSUME NEW list \in Seq(Attempts), NEW a \in Attempts, a.status = "SUCCEEDED"
  PROVE  ~Clean(Append(list, a)) /\ Verdict(Append(list, a)) = a.disposition
<1> DEFINE done == Numbers(Append(list, a), "SUCCEEDED")
<1>1. done = Numbers(list, "SUCCEEDED") \cup {Len(list) + 1}
  BY NumbersAppended
<1>2. Len(list) \in Nat /\ \A m \in done : m \in Nat /\ m <= Len(list) + 1
  BY <1>1, Appended DEF Numbers
<1>3. Len(list) + 1 \in done
  BY <1>1
<1> HIDE DEF done
<1>4. (CHOOSE n \in done : \A m \in done : m <= n) = Len(list) + 1
  BY <1>2, <1>3
<1>5. done # {} /\ Append(list, a)[Len(list) + 1] = a
  BY <1>3, Appended
<1> QED
  BY <1>4, <1>5 DEF done, Verdict, Clean

(* The attempts of a provider call leave a list without final attempts as  *)
(* it is.                                                                  *)
LEMMA WorkAppended ==
  ASSUME NEW list \in Seq(Attempts), NEW a \in Attempts, a.status # "SUCCEEDED",
         Clean(list)
  PROVE  Clean(Append(list, a)) /\ Judged(Append(list, a)) /\ ~SaysApplied(Append(list, a))
<1>1. Clean(Append(list, a))
  BY NumbersAppended DEF Clean
<1> QED
  BY <1>1 DEF Clean, Judged, SaysApplied

(* A final attempt after none that is APPLIED keeps a list judged. *)
LEMMA JudgementAppended ==
  ASSUME NEW list \in Seq(Attempts), NEW a \in Attempts, a.status = "SUCCEEDED",
         a.disposition \in Verdicts, Judged(list), ~SaysApplied(list)
  PROVE  /\ Judged(Append(list, a))
         /\ SaysApplied(Append(list, a)) => a.disposition = "APPLIED"
<1>1. Verdict(Append(list, a)) = a.disposition
  BY VerdictAppended
<1>2. ASSUME NEW n \in Numbers(Append(list, a), "SUCCEEDED")
      PROVE  /\ Append(list, a)[n].disposition \in Verdicts
             /\ Append(list, a)[n].disposition = "APPLIED" => a.disposition = "APPLIED"
  <2>1. CASE n = Len(list) + 1
    BY <2>1, Appended
  <2>2. CASE n \in Numbers(list, "SUCCEEDED")
    <3>1. n \in 1..Len(list)
      BY <2>2 DEF Numbers
    <3> QED
      BY <2>2, <3>1, Appended DEF Judged, SaysApplied
  <2>3. n \in Numbers(list, "SUCCEEDED") \cup {Len(list) + 1}
    BY <1>2, NumbersAppended
  <2> QED
    BY <2>1, <2>2, <2>3
<1> QED
  BY <1>1, <1>2 DEF Judged, SaysApplied
-----------------------------------------------------------------------------
(* A step of one worker and the rest of the trail *)

(* w goes on to l and touches no scan but s, the one it serves. *)
Advances(w, s, l) ==
  /\ pc[w] # "idle" /\ work[w] = s
  /\ pc' = [pc EXCEPT ![w] = l] /\ UNCHANGED work
  /\ \A t \in Scans \ {s} :
       /\ attempts'[t] = attempts[t] /\ scans'[t] = scans[t] /\ runs'[t] = runs[t]
       /\ applied[t] > 0 => applied'[t] > 0
  /\ intents \subseteq intents'
  /\ \A v \in Workers \ {w} :
       fresh'[v] = fresh[v] /\ opened'[v] = opened[v] /\ result'[v] = result[v]

(* What was answered for good about s stays true. *)
KeepsAnswers(w, s, l) ==
  /\ scans[s] = "COMPLETED" => scans'[s] = "COMPLETED" /\ attempts'[s] = attempts[s]
  /\ pc[w] \in Early /\ runs[s] = None /\ Exhausted(s) =>
       l \in Early \cup {"idle"} /\ attempts'[s] = attempts[s] /\ runs'[s] = None

(* The other scans, and the workers that serve them, keep their trail. *)
LEMMA OthersKeepTrail ==
  ASSUME Control, Trail, NEW w \in Workers, NEW s \in Scans, NEW l \in Labels,
         Advances(w, s, l)
  PROVE  /\ \A t \in Scans \ {s} : ScanTrail(t)'
         /\ \A v \in Workers \ {w} : WorkerTrail(v)'
<1>1. ASSUME NEW t \in Scans \ {s} PROVE ScanTrail(t)' /\ (InEffect(t) => InEffect(t)')
  BY DEF Advances, Trail, ScanTrail, InEffect
<1>2. ASSUME NEW v \in Workers \ {w} PROVE WorkerTrail(v)'
  <2>1. pc'[v] = pc[v] /\ work'[v] = work[v]
    BY DEF Advances, Control, TypeOK, ProcessOK
  <2>2. CASE pc[v] = "idle"
    BY <2>1, <2>2 DEF WorkerTrail, Outside, Auditing, Effects, Unsettled
  <2>3. CASE pc[v] # "idle"
    <3>1. work[v] \in Scans \ {s}
      BY <2>3 DEF Advances, Control, Leased
    <3>2. /\ attempts'[work[v]] = attempts[work[v]] /\ scans'[work[v]] = scans[work[v]]
          /\ runs'[work[v]] = runs[work[v]] /\ fresh'[v] = fresh[v] /\ opened'[v] = opened[v]
          /\ intents \subseteq intents'
      BY <3>1 DEF Advances
    <3>3. WorkerTrail(v)
      BY DEF Trail
    <3> QED
      BY <1>1, <2>1, <3>1, <3>2, <3>3 DEF WorkerTrail
  <2> QED
    BY <2>2, <2>3
<1> QED
  BY <1>1, <1>2

(* What has been answered stays true. *)
LEMMA AnswersKeepTrail ==
  ASSUME Control, Trail, NEW w \in Workers, NEW s \in Scans, NEW l \in Labels,
         Advances(w, s, l), KeepsAnswers(w, s, l),
         NEW v \in Workers, result'[v] = result[v]
  PROVE  AnswerTrail(v)'
<1> SUFFICES ASSUME result[v] \in Conclusive PROVE AnswerTrail(v)'
  BY DEF AnswerTrail
<1>1. PICK t \in Scans : t = work[v] /\ Justified(result[v], t)
  BY DEF Trail, AnswerTrail
<1>2. PICK d : d = result[v]
  OBVIOUS
<1>3. scans[t] = "COMPLETED" => scans'[t] = "COMPLETED" /\ attempts'[t] = attempts[t]
  BY DEF Advances, KeepsAnswers
<1>4. CASE d # "RETRY_EXHAUSTED"
  BY <1>1, <1>2, <1>3, <1>4 DEF Justified, Conclusive, AnswerTrail, Advances
<1>5. CASE d = "RETRY_EXHAUSTED"
  <2>1. runs[t] = None /\ Exhausted(t)
        /\ \A u \in Workers : pc[u] # "idle" /\ work[u] = t => pc[u] \in Early
    BY <1>1, <1>2, <1>5 DEF Justified
  <2>2. attempts'[t] = attempts[t] /\ runs'[t] = None
    BY <2>1 DEF Advances, KeepsAnswers
  <2>3. Exhausted(t)'
    BY <2>1, <2>2 DEF Exhausted, Numbers
  <2>4. ASSUME NEW u \in Workers, pc'[u] # "idle", work'[u] = t PROVE pc'[u] \in Early
    <3>1. CASE u = w
      BY <2>1, <2>4, <3>1 DEF Advances, KeepsAnswers, Control, TypeOK, ProcessOK
    <3>2. CASE u # w
      BY <2>1, <2>4, <3>2 DEF Advances, Control, TypeOK, ProcessOK
    <3> QED
      BY <3>1, <3>2
  <2>5. work'[v] = t /\ result'[v] = d
    BY <1>1, <1>2 DEF Advances
  <2> QED
    BY <1>5, <2>2, <2>3, <2>4, <2>5 DEF AnswerTrail, Justified
<1> QED
  BY <1>4, <1>5

(* The answer of w is an old one, says nothing, or is justified now. *)
Answers(w, s) ==
  \/ result'[w] = result[w]
  \/ result'[w] \notin Conclusive
  \/ Justified(result[w], s)'

(* It is enough to look at the scan, the worker and its answer. *)
LEMMA AdvanceKeepsTrail ==
  ASSUME Control, Trail, NEW w \in Workers, NEW s \in Scans, NEW l \in Labels,
         Advances(w, s, l), KeepsAnswers(w, s, l), Answers(w, s),
         ScanTrail(s)', WorkerTrail(w)'
  PROVE  Trail'
<1>1. \A t \in Scans : ScanTrail(t)'
  <2> SUFFICES ASSUME NEW t \in Scans PROVE ScanTrail(t)'
    OBVIOUS
  <2>1. CASE t = s
    BY <2>1 DEF ScanTrail, InEffect
  <2>2. CASE t # s
    BY <2>2, OthersKeepTrail
  <2> QED
    BY <2>1, <2>2
<1>2. \A v \in Workers : WorkerTrail(v)'
  BY OthersKeepTrail
<1>3. ASSUME NEW v \in Workers PROVE AnswerTrail(v)'
  <2>1. CASE result'[v] = result[v]
    BY <2>1, AnswersKeepTrail
  <2>2. CASE result'[v] # result[v]
    <3>1. v = w
      BY <2>2 DEF Advances
    <3>2. work'[w] = s
      BY DEF Advances
    <3> QED
      BY <2>2, <3>1, <3>2 DEF Answers, AnswerTrail, Justified
  <2> QED
    BY <2>1, <2>2
<1> QED
  BY <1>1, <1>2, <1>3 DEF Trail
-----------------------------------------------------------------------------
(* Steps that leave the scans, the attempts and the runs as they are *)

(* Then only the worker itself is to be looked at. *)
LEMMA StillKeepsTrail ==
  ASSUME Control, Trail, NEW w \in Workers, NEW s \in Scans, NEW l \in Labels,
         pc[w] # "idle", work[w] = s, pc' = [pc EXCEPT ![w] = l],
         UNCHANGED <<scans, attempts, runs, work>>, intents \subseteq intents',
         \A t \in Scans : applied[t] > 0 => applied'[t] > 0,
         \A v \in Workers \ {w} :
           fresh'[v] = fresh[v] /\ opened'[v] = opened[v] /\ result'[v] = result[v],
         pc[w] \in Early => l \in Early \cup {"idle"},
         Answers(w, s), WorkerTrail(w)'
  PROVE  Trail'
<1>1. Advances(w, s, l) /\ KeepsAnswers(w, s, l)
  BY DEF Advances, KeepsAnswers
<1>2. ScanTrail(s)'
  BY DEF Trail, ScanTrail, InEffect
<1> QED
  BY <1>1, <1>2, AdvanceKeepsTrail

(* Where such a step may lead a worker, and what it must know there. *)
LEMMA StillWorks ==
  ASSUME Control, Trail, NEW w \in Workers, NEW s \in Scans, NEW l \in Labels,
         pc[w] # "idle", work[w] = s, pc' = [pc EXCEPT ![w] = l],
         UNCHANGED <<scans, attempts, runs, work, fresh, opened>>,
         l # "recover", l \in Outside \/ pc[w] \notin Outside,
         l \in Auditing \/ (l \in Effects /\ fresh[w]) =>
           pc[w] \in Auditing \/ (pc[w] \in Effects /\ fresh[w]),
         l \in Unsettled => ~SaysApplied(attempts[s]),
         l = "claim" => (runs[s].intent => s \in intents'),
         l = "recordFinal" => InEffect(s)',
         l = "attach" => Verdict(attempts[s]) = "APPLIED",
         l = "attachSuperseded" => Verdict(attempts[s]) = "SUPERSEDED"
  PROVE  WorkerTrail(w)'
<1>1. pc'[w] = l /\ work'[w] = s /\ WorkerTrail(w)
  BY DEF Control, TypeOK, ProcessOK, Trail
<1> QED
  BY <1>1 DEF WorkerTrail

(* What a worker at each label knows of its scan. *)
LEMMA AtWork ==
  ASSUME Control, Trail, NEW w \in Workers, pc[w] # "idle"
  PROVE  /\ work[w] \in Scans /\ WorkerTrail(w) /\ ScanTrail(work[w])
         /\ \A v \in Workers : pc[v] # "idle" /\ work[v] = work[w] => v = w
BY DEF Control, Leased, Trail

(* A completed scan has its verdict already: nothing is written. *)
LEMMA AnswerCompletedKeepsTrail ==
  ASSUME Control, Trail, NEW w \in Workers, AnswerCompleted(w)
  PROVE  Trail'
<1>1. pc[w] = "lookup"
  BY DEF AnswerCompleted, At
<1>2. PICK s \in Scans : s = work[w]
  BY <1>1, AtWork
<1>3. ScanTrail(s) /\ scans[s] = "COMPLETED"
  BY <1>1, <1>2, AtWork DEF AnswerCompleted
<1>4. Verdict(attempts[s]) \in Verdicts
  BY <1>3 DEF ScanTrail, Judged
<1>5. /\ pc' = [pc EXCEPT ![w] = "release"]
      /\ UNCHANGED <<scans, attempts, runs, work, intents, applied, fresh, opened>>
      /\ result' = [result EXCEPT ![w] =
           IF Verdict(attempts[s]) = "SUPERSEDED" THEN "SUPERSEDED" ELSE "COMPLETED"]
  BY <1>2, <1>4 DEF AnswerCompleted, Return, Goto, locals, history, Verdicts
<1>6. WorkerTrail(w)'
  BY <1>1, <1>2, <1>5, StillWorks DEF Outside, Auditing, Effects, Unsettled, Labels
<1>7. Answers(w, s)
  BY <1>3, <1>4, <1>5
     DEF Answers, Justified, Verdicts, Control, TypeOK, ProcessOK
<1> QED
  BY <1>1, <1>2, <1>5, <1>6, <1>7, StillKeepsTrail
     DEF Early, Labels, Control, TypeOK, ProcessOK

(* Nobody else is with a scan whose budget is found spent. *)
LEMMA RetryExhaustedKeepsTrail ==
  ASSUME Control, Trail, NEW w \in Workers, RetryExhausted(w)
  PROVE  Trail'
<1>1. pc[w] = "open"
  BY DEF RetryExhausted, At
<1>2. PICK s \in Scans : s = work[w]
  BY <1>1, AtWork
<1>3. runs[s] = None /\ Exhausted(s)
  BY <1>1, <1>2 DEF RetryExhausted, Control, RunAtHand, Searching
<1>4. /\ pc' = [pc EXCEPT ![w] = "release"]
      /\ UNCHANGED <<scans, attempts, runs, work, intents, applied, fresh, opened>>
      /\ result' = [result EXCEPT ![w] = "RETRY_EXHAUSTED"]
  BY DEF RetryExhausted, Return, Goto, stores, locals, history
<1>5. WorkerTrail(w)'
  BY <1>1, <1>2, <1>4, StillWorks DEF Outside, Auditing, Effects, Unsettled, Labels
<1>6. runs'[s] = None /\ Exhausted(s)'
  BY <1>3, <1>4 DEF Exhausted, Numbers
<1>7. ASSUME NEW v \in Workers, pc'[v] # "idle", work'[v] = s
      PROVE  pc'[v] = "release"
  <2>1. v = w
    BY <1>1, <1>2, <1>4, <1>7, AtWork DEF Control, TypeOK, ProcessOK
  <2> QED
    BY <1>4, <2>1 DEF Control, TypeOK, ProcessOK
<1>8. result'[w] = "RETRY_EXHAUSTED"
  BY <1>4 DEF Control, TypeOK, ProcessOK
<1>9. Answers(w, s)
  BY <1>6, <1>7, <1>8 DEF Answers, Justified, Early
<1> QED
  BY <1>1, <1>2, <1>4, <1>5, <1>9, StillKeepsTrail
     DEF Early, Labels, Control, TypeOK, ProcessOK

(* The other steps decide no scan's outcome: they return nothing           *)
(* conclusive, and they do not start from an early label.                  *)
Walks(w, s, l) ==
  /\ pc[w] # "idle" /\ work[w] = s /\ pc' = [pc EXCEPT ![w] = l]
  /\ UNCHANGED <<scans, attempts, runs, work, fresh, opened>>
  /\ intents \subseteq intents' /\ \A t \in Scans : applied[t] > 0 => applied'[t] > 0
  /\ \/ UNCHANGED result
     \/ \E d \in Returned \ Conclusive : result' = [result EXCEPT ![w] = d]

(* What the label it goes on to asks for is all there is to show. *)
LEMMA WalkKeepsTrail ==
  ASSUME Control, Trail, NEW w \in Workers, NEW s \in Scans, NEW l \in Labels,
         Walks(w, s, l), pc[w] \in Early => l = "release",
         l # "recover", l \in Outside \/ pc[w] \notin Outside,
         l \in Auditing \/ (l \in Effects /\ fresh[w]) =>
           pc[w] \in Auditing \/ (pc[w] \in Effects /\ fresh[w]),
         l \in Unsettled => ~SaysApplied(attempts[s]),
         l = "claim" => (runs[s].intent => s \in intents),
         l = "recordFinal" => applied'[s] > 0 /\ (runs[s].intent => s \in intents'),
         l = "attach" => Verdict(attempts[s]) = "APPLIED",
         l = "attachSuperseded" => Verdict(attempts[s]) = "SUPERSEDED"
  PROVE  Trail'
<1>1. WorkerTrail(w)'
  BY StillWorks DEF Walks, InEffect
<1>2. Answers(w, s)
  BY DEF Walks, Answers, Control, TypeOK, ProcessOK
<1> QED
  BY <1>1, <1>2, StillKeepsTrail DEF Walks, Early, Control, TypeOK, ProcessOK

(* Around the provider's answer: the RUNNING attempt stays the last one. *)
LEMMA ProviderKeepsTrail ==
  ASSUME Control, Trail, NEW w \in Workers,
         Fetch(w) \/ DegradeRead(w) \/ DegradeWrite(w) \/ EvaluateRead(w)
  PROVE  Trail'
<1>1. pc[w] \in Auditing /\ pc[w] \notin Early /\ pc[w] \notin Outside /\ pc[w] # "idle"
  BY DEF Fetch, DegradeRead, DegradeWrite, EvaluateRead, At, Auditing, Early, Outside
<1>2. PICK s \in Scans : s = work[w]
  BY <1>1, AtWork
<1>3. PICK l \in Auditing : Walks(w, s, l)
  <2>1. CASE Fetch(w)
    BY <1>1, <1>2, <2>1 DEF Fetch, Goto, Walks, Auditing, stores, locals
  <2>2. CASE DegradeRead(w)
    BY <1>1, <1>2, <2>2 DEF DegradeRead, Goto, Walks, Auditing, stores, history
  <2>3. CASE DegradeWrite(w)
    BY <1>1, <1>2, <2>3 DEF DegradeWrite, Goto, Walks, Auditing, locals
  <2>4. CASE EvaluateRead(w)
    BY <1>1, <1>2, <2>4 DEF EvaluateRead, Goto, Walks, Auditing, stores, history
  <2> QED
    BY <2>1, <2>2, <2>3, <2>4
<1> QED
  BY <1>1, <1>2, <1>3, WalkKeepsTrail DEF Auditing, Labels, Unsettled, Effects

(* A recovery trusts an APPLIED final attempt and judges a run without one. *)
LEMMA RecoverKeepsTrail ==
  ASSUME Control, Trail, NEW w \in Workers, Recover(w)
  PROVE  Trail'
<1>1. pc[w] = "recover"
  BY DEF Recover, At
<1>2. PICK s \in Scans : s = work[w]
  BY <1>1, AtWork
<1>3. ScanTrail(s) /\ ~fresh[w]
  BY <1>1, <1>2, AtWork DEF WorkerTrail
<1>4. CASE \E n \in Numbers(attempts[s], "SUCCEEDED") :
             attempts[s][n].disposition # "SUPERSEDED"
  <2>1. Verdict(attempts[s]) = "APPLIED"
    BY <1>3, <1>4 DEF ScanTrail, Judged, SaysApplied, Verdicts
  <2>2. PICK l \in {"attach", "release"} : Walks(w, s, l)
    BY <1>1, <1>2, <1>4
       DEF Recover, Goto, Return, Walks, stores, locals, history, Returned,
           Dispositions, Conclusive
  <2> QED
    BY <1>1, <2>1, <2>2, WalkKeepsTrail
       DEF Labels, Early, Outside, Auditing, Effects, Unsettled
<1>5. CASE ~\E n \in Numbers(attempts[s], "SUCCEEDED") :
             attempts[s][n].disposition # "SUPERSEDED"
  <2>1. ~SaysApplied(attempts[s])
    BY <1>5 DEF SaysApplied
  <2>2. Walks(w, s, "adjudicate")
    BY <1>1, <1>2, <1>5
       DEF Recover, Goto, Walks, stores, locals, history
  <2> QED
    BY <1>1, <1>3, <2>1, <2>2, WalkKeepsTrail
       DEF Labels, Early, Outside, Auditing, Effects, Unsettled
<1> QED
  BY <1>4, <1>5

(* An adjudication that finds the fence held follows a won transition. *)
LEMMA AdjudicationKeepsTrail ==
  ASSUME Control, Claims, Trail, NEW w \in Workers,
         FenceHeld(w) \/ LegacyHeld(w) \/ StillWaiting(w) \/ Superseded(w)
  PROVE  Trail'
<1>1. pc[w] = "adjudicate"
  BY DEF FenceHeld, LegacyHeld, StillWaiting, Superseded, Adjudicates, At
<1>2. PICK s \in Scans : s = work[w]
  BY <1>1, AtWork
<1>3. ~SaysApplied(attempts[s])
  BY <1>1, <1>2, AtWork DEF WorkerTrail, Unsettled, Effects
<1>4. CASE FenceHeld(w)
  <2>1. applied[s] > 0
    BY <1>2, <1>4 DEF FenceHeld, Claims
  <2>2. PICK l \in {"intent", "recordFinal"} :
          Walks(w, s, l) /\ (l = "recordFinal" => ~runs[s].intent)
    BY <1>1, <1>2, <1>4
       DEF FenceHeld, Adjudicates, AfterEffects, Goto, Walks, stores, history
  <2>3. applied' = applied
    BY <1>4 DEF FenceHeld, Adjudicates, history
  <2> QED
    BY <1>1, <1>3, <2>1, <2>2, <2>3, WalkKeepsTrail
       DEF Labels, Early, Outside, Auditing, Effects
<1>5. CASE LegacyHeld(w)
  <2>1. CASE runs[s].intent => s \in intents
    <3>1. Walks(w, s, "claim")
      BY <1>1, <1>2, <1>5, <2>1
         DEF LegacyHeld, Adjudicates, Goto, Walks, stores, history
    <3> QED
      BY <1>1, <1>3, <2>1, <3>1, WalkKeepsTrail
         DEF Labels, Early, Outside, Auditing, Effects
  <2>2. CASE ~(runs[s].intent => s \in intents)
    <3>1. PICK l \in {"recordFailed", "release"} :
            Walks(w, s, l) /\ (l = "recordFailed" => fresh[w])
      BY <1>1, <1>2, <1>5, <2>2
         DEF LegacyHeld, Adjudicates, Abandon, Return, Goto, Walks, stores, history,
             Returned, Dispositions, Conclusive
    <3> QED
      BY <1>1, <3>1, WalkKeepsTrail
         DEF Labels, Early, Outside, Auditing, Effects, Unsettled
  <2> QED
    BY <2>1, <2>2
<1>6. CASE StillWaiting(w) \/ Superseded(w)
  <2>1. PICK l \in {"apply", "recordSuperseded"} : Walks(w, s, l)
    BY <1>1, <1>2, <1>6
       DEF StillWaiting, Superseded, Adjudicates, Goto, Walks, stores, history
  <2> QED
    BY <1>1, <1>3, <2>1, WalkKeepsTrail
       DEF Labels, Early, Outside, Auditing, Effects
<1> QED
  BY <1>4, <1>5, <1>6

(* The compare-and-set applies the run; losing it abandons the candidate. *)
LEMMA ReplacementKeepsTrail ==
  ASSUME Control, Trail, NEW w \in Workers, Apply(w) \/ ClaimLegacy(w)
  PROVE  Trail'
<1>1. pc[w] \in {"apply", "claim"}
  BY DEF Apply, ClaimLegacy, At
<1>2. PICK s \in Scans : s = work[w]
  BY <1>1, AtWork
<1>3. ~SaysApplied(attempts[s]) /\ (pc[w] = "claim" => (runs[s].intent => s \in intents))
  BY <1>1, <1>2, AtWork DEF WorkerTrail, Unsettled, Effects
<1>4. rec.revision \in Nat /\ applied \in [Scans -> Nat]
  BY DEF Control, TypeOK, StoresOK, HistoryOK, Records
<1>5. CASE Unchanged(w)
  <2>1. applied' = [applied EXCEPT ![s] = rec.revision + 1]
    BY <1>2, <1>5 DEF Apply, ClaimLegacy
  <2>2. PICK l \in {"intent", "recordFinal"} :
          Walks(w, s, l) /\ (l = "recordFinal" => (runs[s].intent => s \in intents'))
    BY <1>1, <1>2, <1>3, <1>4, <1>5, <2>1
       DEF Apply, ClaimLegacy, At, AfterEffects, Goto, Walks, locals
  <2>3. applied'[s] > 0
    BY <1>4, <2>1
  <2> QED
    BY <1>1, <1>3, <2>2, <2>3, WalkKeepsTrail
       DEF Labels, Early, Outside, Auditing, Effects
<1>6. CASE ~Unchanged(w)
  <2>1. PICK l \in {"recordFailed", "release"} :
          Walks(w, s, l) /\ (l = "recordFailed" => fresh[w])
    BY <1>1, <1>2, <1>6
       DEF Apply, ClaimLegacy, Abandon, Return, Goto, Walks, locals,
           Returned, Dispositions, Conclusive
  <2> QED
    BY <1>1, <2>1, WalkKeepsTrail
       DEF Labels, Early, Outside, Auditing, Effects, Unsettled
<1> QED
  BY <1>5, <1>6

(* The intent is there before the APPLIED attempt is. *)
LEMMA RecordIntentKeepsTrail ==
  ASSUME Control, Claims, Trail, NEW w \in Workers, RecordIntent(w)
  PROVE  Trail'
<1>1. pc[w] = "intent"
  BY DEF RecordIntent, At
<1>2. PICK s \in Scans : s = work[w]
  BY <1>1, AtWork
<1>3. ~SaysApplied(attempts[s]) /\ applied[s] > 0
  BY <1>1, <1>2, AtWork DEF WorkerTrail, Unsettled, Effects, Claims
<1>4. Walks(w, s, "recordFinal") /\ s \in intents' /\ applied' = applied
  BY <1>1, <1>2 DEF RecordIntent, Goto, Walks, locals, history
<1> QED
  BY <1>1, <1>3, <1>4, WalkKeepsTrail DEF Labels, Early, Outside, Auditing, Effects

(* An exception sends a worker to its audit or out of run(). *)
LEMMA RaiseKeepsTrail ==
  ASSUME Control, Trail, NEW w \in Workers, Raise(w)
  PROVE  Trail'
<1>1. pc[w] \in Uncaught \cup Audited \cup Effects \cup Settling /\ pc[w] # "idle"
  BY DEF Raise, Uncaught, Audited, Effects, Settling
<1>2. PICK s \in Scans : s = work[w]
  BY <1>1, AtWork
<1>3. PICK l \in {"recordFailed", "release"} :
        /\ Walks(w, s, l)
        /\ l = "recordFailed" => pc[w] \in Audited \/ (pc[w] \in Effects /\ fresh[w])
  BY <1>1, <1>2
     DEF Raise, Abandon, Return, Goto, Walks, stores, locals, history,
         Returned, Dispositions, Conclusive
<1> QED
  BY <1>1, <1>3, WalkKeepsTrail
     DEF Labels, Early, Outside, Auditing, Audited, Effects, Unsettled

(* The locals go with the call. *)
LEMMA ReleaseKeepsTrail ==
  ASSUME Control, Trail, NEW w \in Workers, Release(w)
  PROVE  Trail'
<1>1. pc[w] = "release"
  BY DEF Release, At
<1>2. PICK s \in Scans : s = work[w]
  BY <1>1, AtWork
<1>3. /\ pc' = [pc EXCEPT ![w] = "idle"]
      /\ UNCHANGED <<scans, attempts, runs, work, intents, applied, result>>
      /\ \A v \in Workers \ {w} : fresh'[v] = fresh[v] /\ opened'[v] = opened[v]
  BY DEF Release, Goto, stores, history, Control, TypeOK, ProcessOK
<1>4. WorkerTrail(w)'
  BY <1>3 DEF WorkerTrail, Outside, Auditing, Effects, Unsettled,
     Control, TypeOK, ProcessOK
<1> QED
  BY <1>1, <1>2, <1>3, <1>4, StillKeepsTrail DEF Answers, Labels
-----------------------------------------------------------------------------
(* Steps that append an attempt *)

Appends(w, s, a, l) ==
  /\ work[w] = s /\ pc' = [pc EXCEPT ![w] = l] /\ a \in Attempts /\ Record(s, a)
  /\ UNCHANGED <<scans, runs, intents, applied, work, fresh>>
  /\ \A v \in Workers \ {w} : opened'[v] = opened[v] /\ result'[v] = result[v]
  /\ result'[w] = result[w] \/ result'[w] \notin Conclusive

(* They are taken inside a RUNNING scan, whose budget is not yet settled. *)
LEMMA AppendKeepsTrail ==
  ASSUME Control, Trail, NEW w \in Workers, NEW s \in Scans, NEW a, NEW l \in Labels,
         Appends(w, s, a, l), pc[w] \notin Outside, pc[w] = "open" => ~Exhausted(s),
         Admissible(attempts[s], a), Judged(Append(attempts[s], a)),
         a.status = "SUCCEEDED" => runs[s] # None,
         SaysApplied(Append(attempts[s], a)) => InEffect(s),
         WorkerTrail(w)'
  PROVE  Trail'
<1>1. pc[w] # "idle" /\ scans[s] = "RUNNING" /\ ScanTrail(s)
  BY AtWork DEF Appends, Outside, WorkerTrail
<1>2. attempts[s] \in Seq(Attempts) /\ attempts'[s] = Append(attempts[s], a) /\ a \in Attempts
  BY DEF Appends, Record, Control, TypeOK, StoresOK
<1>3. Advances(w, s, l)
  BY <1>1 DEF Appends, Advances, Record, Control, TypeOK, StoresOK
<1>4. KeepsAnswers(w, s, l) /\ Answers(w, s)
  BY <1>1 DEF Appends, KeepsAnswers, Answers, Early, Outside
<1>5. Chained(Append(attempts[s], a))
  BY <1>1, <1>2, ChainedAppended DEF ScanTrail
<1>6. ~Clean(Append(attempts[s], a)) => runs[s] # None
  BY <1>1, <1>2, NumbersAppended DEF ScanTrail, Clean
<1>7. ScanTrail(s)'
  BY <1>1, <1>2, <1>5, <1>6 DEF Appends, ScanTrail, InEffect
<1> QED
  BY <1>3, <1>4, <1>7, AdvanceKeepsTrail

(* Before a run exists there is no final attempt to contradict. *)
LEMMA OpenAttemptKeepsTrail ==
  ASSUME Control, Trail, NEW w \in Workers, OpenAttempt(w)
  PROVE  Trail'
<1>1. pc[w] = "open"
  BY DEF OpenAttempt, At
<1>2. PICK s \in Scans : s = work[w]
  BY <1>1, AtWork
<1> DEFINE a == Attempt("RUNNING", Len(attempts[s]), "NONE")
<1>3. attempts[s] \in Seq(Attempts) /\ Len(attempts[s]) \in Nat
  BY LenProperties DEF Control, TypeOK, StoresOK
<1>4. a \in Attempts /\ a.status = "RUNNING" /\ a.recoveryOf = Len(attempts[s])
  BY <1>3 DEF Attempt, Attempts
<1>5. runs[s] = None /\ Clean(attempts[s]) /\ scans[s] = "RUNNING"
  BY <1>1, <1>2, AtWork
     DEF Control, RunAtHand, Searching, ScanTrail, WorkerTrail, Outside
<1>6. /\ Appends(w, s, a, "fetch") /\ ~Exhausted(s)
      /\ opened' = [opened EXCEPT ![w] = Len(attempts[s]) + 1]
      /\ scans' = scans
  BY <1>2, <1>4 DEF OpenAttempt, Goto, Appends, history, Control, TypeOK, ProcessOK
<1> HIDE DEF a
<1>7. Admissible(attempts[s], a)
  BY <1>4, <1>5 DEF Admissible, Clean
<1>8. /\ Clean(Append(attempts[s], a)) /\ Judged(Append(attempts[s], a))
      /\ ~SaysApplied(Append(attempts[s], a))
  BY <1>3, <1>4, <1>5, WorkAppended
<1>9. /\ attempts'[s] = Append(attempts[s], a)
      /\ Len(Append(attempts[s], a)) = Len(attempts[s]) + 1
  BY <1>3, <1>4, <1>6, Appended DEF Appends, Record, Control, TypeOK, StoresOK
<1>10. /\ pc'[w] = "fetch" /\ work'[w] = s /\ opened'[w] = Len(attempts'[s])
       /\ Clean(attempts[s])'
  BY <1>6, <1>8, <1>9 DEF Appends, Control, TypeOK, ProcessOK, Clean, Numbers
<1>11. WorkerTrail(w)'
  BY <1>5, <1>6, <1>10
     DEF WorkerTrail, Outside, Auditing, Effects, Unsettled, Clean, Numbers
<1> QED
  BY <1>1, <1>4, <1>6, <1>7, <1>8, <1>11, AppendKeepsTrail DEF Labels, Outside

(* The attempt that closes a provider call follows its RUNNING attempt. *)
LEMMA ClosingKeepsTrail ==
  ASSUME Control, Trail, NEW w \in Workers, RecordDegraded(w) \/ RecordFailed(w)
  PROVE  Trail'
<1>1. pc[w] \in {"recordDegraded", "recordFailed"}
  BY DEF RecordDegraded, RecordFailed, At
<1>2. PICK s \in Scans : s = work[w]
  BY <1>1, AtWork
<1>3. attempts[s] \in Seq(Attempts) /\ opened[w] \in Nat
  BY DEF Control, TypeOK, StoresOK, ProcessOK
<1>4. opened[w] = Len(attempts[s]) /\ Clean(attempts[s])
  BY <1>1, <1>2, AtWork DEF WorkerTrail, Auditing
<1>5. PICK a \in Attempts :
        /\ a.status # "SUCCEEDED" /\ a.recoveryOf = opened[w]
        /\ Appends(w, s, a, "release")
  <2>1. CASE RecordDegraded(w)
    <3>1. Attempt("DEGRADED", opened[w], "NONE") \in Attempts
      BY <1>3 DEF Attempt, Attempts
    <3> QED
      BY <1>2, <2>1, <3>1
         DEF RecordDegraded, Return, Goto, Appends, Attempt, locals, history,
             Conclusive, Control, TypeOK, ProcessOK
  <2>2. CASE RecordFailed(w)
    <3>1. Attempt("FAILED", opened[w], "NONE") \in Attempts
      BY <1>3 DEF Attempt, Attempts
    <3> QED
      BY <1>2, <2>2, <3>1
         DEF RecordFailed, Return, Goto, Appends, Attempt, locals, history,
             Conclusive, Control, TypeOK, ProcessOK
  <2> QED
    BY <2>1, <2>2
<1>6. Admissible(attempts[s], a)
  BY <1>4, <1>5 DEF Admissible, Clean
<1>7. Judged(Append(attempts[s], a)) /\ ~SaysApplied(Append(attempts[s], a))
  BY <1>3, <1>4, <1>5, WorkAppended
<1>8. WorkerTrail(w)'
  BY <1>5 DEF Appends, WorkerTrail, Outside, Auditing, Effects, Unsettled,
     Control, TypeOK, ProcessOK
<1> QED
  BY <1>1, <1>5, <1>6, <1>7, <1>8, AppendKeepsTrail DEF Labels, Outside

(* A verdict is appended unless the last one says the same. *)
LEMMA VerdictKeepsTrail ==
  ASSUME Control, Trail, NEW w \in Workers, RecordFinal(w) \/ RecordSuperseded(w)
  PROVE  Trail'
<1>1. pc[w] \in {"recordFinal", "recordSuperseded"} /\ pc[w] \notin Outside
      /\ pc[w] \notin Early /\ pc[w] # "idle" /\ pc[w] # "open"
  BY DEF RecordFinal, RecordSuperseded, At, Outside, Early
<1>2. PICK s \in Scans : s = work[w]
  BY <1>1, AtWork
<1>3. /\ ~SaysApplied(attempts[s]) /\ ScanTrail(s) /\ scans[s] = "RUNNING"
      /\ pc[w] = "recordFinal" => InEffect(s)
  BY <1>1, <1>2, AtWork DEF WorkerTrail, Unsettled, Effects
<1>4. attempts[s] \in Seq(Attempts) /\ Len(attempts[s]) \in Nat /\ runs[s] # None
  BY <1>1, <1>2, LenProperties
     DEF Control, TypeOK, StoresOK, RunAtHand, Finalizing
<1>5. PICK d \in Verdicts, l \in {"attach", "attachSuperseded"} :
        /\ RecordVerdict(s, d) /\ pc' = [pc EXCEPT ![w] = l]
        /\ d = "APPLIED" => pc[w] = "recordFinal"
        /\ l = "attach" => d = "APPLIED"
        /\ l = "attachSuperseded" => d = "SUPERSEDED"
  BY <1>2 DEF RecordFinal, RecordSuperseded, At, Goto, Verdicts
<1>6. UNCHANGED <<scans, runs, intents, applied, work, fresh, opened, result>>
  BY DEF RecordFinal, RecordSuperseded, locals, history
<1>7. CASE UNCHANGED attempts
  <2>1. Verdict(attempts[s]) = d
    <3>1. CASE Record(s, Attempt("SUCCEEDED", Len(attempts[s]), d))
      <4>1. Attempt("SUCCEEDED", Len(attempts[s]), d) \in Attempts
        BY <1>4 DEF Attempt, Attempts, Verdicts
      <4>2. Len(attempts'[s]) = Len(attempts[s]) + 1
        BY <1>4, <3>1, <4>1, Appended DEF Record, Control, TypeOK, StoresOK
      <4> QED
        BY <1>4, <1>7, <4>2
    <3> QED
      BY <1>5, <3>1 DEF RecordVerdict
  <2>2. Walks(w, s, l)
    BY <1>1, <1>2, <1>5, <1>6, <1>7 DEF Walks
  <2> QED
    BY <1>1, <1>5, <2>1, <2>2, WalkKeepsTrail
       DEF Labels, Outside, Auditing, Effects, Unsettled
<1>8. CASE Record(s, Attempt("SUCCEEDED", Len(attempts[s]), d))
  <2> DEFINE a == Attempt("SUCCEEDED", Len(attempts[s]), d)
  <2>1. /\ a \in Attempts /\ a.status = "SUCCEEDED" /\ a.disposition = d
        /\ a.recoveryOf = Len(attempts[s])
    BY <1>4 DEF Attempt, Attempts, Verdicts
  <2>2. Appends(w, s, a, l)
    BY <1>2, <1>5, <1>6, <1>8, <2>1 DEF Appends
  <2> HIDE DEF a
  <2>3. Admissible(attempts[s], a)
    BY <2>1 DEF Admissible
  <2>4. /\ Judged(Append(attempts[s], a))
        /\ SaysApplied(Append(attempts[s], a)) => d = "APPLIED"
        /\ Verdict(Append(attempts[s], a)) = d
    BY <1>3, <1>4, <2>1, JudgementAppended, VerdictAppended DEF ScanTrail
  <2>5. attempts'[s] = Append(attempts[s], a)
    BY <1>4, <2>2 DEF Appends, Record, Control, TypeOK, StoresOK
  <2>6. /\ pc'[w] = l /\ work'[w] = s /\ scans'[s] = "RUNNING"
        /\ Verdict(attempts'[s]) = d
    BY <1>2, <1>3, <1>5, <1>6, <2>4, <2>5 DEF Control, TypeOK, ProcessOK
  <2>7. WorkerTrail(w)'
    BY <1>5, <2>6 DEF WorkerTrail, Outside, Auditing, Effects, Unsettled, Verdict, Numbers
  <2> QED
    BY <1>1, <1>3, <1>4, <1>5, <2>1, <2>2, <2>3, <2>4, <2>7, AppendKeepsTrail DEF Labels
<1> QED
  BY <1>5, <1>7, <1>8 DEF RecordVerdict
-----------------------------------------------------------------------------
(* The other steps inside run() *)

(* A scan that is opened again has no answer that says how it ended. *)
LEMMA CreateOrRecoverKeepsTrail ==
  ASSUME Control, Trail, NEW w \in Workers, CreateOrRecover(w)
  PROVE  Trail'
<1>1. pc[w] = "lookup"
  BY DEF CreateOrRecover, At
<1>2. PICK s \in Scans : s = work[w]
  BY <1>1, AtWork
<1>3. PICK l \in {"open", "recover"} :
        pc' = [pc EXCEPT ![w] = l] /\ (l = "open" <=> runs[s] = None)
  BY <1>2 DEF CreateOrRecover, Goto
<1>4. /\ UNCHANGED <<attempts, runs, intents, work, opened, result, applied>>
      /\ scans' = [scans EXCEPT ![s] = "RUNNING"] /\ scans[s] # "COMPLETED"
      /\ fresh' = [fresh EXCEPT ![w] = runs[s] = None]
  BY <1>2 DEF CreateOrRecover, history
<1>5. scans'[s] = "RUNNING" /\ pc'[w] = l /\ work'[w] = s /\ (l = "recover" => ~fresh'[w])
  BY <1>2, <1>3, <1>4 DEF Control, TypeOK, StoresOK, ProcessOK
<1>6. Advances(w, s, l) /\ KeepsAnswers(w, s, l) /\ Answers(w, s)
  BY <1>1, <1>2, <1>3, <1>4
     DEF Advances, KeepsAnswers, Answers, Early, Control, TypeOK, StoresOK, ProcessOK
<1>7. ScanTrail(s)'
  BY <1>4, <1>5 DEF Trail, ScanTrail, InEffect
<1>8. WorkerTrail(w)'
  BY <1>3, <1>5 DEF WorkerTrail, Outside, Auditing, Effects, Unsettled
<1> QED
  BY <1>3, <1>6, <1>7, <1>8, AdvanceKeepsTrail DEF Labels

(* A run is stored before anything is audited about it. *)
LEMMA DecideKeepsTrail ==
  ASSUME Control, Trail, NEW w \in Workers, Decide(w)
  PROVE  Trail'
<1>1. pc[w] = "decide"
  BY DEF Decide, At
<1>2. PICK s \in Scans : s = work[w]
  BY <1>1, AtWork
<1>3. PICK l \in {"adjudicate", "recordFailed"} : pc' = [pc EXCEPT ![w] = l]
  BY DEF Decide, Goto
<1>4. /\ UNCHANGED <<scans, attempts, intents, work, fresh, opened, result, applied>>
      /\ \A t \in Scans \ {s} : runs'[t] = runs[t]
  BY <1>2 DEF Decide, locals, Control, TypeOK, StoresOK
<1>5. /\ opened[w] = Len(attempts[s]) /\ Clean(attempts[s]) /\ scans[s] = "RUNNING"
      /\ ScanTrail(s)
  BY <1>1, <1>2, AtWork DEF WorkerTrail, Auditing, Outside
<1>6. ~SaysApplied(attempts[s])
  BY <1>5 DEF Clean, SaysApplied
<1>7. Advances(w, s, l) /\ KeepsAnswers(w, s, l) /\ Answers(w, s)
  BY <1>1, <1>2, <1>3, <1>4 DEF Advances, KeepsAnswers, Answers, Early
<1>8. ScanTrail(s)'
  BY <1>4, <1>5, <1>6 DEF ScanTrail
<1>9. pc'[w] = l /\ work'[w] = s
  BY <1>2, <1>3, <1>4 DEF Control, TypeOK, ProcessOK
<1>10. WorkerTrail(w)'
  BY <1>3, <1>4, <1>5, <1>6, <1>9
     DEF WorkerTrail, Outside, Auditing, Effects, Unsettled
<1> QED
  BY <1>3, <1>7, <1>8, <1>10, AdvanceKeepsTrail DEF Labels

(* The scan completes with the verdict its caller is told. *)
LEMMA AttachKeepsTrail ==
  ASSUME Control, Trail, NEW w \in Workers, Attach(w)
  PROVE  Trail'
<1>1. pc[w] \in {"attach", "attachSuperseded"}
  BY DEF Attach, At
<1>2. PICK s \in Scans : s = work[w]
  BY <1>1, AtWork
<1>3. /\ pc[w] = "attach" => Verdict(attempts[s]) = "APPLIED"
      /\ pc[w] = "attachSuperseded" => Verdict(attempts[s]) = "SUPERSEDED"
      /\ ScanTrail(s)
  BY <1>1, <1>2, AtWork DEF WorkerTrail
<1>4. /\ UNCHANGED <<attempts, runs, intents, work, fresh, opened, applied>>
      /\ pc' = [pc EXCEPT ![w] = "release"]
  BY DEF Attach, Return, Goto, locals, history
<1>5. CASE scans[s] = "RUNNING" /\ Numbers(attempts[s], "SUCCEEDED") # {}
  <2>1. /\ scans' = [scans EXCEPT ![s] = "COMPLETED"]
        /\ result' = [result EXCEPT ![w] =
             IF pc[w] = "attach" THEN "COMPLETED" ELSE "SUPERSEDED"]
    BY <1>2, <1>5 DEF Attach, Return, At
  <2>2. /\ scans'[s] = "COMPLETED"
        /\ result'[w] = IF pc[w] = "attach" THEN "COMPLETED" ELSE "SUPERSEDED"
        /\ pc'[w] = "release"
    BY <1>4, <2>1 DEF Control, TypeOK, StoresOK, ProcessOK
  <2>3. Advances(w, s, "release") /\ KeepsAnswers(w, s, "release")
    BY <1>1, <1>2, <1>4, <1>5, <2>1
       DEF Advances, KeepsAnswers, Early, Control, TypeOK, StoresOK, ProcessOK
  <2>4. Answers(w, s)
    BY <1>1, <1>3, <1>4, <2>2 DEF Answers, Justified
  <2>5. ScanTrail(s)'
    BY <1>3, <1>4, <1>5, <2>2 DEF ScanTrail, InEffect, Clean, Numbers
  <2>6. WorkerTrail(w)'
    BY <2>2 DEF WorkerTrail, Outside, Auditing, Effects, Unsettled
  <2> QED
    BY <2>3, <2>4, <2>5, <2>6, AdvanceKeepsTrail DEF Labels
<1>6. CASE ~(scans[s] = "RUNNING" /\ Numbers(attempts[s], "SUCCEEDED") # {})
  <2>1. Walks(w, s, "release")
    BY <1>1, <1>2, <1>4, <1>6
       DEF Attach, Return, Walks, Returned, Dispositions, Conclusive
  <2> QED
    BY <1>1, <2>1, WalkKeepsTrail DEF Labels, Outside, Early, Auditing, Effects, Unsettled
<1> QED
  BY <1>5, <1>6

(* All steps of a worker. *)
LEMMA StepKeepsTrail ==
  ASSUME Control, Claims, Trail, NEW w \in Workers, Step(w)
  PROVE  Trail'
BY AnswerCompletedKeepsTrail, CreateOrRecoverKeepsTrail, RetryExhaustedKeepsTrail,
   OpenAttemptKeepsTrail, ProviderKeepsTrail, ClosingKeepsTrail, DecideKeepsTrail,
   RecoverKeepsTrail, AdjudicationKeepsTrail, ReplacementKeepsTrail,
   RecordIntentKeepsTrail, VerdictKeepsTrail, AttachKeepsTrail, ReleaseKeepsTrail
   DEF Step
-----------------------------------------------------------------------------
(* Calls, the loss of the process, and the start *)

(* A call that is turned away answers about no scan; one that gets the     *)
(* lease has answered nothing yet.                                         *)
LEMMA CallKeepsTrail ==
  ASSUME Control, Trail, NEW w \in Workers, NEW s \in Scans, Call(w, s)
  PROVE  Trail'
<1>1. pc[w] = "idle"
  BY DEF Call, Refuse, Duplicate, Acquire, At
<1>2. UNCHANGED <<scans, attempts, runs, intents, applied, fresh, opened>>
  BY DEF Call, Refuse, Duplicate, Acquire, stores, history
<1>3. PICK l \in {"idle", "lookup"} :
        /\ pc' = [pc EXCEPT ![w] = l]
        /\ \A v \in Workers \ {w} : work'[v] = work[v] /\ result'[v] = result[v]
        /\ result'[w] \notin Conclusive
  <2>1. CASE Refuse(w)
    BY <1>1, <2>1 DEF Refuse, Conclusive, Control, TypeOK, ProcessOK
  <2>2. CASE Duplicate(w, s)
    BY <1>1, <2>2 DEF Duplicate, Conclusive, Control, TypeOK, ProcessOK
  <2>3. CASE Acquire(w, s)
    BY <1>1, <2>3 DEF Acquire, Goto, Conclusive, Control, TypeOK, ProcessOK
  <2> QED
    BY <2>1, <2>2, <2>3 DEF Call
<1>4. \A t \in Scans : ScanTrail(t)'
  BY <1>2 DEF Trail, ScanTrail, InEffect
<1>5. ASSUME NEW v \in Workers PROVE WorkerTrail(v)'
  <2>1. CASE v = w
    BY <1>3, <2>1
       DEF WorkerTrail, Outside, Auditing, Effects, Unsettled, Control, TypeOK, ProcessOK
  <2>2. CASE v # w
    <3>1. pc'[v] = pc[v] /\ work'[v] = work[v] /\ WorkerTrail(v)
      BY <1>3, <2>2 DEF Trail, Control, TypeOK, ProcessOK
    <3> QED
      BY <1>2, <3>1 DEF WorkerTrail, InEffect
  <2> QED
    BY <2>1, <2>2
<1>6. ASSUME NEW v \in Workers PROVE AnswerTrail(v)'
  <2> SUFFICES ASSUME v # w, result[v] \in Conclusive PROVE AnswerTrail(v)'
    BY <1>3 DEF AnswerTrail
  <2>1. PICK t \in Scans : t = work[v] /\ Justified(result[v], t)
    BY DEF Trail, AnswerTrail
  <2>2. work'[v] = t /\ result'[v] = result[v]
    BY <1>3, <2>1
  <2>3. ASSUME NEW u \in Workers, pc'[u] # "idle", work'[u] = t,
               \A x \in Workers : pc[x] # "idle" /\ work[x] = t => pc[x] \in Early
        PROVE  pc'[u] \in Early
    BY <1>3, <2>3 DEF Early, Control, TypeOK, ProcessOK
  <2>4. Exhausted(t) => Exhausted(t)'
    BY <1>2 DEF Exhausted, Numbers
  <2> QED
    BY <1>2, <2>1, <2>2, <2>3, <2>4 DEF AnswerTrail, Justified
<1> QED
  BY <1>4, <1>5, <1>6 DEF Trail

(* The loss of the process leaves the stores and takes the answers. *)
LEMMA CrashKeepsTrail ==
  ASSUME Control, Trail, Crash
  PROVE  Trail'
<1>1. \A s \in Scans : ScanTrail(s)'
  BY DEF Crash, stores, history, Trail, ScanTrail, InEffect
<1>2. ASSUME NEW w \in Workers PROVE pc'[w] = "idle" /\ result'[w] = "NONE"
  BY DEF Crash
<1>3. \A w \in Workers : WorkerTrail(w)'
  BY <1>2 DEF WorkerTrail, Outside, Auditing, Effects, Unsettled
<1>4. \A w \in Workers : AnswerTrail(w)'
  BY <1>2 DEF AnswerTrail, Conclusive
<1> QED
  BY <1>1, <1>3, <1>4 DEF Trail

(* A scan starts without attempts, a migrated one with its RUNNING one. *)
LEMMA InitTrail ==
  ASSUME Init
  PROVE  Trail
<1> DEFINE first == Attempt("RUNNING", 0, "NONE")
<1>1. Chained(<<>>) /\ Clean(<<>>) /\ <<>> \in Seq(Attempts) /\ Len(<<>>) = 0
  BY DEF Chained, Clean, Numbers
<1>2. first \in Attempts /\ first.status = "RUNNING" /\ first.recoveryOf = 0
  BY DEF Attempt, Attempts
<1>3. <<first>> = Append(<<>>, first)
  OBVIOUS
<1> HIDE DEF first
<1>4. Chained(<<first>>) /\ Clean(<<first>>)
  <2>1. Admissible(<<>>, first)
    BY <1>1, <1>2 DEF Admissible, Clean
  <2> QED
    BY <1>1, <1>2, <1>3, <2>1, ChainedAppended, WorkAppended
<1>5. \A s \in Scans : attempts[s] \in {<<>>, <<first>>} /\ scans[s] # "COMPLETED"
  BY DEF Init, FreshInit, LegacyInit, first
<1>6. ASSUME NEW s \in Scans PROVE ScanTrail(s)
  <2>1. Chained(attempts[s]) /\ Clean(attempts[s])
    BY <1>1, <1>4, <1>5
  <2>2. Judged(attempts[s]) /\ ~SaysApplied(attempts[s])
    BY <2>1 DEF Clean, Judged, SaysApplied
  <2> QED
    BY <1>5, <2>1, <2>2 DEF ScanTrail
<1>7. ASSUME NEW w \in Workers PROVE pc[w] = "idle" /\ result[w] = "NONE"
  BY DEF Init, ProcessInit
<1>8. \A w \in Workers : WorkerTrail(w)
  BY <1>7 DEF WorkerTrail, Outside, Auditing, Effects, Unsettled
<1>9. \A w \in Workers : AnswerTrail(w)
  BY <1>7 DEF AnswerTrail, Conclusive
<1> QED
  BY <1>6, <1>8, <1>9 DEF Trail

(* A stuttering step keeps the trail. *)
LEMMA StutterKeepsTrail ==
  ASSUME Trail, UNCHANGED vars
  PROVE  Trail'
<1>1. \A s \in Scans : ScanTrail(s)'
  BY DEF vars, stores, history, Trail, ScanTrail, InEffect
<1>2. \A w \in Workers : WorkerTrail(w)'
  BY DEF vars, stores, locals, history, Trail, WorkerTrail, InEffect
<1>3. ASSUME NEW w \in Workers PROVE AnswerTrail(w)'
  BY DEF vars, stores, locals, Trail, AnswerTrail, Justified, Exhausted, Numbers
<1> QED
  BY <1>1, <1>2, <1>3 DEF Trail

(* Every step keeps the trail. *)
LEMMA NextTrail == Control /\ Claims /\ Trail /\ [Next]_vars => Trail'
<1> SUFFICES ASSUME Control, Claims, Trail, [Next]_vars PROVE Trail'
  OBVIOUS
<1>1. ASSUME NEW w \in Workers, Step(w) \/ Raise(w) PROVE Trail'
  BY <1>1, StepKeepsTrail, RaiseKeepsTrail
<1>2. ASSUME NEW w \in Workers, NEW s \in Scans, Call(w, s) PROVE Trail'
  BY <1>2, CallKeepsTrail
<1>3. CASE Crash
  BY <1>3, CrashKeepsTrail
<1>4. CASE UNCHANGED vars
  BY <1>4, StutterKeepsTrail
<1> QED
  BY <1>1, <1>2, <1>3, <1>4 DEF Next

(* The audit trail of every reachable state. *)
LEMMA TrailIsInvariant == Spec => []Trail
BY InitTrail, NextTrail, ControlIsInvariant, ClaimsAreInvariant, PTL DEF Spec
-----------------------------------------------------------------------------
(* The attempts of a scan are one recovery chain, and the attempt that     *)
(* closes a provider call is always admitted: _failed_result never raises  *)
(* validate_scan_attempt_append's error out of run().                      *)
THEOREM AttemptsAreChained == Spec => []AttemptChain
<1>1. Trail => AttemptChain
  <2> SUFFICES ASSUME Trail PROVE AttemptChain
    OBVIOUS
  <2>1. \A s \in Scans : Chained(attempts[s])
    BY DEF Trail, ScanTrail
  <2>2. ASSUME NEW w \in Workers, pc[w] \in {"recordFailed", "recordDegraded"}
        PROVE  Admissible(attempts[work[w]], Attempt("FAILED", opened[w], "NONE"))
    <3>1. opened[w] = Len(attempts[work[w]]) /\ Clean(attempts[work[w]])
      BY <2>2 DEF Trail, WorkerTrail, Auditing
    <3> QED
      BY <3>1 DEF Admissible, Clean, Attempt
  <2> QED
    BY <2>1, <2>2 DEF AttemptChain, Chained
<1> QED
  BY <1>1, TrailIsInvariant, PTL

(* An APPLIED final attempt stands for a transition that reached the       *)
(* record and an intent that was recorded: what                            *)
(* _existing_applied_finalization takes on trust.                          *)
THEOREM AppliedMeansApplied == Spec => []AppliedIsReal
<1>1. Trail => AppliedIsReal
  BY DEF Trail, ScanTrail, SaysApplied, InEffect, AppliedIsReal
<1> QED
  BY <1>1, TrailIsInvariant, PTL

(* Whoever is told how a scan ended is told what its attempts say: no      *)
(* second answer of run() ever contradicts an earlier one.                 *)
THEOREM CallersHearTheAudit == Spec => []CallersAgree
<1>1. Trail => CallersAgree
  BY DEF Trail, AnswerTrail, Conclusive, Justified, CallersAgree
<1> QED
  BY <1>1, TrailIsInvariant, PTL

-----------------------------------------------------------------------------
(***************************************************************************)
(* RunCoordinator implements RecommendationLifecycle and ScanLedger, for   *)
(* any instance.                                                           *)
(*                                                                         *)
(* A stored run keeps a transition that the table accepted from the record *)
(* it was evaluated against (Warranted); a worker about to replace the     *)
(* record has read one in the run's previous state (Prepared); and the     *)
(* compare-and-set admits no other.  So the replacement is a step of the   *)
(* table from the record as it is, however old the evaluation is.          *)
(*                                                                         *)
(* The ledger of a scan follows from the audit trail and from Budget: each *)
(* provider call has a RUNNING attempt of its own.                         *)
(***************************************************************************)
Outcome(c) == [state |-> c.next, halted |-> c.nextHalted, intent |-> c.intent]

Warranted(c) == \E p \in Evidence : Transition(c.prev, c.prevHalted, p, Outcome(c))

Prepared(w) ==
  /\ pc[w] = "apply" => /\ seen[w].state = runs[work[w]].prev
                        /\ seen[w].halted = runs[work[w]].prevHalted
  /\ pc[w] = "claim" => /\ seen[w].state = runs[work[w]].next
                        /\ seen[w].halted = runs[work[w]].nextHalted

Warrants ==
  /\ \A s \in Scans : runs[s] # None => Warranted(runs[s])
  /\ \A w \in Workers : Prepared(w)
-----------------------------------------------------------------------------
(* The machine inside the abstract specification is the coordinator's. *)
LEMMA SameTable ==
  ASSUME NEW s, NEW h, NEW p, NEW r
  PROVE  Lifecycle!Transition(s, h, p, r) <=> Transition(s, h, p, r)
BY DEF Transition, SaleSourceAccepted, PlanPaused, PlanResumed, DataDegraded,
       DataRecovered, PlanActivated, NearSignal, ActionSignal, DecisionValidated,
       ValidationFailed, SignalInvalidated, ExecutionConfirmed, NextStageEligible,
       ResumeRemainingStages, AllStagesDone, To, Stay,
       Lifecycle!Transition, Lifecycle!SaleSourceAccepted, Lifecycle!PlanPaused,
       Lifecycle!PlanResumed, Lifecycle!DataDegraded, Lifecycle!DataRecovered,
       Lifecycle!PlanActivated, Lifecycle!NearSignal, Lifecycle!ActionSignal,
       Lifecycle!DecisionValidated, Lifecycle!ValidationFailed,
       Lifecycle!SignalInvalidated, Lifecycle!ExecutionConfirmed,
       Lifecycle!NextStageEligible, Lifecycle!ResumeRemainingStages,
       Lifecycle!AllStagesDone, Lifecycle!To, Lifecycle!Stay

(* A transition the table accepts, on evidence the record may be moved by, *)
(* is a step of the abstract specification.                                *)
LEMMA AcceptedIsStep ==
  ASSUME NEW p \in Evidence, NEW r \in Results,
         Transition(rec.state, rec.halted, p, r),
         rec'.state = r.state, rec'.halted = r.halted
  PROVE  Lifecycle!Next
<1>1. r = [state |-> rec'.state, halted |-> rec'.halted, intent |-> r.intent]
      /\ r.intent \in BOOLEAN
  BY DEF Results
<1>2. Lifecycle!Transition(rec.state, rec.halted, p,
        [state |-> rec'.state, halted |-> rec'.halted, intent |-> r.intent])
  BY <1>1, SameTable
<1> QED
  BY <1>1, <1>2 DEF Lifecycle!Next, Lifecycle!Advance

(* The adjudications aside, no step of w leads to a replacement, or        *)
(* touches what the others have read.                                      *)
LEMMA OnlyAdjudicationPrepares ==
  ASSUME Control, NEW w \in Workers, Step(w) \/ Raise(w),
         ~StillWaiting(w), ~LegacyHeld(w)
  PROVE  /\ work' = work
         /\ \E l \in Labels \ {"apply", "claim"} : pc' = [pc EXCEPT ![w] = l]
         /\ \A v \in Workers \ {w} : seen'[v] = seen[v]
<1> USE DEF Control, TypeOK, ProcessOK, Goto, Return, Labels, stores, locals, history
<1>1. CASE AnswerCompleted(w)
  BY <1>1 DEF AnswerCompleted
<1>2. CASE CreateOrRecover(w)
  <2>1. PICK l \in {"open", "recover"} : pc' = [pc EXCEPT ![w] = l]
    BY <1>2 DEF CreateOrRecover
  <2> QED
    BY <1>2, <2>1 DEF CreateOrRecover
<1>3. CASE RetryExhausted(w)
  BY <1>3 DEF RetryExhausted
<1>4. CASE OpenAttempt(w)
  BY <1>4 DEF OpenAttempt
<1>5. CASE Fetch(w)
  BY <1>5 DEF Fetch
<1>6. CASE DegradeRead(w)
  BY <1>6 DEF DegradeRead
<1>7. CASE DegradeWrite(w)
  BY <1>7 DEF DegradeWrite
<1>8. CASE RecordDegraded(w)
  BY <1>8 DEF RecordDegraded
<1>9. CASE RecordFailed(w)
  BY <1>9 DEF RecordFailed
<1>10. CASE EvaluateRead(w)
  BY <1>10 DEF EvaluateRead
<1>11. CASE Decide(w)
  BY <1>11 DEF Decide
<1>12. CASE Recover(w)
  BY <1>12 DEF Recover
<1>13. CASE FenceHeld(w)
  <2>1. PICK l \in {"intent", "recordFinal"} : pc' = [pc EXCEPT ![w] = l]
    BY <1>13 DEF FenceHeld, AfterEffects
  <2> QED
    BY <1>13, <2>1 DEF FenceHeld, Adjudicates
<1>14. CASE Superseded(w)
  BY <1>14 DEF Superseded, Adjudicates
<1>15. CASE Apply(w)
  BY <1>15 DEF Apply, Abandon, AfterEffects
<1>16. CASE ClaimLegacy(w)
  BY <1>16 DEF ClaimLegacy, Abandon
<1>17. CASE RecordIntent(w)
  BY <1>17 DEF RecordIntent
<1>18. CASE RecordFinal(w)
  BY <1>18 DEF RecordFinal
<1>19. CASE RecordSuperseded(w)
  BY <1>19 DEF RecordSuperseded
<1>20. CASE Attach(w)
  BY <1>20 DEF Attach
<1>21. CASE Release(w)
  BY <1>21 DEF Release
<1>22. CASE Raise(w)
  BY <1>22 DEF Raise, Abandon
<1> QED
  BY <1>1, <1>2, <1>3, <1>4, <1>5, <1>6, <1>7, <1>8, <1>9, <1>10, <1>11,
     <1>12, <1>13, <1>14, <1>15, <1>16, <1>17, <1>18, <1>19, <1>20, <1>21, <1>22 DEF Step

(* Workers that serve other scans than w stay prepared. *)
LEMMA OthersStayPrepared ==
  ASSUME Control, NEW w \in Workers, NEW v \in Workers \ {w}, Prepared(v),
         pc[w] # "idle", NEW l \in Labels, pc' = [pc EXCEPT ![w] = l],
         work' = work, seen'[v] = seen[v],
         \A s \in Scans \ {work[w]} : runs'[s] = runs[s]
  PROVE  Prepared(v)'
<1>1. pc'[v] = pc[v] /\ work'[v] = work[v]
  BY DEF Control, TypeOK, ProcessOK
<1>2. pc[v] # "idle" => work[v] \in Scans /\ work[v] # work[w]
  BY DEF Control, Leased
<1> QED
  BY <1>1, <1>2 DEF Prepared

(* Decide stores a transition the table accepted from the record it read. *)
LEMMA DecideWarrants ==
  ASSUME Control, Warrants, NEW w \in Workers, Decide(w)
  PROVE  Warrants'
<1> DEFINE s == work[w]
<1>1. s \in Scans /\ pc[w] # "idle"
  BY DEF Decide, At, Control, Leased
<1>2. \A t \in Scans \ {s} : runs'[t] = runs[t]
  BY <1>1 DEF Decide, Control, TypeOK, StoresOK
<1>3. work' = work /\ seen' = seen
  BY DEF Decide, locals
<1>4. PICK l \in {"adjudicate", "recordFailed"} : pc' = [pc EXCEPT ![w] = l]
  BY DEF Decide, Goto
<1>5. ASSUME NEW p \in Proposals, NEW r \in Evaluated(seen[w], p),
             runs' = [runs EXCEPT ![s] =
                 [prev |-> seen[w].state, prevHalted |-> seen[w].halted,
                  next |-> r.state, nextHalted |-> r.halted, intent |-> r.intent]]
      PROVE  Warranted(runs'[s])
  <2>1. r \in Results /\ Transition(seen[w].state, seen[w].halted, p, r)
    BY DEF Evaluated, Allowed
  <2>2. runs'[s] = [prev |-> seen[w].state, prevHalted |-> seen[w].halted,
                  next |-> r.state, nextHalted |-> r.halted, intent |-> r.intent]
    BY <1>1, <1>5 DEF Control, TypeOK, StoresOK
  <2>3. Outcome(runs'[s]) = r
    BY <2>1, <2>2 DEF Outcome, Results
  <2>4. p \in Evidence
    BY DEF Evidence
  <2> QED
    BY <2>1, <2>2, <2>3, <2>4 DEF Warranted
<1>6. runs'[s] = runs[s] \/ Warranted(runs'[s])
  BY <1>5 DEF Decide
<1>7. \A t \in Scans : runs'[t] # None => Warranted(runs'[t])
  BY <1>2, <1>6 DEF Warrants
<1>8. \A v \in Workers \ {w} : Prepared(v)'
  BY <1>1, <1>2, <1>3, <1>4, OthersStayPrepared DEF Warrants, Labels
<1>9. Prepared(w)'
  BY <1>4 DEF Prepared, Control, TypeOK, ProcessOK
<1> QED
  BY <1>7, <1>8, <1>9 DEF Warrants, Warranted, Outcome

(* The adjudications prepare w with the record they have just read. *)
LEMMA AdjudicationWarrants ==
  ASSUME Control, Warrants, NEW w \in Workers, StillWaiting(w) \/ LegacyHeld(w)
  PROVE  Warrants'
<1>1. /\ pc[w] # "idle" /\ UNCHANGED <<runs, work>>
      /\ seen' = [seen EXCEPT ![w] = rec]
  BY DEF StillWaiting, LegacyHeld, Adjudicates, At, stores
<1>2. PICK l \in Labels : pc' = [pc EXCEPT ![w] = l]
  BY DEF StillWaiting, LegacyHeld, Goto, Abandon, Return, Labels
<1>3. \A v \in Workers \ {w} : seen'[v] = seen[v]
  BY <1>1 DEF Control, TypeOK, ProcessOK
<1>4. \A v \in Workers \ {w} : Prepared(v)'
  BY <1>1, <1>2, <1>3, OthersStayPrepared DEF Warrants
<1>5. seen'[w] = rec
  BY <1>1 DEF Control, TypeOK, ProcessOK
<1>6. StillWaiting(w) => Prepared(w)'
  BY <1>1, <1>5
     DEF StillWaiting, Waiting, Goto, Prepared, Control, TypeOK, ProcessOK
<1>7. LegacyHeld(w) => Prepared(w)'
  BY <1>1, <1>5
     DEF LegacyHeld, Reached, Goto, Abandon, Return, Prepared, Control, TypeOK, ProcessOK
<1>8. \A s \in Scans : runs'[s] # None => Warranted(runs'[s])
  BY <1>1 DEF Warrants
<1>9. Prepared(w)'
  BY <1>6, <1>7
<1> QED
  BY <1>4, <1>8, <1>9 DEF Warrants, Warranted, Outcome

(* Any step of a worker. *)
LEMMA StepWarrants ==
  ASSUME Control, Warrants, NEW w \in Workers, Step(w) \/ Raise(w)
  PROVE  Warrants'
<1>1. CASE Decide(w)
  BY <1>1, DecideWarrants
<1>2. CASE StillWaiting(w) \/ LegacyHeld(w)
  BY <1>2, AdjudicationWarrants
<1>3. CASE ~Decide(w) /\ ~StillWaiting(w) /\ ~LegacyHeld(w)
  <2>1. runs' = runs
    BY <1>3, WorkingMoves DEF Working, Moves, Release, stores
  <2>2. pc[w] # "idle"
    BY <1>3, WorkingMoves DEF Working, Moves, Release, At
  <2>3. PICK l \in Labels \ {"apply", "claim"} : pc' = [pc EXCEPT ![w] = l]
    BY <1>3, OnlyAdjudicationPrepares
  <2>4. work' = work /\ \A v \in Workers \ {w} : seen'[v] = seen[v]
    BY <1>3, OnlyAdjudicationPrepares
  <2>5. \A v \in Workers \ {w} : Prepared(v)'
    BY <2>1, <2>2, <2>3, <2>4, OthersStayPrepared DEF Warrants
  <2>6. Prepared(w)'
    BY <2>3 DEF Prepared, Control, TypeOK, ProcessOK
  <2> QED
    BY <2>1, <2>5, <2>6 DEF Warrants, Warranted, Outcome
<1> QED
  BY <1>1, <1>2, <1>3

(* Calls and crashes bring nobody to a replacement. *)
LEMMA OutsideWarrants ==
  ASSUME Control, Warrants, Crash \/ \E w \in Workers, s \in Scans : Call(w, s)
  PROVE  Warrants'
<1>1. runs' = runs
  BY DEF Crash, Call, Refuse, Duplicate, Acquire, stores
<1>2. ASSUME NEW v \in Workers PROVE Prepared(v)'
  <2>1. CASE Crash
    BY <2>1 DEF Crash, Prepared
  <2>2. ASSUME NEW w \in Workers, NEW s \in Scans, Call(w, s)
        PROVE  Prepared(v)'
    <3>1. /\ pc[w] = "idle" /\ seen' = seen
          /\ pc' = pc \/ pc' = [pc EXCEPT ![w] = "lookup"]
          /\ work' = [work EXCEPT ![w] = None] \/ work' = [work EXCEPT ![w] = s]
      BY <2>2 DEF Call, Refuse, Duplicate, Acquire, At, Goto
    <3>2. CASE v = w
      BY <3>1, <3>2 DEF Prepared, Control, TypeOK, ProcessOK
    <3>3. CASE v # w
      BY <1>1, <3>1, <3>3 DEF Warrants, Prepared, Control, TypeOK, ProcessOK
    <3> QED
      BY <3>2, <3>3
  <2> QED
    BY <2>1, <2>2
<1> QED
  BY <1>1, <1>2 DEF Warrants, Warranted, Outcome

(* A migrated run was decided from the legacy evidence. *)
LEMMA InitWarrants == Init => Warrants
<1> SUFFICES ASSUME Init PROVE Warrants
  OBVIOUS
<1>1. \A w \in Workers : Prepared(w)
  BY DEF Init, ProcessInit, Prepared
<1>2. CASE FreshInit
  BY <1>1, <1>2 DEF FreshInit, Warrants
<1>3. ASSUME NEW l \in LegacyScans, NEW claimed \in BOOLEAN, LegacyInit(l, claimed)
      PROVE  Warrants
  <2>1. LegacyEvidence \in Evidence
    BY DEF Evidence
  <2>2. Transition(LegacyRun.prev, LegacyRun.prevHalted, LegacyEvidence,
                   Outcome(LegacyRun))
    BY DEF LegacyRun, LegacyEvidence, Outcome, Transition, SaleSourceAccepted,
           DecisionValidated
  <2>3. Warranted(LegacyRun)
    BY <2>1, <2>2 DEF Warranted
  <2> QED
    BY <1>1, <1>3, <2>3 DEF LegacyInit, Warrants
<1> QED
  BY <1>2, <1>3 DEF Init

(* Every step keeps the warrants. *)
LEMMA NextWarrants == Control /\ Warrants /\ [Next]_vars => Warrants'
<1> SUFFICES ASSUME Control, Warrants, [Next]_vars PROVE Warrants'
  OBVIOUS
<1>1. CASE UNCHANGED vars
  BY <1>1 DEF vars, stores, locals, Warrants, Warranted, Outcome, Prepared
<1> QED
  BY <1>1, StepWarrants, OutsideWarrants DEF Next
-----------------------------------------------------------------------------
(* The record's steps *)

(* A degradation is a step on the evidence the coordinator proposes. *)
LEMMA DegradeWriteIsStep ==
  ASSUME Control, NEW w \in Workers, DegradeWrite(w)
  PROVE  Lifecycle!Next \/ rec' = rec
<1>1. ASSUME NEW r \in Allowed(rec.state, rec.halted, DegradedEvidence),
             Replace(r.state, r.halted, None)
      PROVE  Lifecycle!Next
  <2>1. r \in Results /\ Transition(rec.state, rec.halted, DegradedEvidence, r)
    BY DEF Allowed
  <2>2. rec'.state = r.state /\ rec'.halted = r.halted
    BY <1>1 DEF Replace, Records, Control, TypeOK, StoresOK
  <2>3. DegradedEvidence \in Evidence
    BY DEF Evidence
  <2> QED
    BY <2>1, <2>2, <2>3, AcceptedIsStep
<1> QED
  BY <1>1 DEF DegradeWrite

(* A run that wins the record takes the transition it was stored with, and *)
(* from the state that transition starts in.                               *)
LEMMA ApplyIsStep ==
  ASSUME Control, Warrants, NEW w \in Workers, Apply(w)
  PROVE  Lifecycle!Next \/ rec' = rec
<1> DEFINE s == work[w]
           r == Outcome(runs[s])
<1>1. s \in Scans /\ runs[s] # None
  BY DEF Apply, At, Control, Leased, RunAtHand, Finalizing
<1>2. runs[s] \in Candidates /\ rec \in Records
  BY <1>1 DEF Control, TypeOK, StoresOK
<1>3. ASSUME Unchanged(w), Replace(runs[s].next, runs[s].nextHalted, s)
      PROVE  Lifecycle!Next
  <2>1. rec.state = runs[s].prev /\ rec.halted = runs[s].prevHalted
    BY <1>3 DEF Unchanged, Apply, At, Warrants, Prepared
  <2>2. PICK p \in Evidence : Transition(rec.state, rec.halted, p, r)
    BY <1>1, <2>1 DEF Warrants, Warranted
  <2>3. r \in Results /\ r.state = runs[s].next /\ r.halted = runs[s].nextHalted
    BY <1>2 DEF Outcome, Candidates, Results
  <2>4. rec'.state = r.state /\ rec'.halted = r.halted
    BY <1>2, <1>3, <2>3 DEF Replace, Records
  <2> QED
    BY <2>2, <2>3, <2>4, AcceptedIsStep
<1> QED
  BY <1>3 DEF Apply

(* A legacy claim only adds the fence to a record that has the result. *)
LEMMA ClaimLegacyStutters ==
  ASSUME Control, Warrants, NEW w \in Workers, ClaimLegacy(w)
  PROVE  rec'.state = rec.state /\ rec'.halted = rec.halted
<1>1. rec \in Records
  BY DEF Control, TypeOK, StoresOK
<1>2. CASE Unchanged(w) /\ Replace(runs[work[w]].next, runs[work[w]].nextHalted, work[w])
  BY <1>1, <1>2 DEF ClaimLegacy, At, Unchanged, Replace, Records, Warrants, Prepared
<1> QED
  BY <1>2 DEF ClaimLegacy

(* Every step of the coordinator is a step of the table or leaves the      *)
(* record's state and halt flag alone.                                     *)
LEMMA NextImplements ==
  Control /\ Claims /\ Warrants /\ [Next]_vars
    => [Lifecycle!Next]_(Lifecycle!lifecycleVars)
<1> SUFFICES ASSUME Control, Claims, Warrants, [Next]_vars
             PROVE  \/ Lifecycle!Next
                    \/ rec'.state = rec.state /\ rec'.halted = rec.halted
  BY DEF Lifecycle!lifecycleVars
<1>1. ASSUME NEW w \in Workers, Step(w) \/ Raise(w)
      PROVE  \/ Lifecycle!Next
             \/ rec'.state = rec.state /\ rec'.halted = rec.halted
  <2>1. CASE DegradeWrite(w)
    BY <2>1, DegradeWriteIsStep
  <2>2. CASE Apply(w)
    BY <2>2, ApplyIsStep
  <2>3. CASE ClaimLegacy(w)
    BY <2>3, ClaimLegacyStutters
  <2>4. CASE Decide(w) \/ RecordIntent(w)
    BY <2>4 DEF Decide, RecordIntent
  <2>5. CASE ~DegradeWrite(w) /\ ~Decide(w) /\ ~Apply(w) /\ ~ClaimLegacy(w)
             /\ ~RecordIntent(w)
    BY <1>1, <2>5, MostStepsAreQuiet DEF Quiet
  <2> QED
    BY <2>1, <2>2, <2>3, <2>4, <2>5
<1>2. CASE Crash \/ \E w \in Workers, s \in Scans : Call(w, s)
  BY <1>2 DEF Crash, Call, Refuse, Duplicate, Acquire, stores
<1>3. CASE UNCHANGED vars
  BY <1>3 DEF vars, stores
<1> QED
  BY <1>1, <1>2, <1>3 DEF Next

(* The coordinator starts where the abstract record may start. *)
LEMMA InitImplements == Init => Lifecycle!Init
<1> SUFFICES ASSUME Init PROVE Lifecycle!Init
  OBVIOUS
<1>1. CASE FreshInit
  BY <1>1 DEF FreshInit, Lifecycle!Init
<1>2. ASSUME NEW l \in LegacyScans, NEW claimed \in BOOLEAN, LegacyInit(l, claimed)
      PROVE  Lifecycle!Init
  <2> DEFINE start == <<LegacyRun.next, LegacyRun.nextHalted>>
  <2>1. rec.state = start[1] /\ rec.halted = start[2]
    BY <1>2 DEF LegacyInit, LegacyRun
  <2>2. start \in Starts \cup {start}
    OBVIOUS
  <2>3. LegacyScans # {}
    OBVIOUS
  <2> HIDE DEF start
  <2> QED
    BY <2>1, <2>2, <2>3 DEF start, Lifecycle!Init
<1> QED
  BY <1>1, <1>2 DEF Init

(* The plan's record takes only steps of the transition table, each from   *)
(* the state it is in, although every candidate is evaluated against a     *)
(* record that was read earlier.                                           *)
THEOREM RecordFollowsTable == Spec => ImplementsLifecycle
<1>1. Spec => []Warrants
  BY InitWarrants, NextWarrants, ControlIsInvariant, PTL DEF Spec
<1>2. Spec => Lifecycle!Spec
  BY <1>1, InitImplements, NextImplements, ControlIsInvariant, ClaimsAreInvariant, PTL
     DEF Spec, Lifecycle!Spec
<1> QED
  BY <1>2 DEF ImplementsLifecycle
-----------------------------------------------------------------------------
(* The provider budget of a scan *)

Running(s) == Cardinality(Numbers(attempts[s], "RUNNING"))

Budget ==
  /\ \A s \in Scans : fetches[s] <= Running(s) /\ Running(s) <= MaxProviderAttempts
  /\ \A w \in Workers : pc[w] = "fetch" => fetches[work[w]] < Running(work[w])
  /\ \A w \in Workers : pc[w] \in {"evaluate", "decide"} => fetches[work[w]] > 0

(* The attempts of a status can be counted. *)
LEMMA RunningCounts ==
  ASSUME NEW list \in Seq(Attempts)
  PROVE  /\ IsFiniteSet(Numbers(list, "RUNNING"))
         /\ Cardinality(Numbers(list, "RUNNING")) \in Nat
<1>1. Len(list) \in Nat
  BY LenProperties
<1>2. IsFiniteSet(1..Len(list)) /\ Numbers(list, "RUNNING") \subseteq 1..Len(list)
  BY <1>1, FS_Interval DEF Numbers
<1> QED
  BY <1>2, FS_Subset, FS_CardinalityType

(* A RUNNING attempt counts, any other does not. *)
LEMMA RunningAppended ==
  ASSUME NEW list \in Seq(Attempts), NEW a \in Attempts
  PROVE  Cardinality(Numbers(Append(list, a), "RUNNING")) =
           Cardinality(Numbers(list, "RUNNING")) + (IF a.status = "RUNNING" THEN 1 ELSE 0)
<1>1. Len(list) \in Nat /\ Len(list) + 1 \notin Numbers(list, "RUNNING")
  BY LenProperties DEF Numbers
<1>2. IsFiniteSet(Numbers(list, "RUNNING")) /\ Cardinality(Numbers(list, "RUNNING")) \in Nat
  BY RunningCounts
<1>3. CASE a.status = "RUNNING"
  <2>1. Numbers(Append(list, a), "RUNNING") = Numbers(list, "RUNNING") \cup {Len(list) + 1}
    BY <1>3, NumbersAppended
  <2> QED
    BY <1>1, <1>2, <1>3, <2>1, FS_AddElement
<1>4. CASE a.status # "RUNNING"
  <2>1. Numbers(Append(list, a), "RUNNING") = Numbers(list, "RUNNING") \cup {}
    BY <1>4, NumbersAppended
  <2> QED
    BY <1>2, <1>4, <2>1
<1> QED
  BY <1>3, <1>4

(* The steps that leave the ledger of every scan alone. *)
Tidies(w, s, l) ==
  /\ work[w] = s /\ work' = work /\ pc' = [pc EXCEPT ![w] = l] /\ l # "fetch"
  /\ l \in {"evaluate", "decide"} => pc[w] = "evaluate"
  /\ UNCHANGED <<scans, runs, fetches>>
  /\ \/ UNCHANGED attempts
     \/ /\ pc[w] \notin Outside
        /\ \E a \in Attempts : a.status # "RUNNING" /\ Record(s, a)

(* All but five of the actions of a worker are such steps. *)
LEMMA MostStepsTidy ==
  ASSUME Control, Trail, NEW w \in Workers, NEW s \in Scans, s = work[w],
         Step(w) \/ Raise(w), ~OpenAttempt(w), ~Fetch(w),
         ~CreateOrRecover(w), ~Decide(w), ~Attach(w)
  PROVE  \E l \in Labels : Tidies(w, s, l)
<1>1. CASE AnswerCompleted(w)
  <2>1. ~Clean(attempts[s]) /\ Verdict(attempts[s]) \in Verdicts
    BY <1>1 DEF AnswerCompleted, Trail, ScanTrail, Judged
  <2>2. UNCHANGED attempts
    BY <1>1, <2>1 DEF AnswerCompleted, Verdicts
  <2> QED
    BY <1>1, <2>2 DEF AnswerCompleted, Return, Goto, Tidies, locals, history, Labels
<1>2. CASE RetryExhausted(w)
  BY <1>2 DEF RetryExhausted, Return, Goto, Tidies, stores, locals, history, Labels
<1>3. CASE DegradeRead(w)
  BY <1>3 DEF DegradeRead, Goto, Tidies, stores, history, Labels
<1>4. CASE DegradeWrite(w)
  BY <1>4 DEF DegradeWrite, Goto, Tidies, locals, Labels
<1>5. CASE RecordDegraded(w)
  <2>1. Attempt("DEGRADED", opened[w], "NONE") \in Attempts
    BY DEF Control, TypeOK, ProcessOK, Attempt, Attempts
  <2> QED
    BY <1>5, <2>1
       DEF RecordDegraded, At, Attempt, Return, Goto, Tidies, locals, history, Labels, Outside
<1>6. CASE RecordFailed(w)
  <2>1. Attempt("FAILED", opened[w], "NONE") \in Attempts
    BY DEF Control, TypeOK, ProcessOK, Attempt, Attempts
  <2> QED
    BY <1>6, <2>1
       DEF RecordFailed, At, Attempt, Return, Goto, Tidies, locals, history, Labels, Outside
<1>7. CASE EvaluateRead(w)
  BY <1>7 DEF EvaluateRead, At, Goto, Tidies, stores, history, Labels
<1>8. CASE Recover(w)
  BY <1>8 DEF Recover, Return, Goto, Tidies, stores, locals, history, Labels
<1>9. CASE FenceHeld(w)
  BY <1>9 DEF FenceHeld, Adjudicates, AfterEffects, Goto, Tidies, stores, history, Labels
<1>10. CASE LegacyHeld(w)
  BY <1>10
     DEF LegacyHeld, Adjudicates, Abandon, Return, Goto, Tidies, stores, history, Labels
<1>11. CASE StillWaiting(w) \/ Superseded(w)
  BY <1>11 DEF StillWaiting, Superseded, Adjudicates, Goto, Tidies, stores, history, Labels
<1>12. CASE Apply(w)
  BY <1>12 DEF Apply, AfterEffects, Abandon, Return, Goto, Tidies, locals, Labels
<1>13. CASE ClaimLegacy(w)
  BY <1>13 DEF ClaimLegacy, Abandon, Return, Goto, Tidies, locals, Labels
<1>14. CASE RecordIntent(w)
  BY <1>14 DEF RecordIntent, Goto, Tidies, locals, history, Labels
<1>15. CASE RecordFinal(w) \/ RecordSuperseded(w)
  <2>1. PICK d \in Verdicts, l \in {"attach", "attachSuperseded"} :
          RecordVerdict(s, d) /\ pc' = [pc EXCEPT ![w] = l]
    BY <1>15 DEF RecordFinal, RecordSuperseded, Goto, Verdicts
  <2>2. pc[w] \notin Outside
    BY <1>15 DEF RecordFinal, RecordSuperseded, At, Outside
  <2>3. Attempt("SUCCEEDED", Len(attempts[s]), d) \in Attempts
    BY LenProperties DEF Attempt, Attempts, Verdicts, Control, TypeOK, StoresOK
  <2>4. UNCHANGED attempts \/ \E a \in Attempts : a.status # "RUNNING" /\ Record(s, a)
    BY <2>1, <2>3 DEF RecordVerdict, Attempt
  <2> QED
    BY <1>15, <2>1, <2>2, <2>4
       DEF RecordFinal, RecordSuperseded, Tidies, locals, history, Labels
<1>16. CASE Release(w)
  BY <1>16 DEF Release, Goto, Tidies, stores, history, Labels
<1>17. CASE Raise(w)
  BY <1>17 DEF Raise, Abandon, Return, Goto, Tidies, stores, locals, history, Labels
<1> QED
  BY <1>1, <1>2, <1>3, <1>4, <1>5, <1>6, <1>7, <1>8, <1>9, <1>10, <1>11, <1>12,
     <1>13, <1>14, <1>15, <1>16, <1>17 DEF Step

(* A step of w spends at most its own scan's budget. *)
LEMMA SpendKeepsBudget ==
  ASSUME Control, Budget, NEW w \in Workers, NEW s \in Scans, NEW l \in Labels,
         pc[w] # "idle", work[w] = s, work' = work, pc' = [pc EXCEPT ![w] = l],
         \A t \in Scans \ {s} : fetches'[t] = fetches[t] /\ attempts'[t] = attempts[t],
         fetches'[s] <= Running(s)', Running(s)' <= MaxProviderAttempts,
         l = "fetch" => fetches'[s] < Running(s)',
         l \in {"evaluate", "decide"} => fetches'[s] > 0
  PROVE  Budget'
<1>1. ASSUME NEW t \in Scans \ {s} PROVE fetches'[t] = fetches[t] /\ Running(t)' = Running(t)
  BY DEF Running, Numbers
<1>2. \A t \in Scans : fetches'[t] <= Running(t)' /\ Running(t)' <= MaxProviderAttempts
  <2> SUFFICES ASSUME NEW t \in Scans
               PROVE  fetches'[t] <= Running(t)' /\ Running(t)' <= MaxProviderAttempts
    OBVIOUS
  <2>1. CASE t = s
    BY <2>1 DEF Running, Numbers
  <2>2. CASE t # s
    BY <1>1, <2>2 DEF Budget
  <2> QED
    BY <2>1, <2>2
<1>3. ASSUME NEW v \in Workers
      PROVE  /\ pc'[v] = "fetch" => fetches'[work'[v]] < Running(work[v])'
             /\ pc'[v] \in {"evaluate", "decide"} => fetches'[work'[v]] > 0
  <2>1. CASE v = w
    BY <2>1 DEF Control, TypeOK, ProcessOK, Running, Numbers
  <2>2. CASE v # w /\ pc[v] # "idle"
    <3>1. work[v] \in Scans \ {s}
      BY <2>2 DEF Control, Leased
    <3>2. PICK t \in Scans \ {s} : t = work[v]
      BY <3>1
    <3>3. /\ pc'[v] = "fetch" => fetches'[t] < Running(t)'
          /\ pc'[v] \in {"evaluate", "decide"} => fetches'[t] > 0
      BY <1>1, <2>2, <3>2 DEF Budget, Control, TypeOK, ProcessOK
    <3> QED
      BY <3>2, <3>3 DEF Running, Numbers
  <2>3. CASE v # w /\ pc[v] = "idle"
    BY <2>3 DEF Control, TypeOK, ProcessOK
  <2> QED
    BY <2>1, <2>2, <2>3
<1> QED
  BY <1>2, <1>3 DEF Budget

(* Nothing is spent on the scans whose attempts and calls are the same. *)
LEMMA SavingKeepsBudget ==
  ASSUME Control, Budget, NEW w \in Workers, NEW s \in Scans, NEW l \in Labels,
         pc[w] # "idle", work[w] = s, work' = work, pc' = [pc EXCEPT ![w] = l],
         l # "fetch", l \in {"evaluate", "decide"} => pc[w] = "evaluate",
         UNCHANGED fetches,
         UNCHANGED attempts \/ \E a \in Attempts : a.status # "RUNNING" /\ Record(s, a)
  PROVE  Budget'
<1>1. attempts \in [Scans -> Seq(Attempts)] /\ fetches[s] \in Nat
  BY DEF Control, TypeOK, StoresOK, HistoryOK
<1>2. Running(s) \in Nat
  BY <1>1, RunningCounts DEF Running
<1>3. /\ Running(s)' = Running(s)
      /\ \A t \in Scans \ {s} : attempts'[t] = attempts[t]
  <2>1. CASE UNCHANGED attempts
    BY <2>1 DEF Running, Numbers
  <2>2. ASSUME NEW a \in Attempts, a.status # "RUNNING", Record(s, a)
        PROVE  /\ Running(s)' = Running(s)
               /\ \A t \in Scans \ {s} : attempts'[t] = attempts[t]
    <3>1. /\ attempts'[s] = Append(attempts[s], a)
          /\ \A t \in Scans \ {s} : attempts'[t] = attempts[t]
      BY <1>1, <2>2 DEF Record
    <3>2. Cardinality(Numbers(Append(attempts[s], a), "RUNNING"))
            = Cardinality(Numbers(attempts[s], "RUNNING"))
      BY <1>1, <1>2, <2>2, RunningAppended DEF Running
    <3> QED
      BY <3>1, <3>2 DEF Running, Numbers
  <2> QED
    BY <2>1, <2>2
<1> QED
  BY <1>1, <1>2, <1>3, SpendKeepsBudget DEF Budget

(* A RUNNING attempt is written before the provider is called. *)
LEMMA OpenAttemptKeepsBudget ==
  ASSUME Control, Budget, NEW w \in Workers, OpenAttempt(w)
  PROVE  Budget'
<1>1. pc[w] = "open"
  BY DEF OpenAttempt, At
<1>2. PICK s \in Scans : s = work[w]
  BY <1>1 DEF Control, Leased
<1>3. attempts \in [Scans -> Seq(Attempts)] /\ fetches[s] \in Nat
  BY DEF Control, TypeOK, StoresOK, HistoryOK
<1>4. Running(s) \in Nat /\ fetches[s] <= Running(s) /\ Running(s) < MaxProviderAttempts
  BY <1>2, <1>3, RunningCounts, ConstantsAssumption DEF Running, OpenAttempt, Exhausted, Budget
<1> DEFINE a == Attempt("RUNNING", Len(attempts[s]), "NONE")
<1>5. a \in Attempts /\ a.status = "RUNNING"
  BY <1>3, LenProperties DEF Attempt, Attempts
<1>6. /\ Record(s, a) /\ UNCHANGED <<fetches, work>> /\ pc' = [pc EXCEPT ![w] = "fetch"]
  BY <1>2 DEF OpenAttempt, Goto, history
<1> HIDE DEF a
<1>7. /\ attempts'[s] = Append(attempts[s], a)
      /\ \A t \in Scans \ {s} : attempts'[t] = attempts[t]
  BY <1>3, <1>6 DEF Record
<1>8. Cardinality(Numbers(Append(attempts[s], a), "RUNNING")) = Running(s) + 1
  BY <1>3, <1>5, RunningAppended DEF Running
<1>9. Running(s)' = Running(s) + 1
  BY <1>7, <1>8 DEF Running, Numbers
<1>10. /\ fetches'[s] <= Running(s)' /\ Running(s)' <= MaxProviderAttempts
       /\ fetches'[s] < Running(s)'
  BY <1>3, <1>4, <1>6, <1>9, ConstantsAssumption
<1>11. /\ pc[w] # "idle" /\ work[w] = s /\ work' = work /\ "fetch" \in Labels
       /\ \A t \in Scans \ {s} : fetches'[t] = fetches[t] /\ attempts'[t] = attempts[t]
  BY <1>1, <1>2, <1>6, <1>7 DEF Labels
<1> QED
  BY <1>6, <1>10, <1>11, SpendKeepsBudget

(* A provider call uses the attempt that was opened for it. *)
LEMMA FetchKeepsBudget ==
  ASSUME Control, Budget, NEW w \in Workers, Fetch(w)
  PROVE  Budget'
<1>1. pc[w] = "fetch"
  BY DEF Fetch, At
<1>2. PICK s \in Scans : s = work[w]
  BY <1>1 DEF Control, Leased
<1>3. attempts \in [Scans -> Seq(Attempts)] /\ fetches \in [Scans -> Nat]
  BY DEF Control, TypeOK, StoresOK, HistoryOK
<1>4. Running(s) \in Nat
  BY <1>3, RunningCounts DEF Running
<1>5. fetches[s] < Running(s) /\ Running(s) <= MaxProviderAttempts
  BY <1>1, <1>2 DEF Budget
<1>6. PICK l \in {"recordFailed", "degradeRead", "evaluate"} : pc' = [pc EXCEPT ![w] = l]
  BY DEF Fetch, Goto
<1>7. UNCHANGED <<attempts, work>> /\ fetches' = [fetches EXCEPT ![s] = @ + 1]
  BY <1>2 DEF Fetch, stores, locals
<1>8. Running(s)' = Running(s)
  BY <1>7 DEF Running, Numbers
<1>9. /\ fetches'[s] = fetches[s] + 1 /\ fetches[s] \in Nat
      /\ \A t \in Scans \ {s} : fetches'[t] = fetches[t]
  BY <1>3, <1>7
<1>10. /\ fetches'[s] <= Running(s)' /\ Running(s)' <= MaxProviderAttempts
       /\ fetches'[s] > 0
  BY <1>4, <1>5, <1>8, <1>9
<1>11. /\ pc[w] # "idle" /\ work[w] = s /\ work' = work /\ l \in Labels /\ l # "fetch"
       /\ \A t \in Scans \ {s} : fetches'[t] = fetches[t] /\ attempts'[t] = attempts[t]
  BY <1>1, <1>2, <1>6, <1>7, <1>9 DEF Labels
<1> QED
  BY <1>6, <1>10, <1>11, SpendKeepsBudget

(* Every step keeps the budget. *)
LEMMA NextBudget == Control /\ Trail /\ Budget /\ [Next]_vars => Budget'
<1> SUFFICES ASSUME Control, Trail, Budget, [Next]_vars PROVE Budget'
  OBVIOUS
<1>1. ASSUME NEW w \in Workers, Step(w) \/ Raise(w) PROVE Budget'
  <2>1. pc[w] # "idle" /\ (Fetch(w) \/ OpenAttempt(w) \/ Working(w) \/ Decide(w) \/ Release(w))
    BY <1>1, WorkingMoves
       DEF Working, Moves, Fetch, OpenAttempt, Decide, Release, At
  <2>2. PICK s \in Scans : s = work[w]
    BY <2>1 DEF Control, Leased
  <2>3. CASE OpenAttempt(w)
    BY <2>3, OpenAttemptKeepsBudget
  <2>4. CASE Fetch(w)
    BY <2>4, FetchKeepsBudget
  <2>5. CASE CreateOrRecover(w) \/ Decide(w) \/ Attach(w)
    <3>1. PICK l \in {"open", "recover", "adjudicate", "recordFailed", "release"} :
            pc' = [pc EXCEPT ![w] = l]
      BY <2>5 DEF CreateOrRecover, Decide, Attach, Goto, Return
    <3>2. UNCHANGED <<attempts, fetches, work>>
      BY <2>5 DEF CreateOrRecover, Decide, Attach, locals, history
    <3> QED
      BY <2>1, <2>2, <3>1, <3>2, SavingKeepsBudget DEF Labels
  <2>6. CASE ~OpenAttempt(w) /\ ~Fetch(w) /\ ~CreateOrRecover(w) /\ ~Decide(w) /\ ~Attach(w)
    <3>1. PICK l \in Labels : Tidies(w, s, l)
      BY <1>1, <2>2, <2>6, MostStepsTidy
    <3> QED
      BY <2>1, <3>1, SavingKeepsBudget DEF Tidies
  <2> QED
    BY <2>3, <2>4, <2>5, <2>6
<1>2. ASSUME UNCHANGED <<attempts, fetches>>,
             \A w \in Workers : pc'[w] \in {"fetch", "evaluate", "decide"} =>
               pc'[w] = pc[w] /\ work'[w] = work[w]
      PROVE  Budget'
  <2>1. \A s \in Scans : fetches'[s] = fetches[s] /\ Running(s)' = Running(s)
    BY <1>2 DEF Running, Numbers
  <2>2. ASSUME NEW w \in Workers, pc'[w] \in {"fetch", "evaluate", "decide"}
        PROVE  /\ pc'[w] = "fetch" => fetches'[work'[w]] < Running(work[w])'
               /\ pc'[w] \in {"evaluate", "decide"} => fetches'[work'[w]] > 0
    <3>1. pc'[w] = pc[w] /\ work'[w] = work[w]
      BY <1>2, <2>2
    <3>2. PICK s \in Scans : s = work[w]
      BY <2>2, <3>1 DEF Control, Leased
    <3>3. /\ pc'[w] = "fetch" => fetches[s] < Running(s)
          /\ pc'[w] \in {"evaluate", "decide"} => fetches[s] > 0
      BY <3>1, <3>2 DEF Budget
    <3>4. fetches'[s] = fetches[s] /\ Running(s)' = Running(s) /\ work'[w] = s
      BY <2>1, <3>1, <3>2
    <3> QED
      BY <3>3, <3>4 DEF Running, Numbers
  <2> QED
    BY <2>1, <2>2 DEF Budget
<1>3. CASE Crash
  BY <1>2, <1>3 DEF Crash, stores, history
<1>4. ASSUME NEW w \in Workers, NEW s \in Scans, Call(w, s) PROVE Budget'
  <2>1. pc[w] = "idle" /\ pc' \in {pc, [pc EXCEPT ![w] = "lookup"]}
        /\ UNCHANGED <<attempts, fetches>>
        /\ \A v \in Workers \ {w} : work'[v] = work[v]
    BY <1>4 DEF Call, Refuse, Duplicate, Acquire, At, Goto, stores, history,
       Control, TypeOK, ProcessOK
  <2> QED
    BY <1>2, <2>1 DEF Control, TypeOK, ProcessOK
<1>5. CASE UNCHANGED vars
  BY <1>2, <1>5 DEF vars, stores, locals, history
<1> QED
  BY <1>1, <1>3, <1>4, <1>5 DEF Next

(* A migrated run has made the one call of its attempt. *)
LEMMA InitBudget == Init => Budget
<1> SUFFICES ASSUME Init PROVE Budget
  OBVIOUS
<1>1. /\ Cardinality(Numbers(<<>>, "RUNNING")) = 0
      /\ Cardinality(Numbers(<<Attempt("RUNNING", 0, "NONE")>>, "RUNNING")) = 1
  <2>1. Numbers(<<>>, "RUNNING") = {}
    BY DEF Numbers
  <2>2. Numbers(<<Attempt("RUNNING", 0, "NONE")>>, "RUNNING") = {1}
    BY DEF Numbers, Attempt
  <2> QED
    BY <2>1, <2>2, FS_EmptySet, FS_Singleton
<1>2. \A s \in Scans : \/ attempts[s] = <<>> /\ fetches[s] = 0
                       \/ attempts[s] = <<Attempt("RUNNING", 0, "NONE")>> /\ fetches[s] = 1
  BY DEF Init, FreshInit, LegacyInit
<1>3. \A w \in Workers : pc[w] = "idle"
  BY DEF Init, ProcessInit
<1> QED
  BY <1>1, <1>2, <1>3, ConstantsAssumption DEF Budget, Running
-----------------------------------------------------------------------------
(* The ledger of a scan *)

Phases == [s \in Scans |-> Phase(s)]
Judgement(list, status) == IF status = "COMPLETED" THEN Verdict(list) ELSE "NONE"
Judgements == [s \in Scans |-> Judgement(attempts[s], scans[s])]

(* The verdict of a completed scan is on record; before that the attempts  *)
(* of a scan do not count.                                                 *)
LEMMA LedgerStutters ==
  ASSUME UNCHANGED <<scans, runs, fetches>>,
         \A t \in Scans : scans[t] = "COMPLETED" => attempts'[t] = attempts[t]
  PROVE  UNCHANGED <<Phases, fetches, Judgements>>
<1>1. Phases' = Phases
  BY DEF Phases, Phase
<1>2. \A t \in Scans : Judgement(attempts'[t], scans'[t]) = Judgement(attempts[t], scans[t])
  BY DEF Judgement
<1>3. Judgements' = Judgements
  BY <1>2 DEF Judgements
<1> QED
  BY <1>1, <1>3

(* A step that moves one scan from a phase to another. *)
LEMMA PhaseMoves ==
  ASSUME NEW s \in Scans, NEW from, NEW to, Phase(s) = from, Phase(s)' = to,
         \A t \in Scans \ {s} : scans'[t] = scans[t] /\ runs'[t] = runs[t]
  PROVE  Ledger!Move(s, from, to)
<1>1. \A t \in Scans \ {s} : Phase(t)' = Phase(t)
  BY DEF Phase
<1>2. Phases' = [Phases EXCEPT ![s] = to]
  BY <1>1 DEF Phases, Phase
<1>3. Phases[s] = from
  BY DEF Phases
<1> QED
  BY <1>2, <1>3 DEF Ledger!Move, Phases

(* The first worker of a scan opens it, later ones change nothing. *)
LEMMA CreateOrRecoverOpens ==
  ASSUME Control, NEW w \in Workers, NEW s \in Scans, s = work[w], CreateOrRecover(w)
  PROVE  Ledger!Open(s) \/ UNCHANGED <<Phases, fetches, Judgements>>
<1>1. /\ scans[s] # "COMPLETED" /\ scans' = [scans EXCEPT ![s] = "RUNNING"]
      /\ UNCHANGED <<attempts, runs, fetches>>
  BY DEF CreateOrRecover, history
<1>2. scans \in [Scans -> {"ABSENT", "RUNNING", "COMPLETED"}]
  BY DEF Control, TypeOK, StoresOK
<1>3. scans'[s] = "RUNNING" /\ \A t \in Scans \ {s} : scans'[t] = scans[t]
  BY <1>1, <1>2
<1>4. Judgements' = Judgements
  <2>1. \A t \in Scans : Judgement(attempts'[t], scans'[t]) = Judgement(attempts[t], scans[t])
    BY <1>1, <1>3 DEF Judgement
  <2> QED
    BY <2>1 DEF Judgements
<1>5. CASE runs[s] = None /\ scans[s] = "ABSENT"
  <2>1. Phase(s) = "NEW" /\ Phase(s)' = "OPEN"
    BY <1>1, <1>3, <1>5 DEF Phase
  <2>2. Ledger!Move(s, "NEW", "OPEN")
    BY <1>1, <1>3, <2>1, PhaseMoves
  <2> QED
    BY <1>1, <1>4, <2>2 DEF Ledger!Open, Judgements, Judgement
<1>6. CASE runs[s] # None \/ scans[s] = "RUNNING"
  <2>1. \A t \in Scans : Phase(t)' = Phase(t)
    BY <1>1, <1>3, <1>6 DEF Phase
  <2>2. Phases' = Phases
    BY <2>1 DEF Phases
  <2> QED
    BY <1>1, <1>4, <2>2
<1> QED
  BY <1>1, <1>2, <1>5, <1>6

(* A provider call is one of the ledger, within its budget. *)
LEMMA FetchCallsProvider ==
  ASSUME Control, Trail, Budget, NEW w \in Workers, NEW s \in Scans, s = work[w], Fetch(w)
  PROVE  Ledger!CallProvider(s)
<1>1. pc[w] = "fetch"
  BY DEF Fetch, At
<1>2. runs[s] = None /\ scans[s] = "RUNNING" /\ fetches[s] < MaxProviderAttempts
  <2>1. fetches[s] < Running(s) /\ Running(s) <= MaxProviderAttempts
    BY <1>1 DEF Budget
  <2>2. Running(s) \in Nat /\ fetches[s] \in Nat
    BY RunningCounts DEF Running, Control, TypeOK, StoresOK, HistoryOK
  <2>3. fetches[s] < MaxProviderAttempts
    BY <2>1, <2>2, ConstantsAssumption
  <2> QED
    BY <1>1, <2>3, AtWork DEF Control, RunAtHand, Searching, WorkerTrail, Outside
<1>3. Phases[s] = "OPEN"
  BY <1>2 DEF Phases, Phase
<1>4. UNCHANGED <<scans, runs, attempts>> /\ fetches' = [fetches EXCEPT ![s] = @ + 1]
  BY DEF Fetch, stores
<1>5. Phases' = Phases /\ Judgements' = Judgements
  BY <1>4 DEF Phases, Phase, Judgements
<1> QED
  BY <1>2, <1>3, <1>4, <1>5 DEF Ledger!CallProvider, Phases, Judgements, Judgement

(* Storing the run decides the scan, a refused evaluation does not. *)
LEMMA DecideDecides ==
  ASSUME Control, Trail, Budget, NEW w \in Workers, NEW s \in Scans, s = work[w], Decide(w)
  PROVE  Ledger!Decide(s) \/ UNCHANGED <<Phases, fetches, Judgements>>
<1>1. pc[w] = "decide"
  BY DEF Decide, At
<1>2. runs[s] = None /\ scans[s] = "RUNNING" /\ fetches[s] > 0
  BY <1>1, AtWork DEF Control, RunAtHand, Searching, WorkerTrail, Outside, Budget
<1>3. UNCHANGED <<scans, attempts, fetches>>
  BY DEF Decide
<1>4. CASE UNCHANGED runs
  BY <1>3, <1>4, LedgerStutters
<1>5. CASE ~UNCHANGED runs
  <2>1. PICK c \in Candidates : runs' = [runs EXCEPT ![s] = c]
    <3>1. PICK p \in Proposals : \E r \in Evaluated(seen[w], p) :
            runs' = [runs EXCEPT ![s] =
              [prev |-> seen[w].state, prevHalted |-> seen[w].halted,
               next |-> r.state, nextHalted |-> r.halted, intent |-> r.intent]]
      BY <1>5 DEF Decide
    <3>2. Evaluated(seen[w], p) \subseteq Results /\ seen[w] \in Records
      BY DEF Evaluated, Allowed, Control, TypeOK, ProcessOK
    <3> QED
      BY <3>1, <3>2 DEF Results, Records, Candidates
  <2>2. /\ runs'[s] # None
        /\ \A t \in Scans \ {s} : runs'[t] = runs[t]
    BY <2>1, NoneAssumption DEF Control, TypeOK, StoresOK
  <2>3. Phase(s) = "OPEN" /\ Phase(s)' = "DECIDED"
    BY <1>2, <1>3, <2>2 DEF Phase
  <2>4. Ledger!Move(s, "OPEN", "DECIDED")
    BY <1>3, <2>2, <2>3, PhaseMoves
  <2>5. Judgements' = Judgements
    BY <1>3 DEF Judgements
  <2> QED
    BY <1>2, <1>3, <2>4, <2>5 DEF Ledger!Decide, Judgements, Judgement
<1> QED
  BY <1>4, <1>5

(* A scan completes with the verdict of its attempts. *)
LEMMA AttachCompletes ==
  ASSUME Control, Trail, NEW w \in Workers, NEW s \in Scans, s = work[w], Attach(w)
  PROVE  Ledger!Complete(s) \/ UNCHANGED <<Phases, fetches, Judgements>>
<1>1. pc[w] \in {"attach", "attachSuperseded"}
  BY DEF Attach, At
<1>2. runs[s] # None /\ Verdict(attempts[s]) \in Verdicts
  BY <1>1, AtWork DEF Control, RunAtHand, Finalizing, WorkerTrail, Verdicts
<1>3. UNCHANGED <<attempts, runs, fetches>>
  BY DEF Attach, history
<1>4. CASE UNCHANGED scans
  BY <1>3, <1>4, LedgerStutters
<1>5. CASE scans[s] = "RUNNING" /\ scans' = [scans EXCEPT ![s] = "COMPLETED"]
  <2>1. scans'[s] = "COMPLETED" /\ \A t \in Scans \ {s} : scans'[t] = scans[t]
    BY <1>5 DEF Control, TypeOK, StoresOK
  <2>2. Phase(s) = "DECIDED" /\ Phase(s)' = "COMPLETED"
    BY <1>2, <1>5, <2>1 DEF Phase
  <2>3. Ledger!Move(s, "DECIDED", "COMPLETED")
    BY <1>3, <2>1, <2>2, PhaseMoves
  <2>4. Judgements' = [Judgements EXCEPT ![s] = Verdict(attempts[s])]
    <3>1. Judgement(attempts'[s], scans'[s]) = Verdict(attempts[s])
      BY <1>3, <2>1 DEF Judgement
    <3>2. \A t \in Scans \ {s} :
            Judgement(attempts'[t], scans'[t]) = Judgement(attempts[t], scans[t])
      BY <1>3, <2>1
    <3> QED
      BY <3>1, <3>2 DEF Judgements
  <2> QED
    BY <1>2, <1>3, <2>3, <2>4 DEF Ledger!Complete, Judgements, Judgement, Verdicts
<1> QED
  BY <1>4, <1>5 DEF Attach

(* Every step keeps or advances the ledger of the scan it is about. *)
LEMMA NextKeepsLedger ==
  Control /\ Trail /\ Budget /\ [Next]_vars => [Ledger!Next]_(Ledger!ledgerVars)
<1> SUFFICES ASSUME Control, Trail, Budget, [Next]_vars
             PROVE  Ledger!Next \/ UNCHANGED <<Phases, fetches, Judgements>>
  BY DEF Ledger!ledgerVars, Phases, Judgements, Judgement
<1>1. ASSUME NEW w \in Workers, Step(w) \/ Raise(w)
      PROVE  Ledger!Next \/ UNCHANGED <<Phases, fetches, Judgements>>
  <2>1. pc[w] # "idle"
    BY <1>1, WorkingMoves DEF Working, Moves, Decide, Release, At
  <2>2. PICK s \in Scans : s = work[w]
    BY <2>1 DEF Control, Leased
  <2>3. CASE OpenAttempt(w)
    <3>1. UNCHANGED <<scans, runs, fetches>> /\ scans[s] = "RUNNING"
      BY <2>1, <2>2, <2>3, AtWork DEF OpenAttempt, At, history, WorkerTrail, Outside
    <3>2. \A t \in Scans \ {s} : attempts'[t] = attempts[t]
      BY <2>2, <2>3 DEF OpenAttempt, Record, Control, TypeOK, StoresOK
    <3> QED
      BY <3>1, <3>2, LedgerStutters
  <2>4. CASE Fetch(w)
    BY <2>2, <2>4, FetchCallsProvider DEF Ledger!Next
  <2>5. CASE CreateOrRecover(w)
    BY <2>2, <2>5, CreateOrRecoverOpens DEF Ledger!Next
  <2>6. CASE Decide(w)
    BY <2>2, <2>6, DecideDecides DEF Ledger!Next
  <2>7. CASE Attach(w)
    BY <2>2, <2>7, AttachCompletes DEF Ledger!Next
  <2>8. CASE ~OpenAttempt(w) /\ ~Fetch(w) /\ ~CreateOrRecover(w) /\ ~Decide(w) /\ ~Attach(w)
    <3>1. PICK l \in Labels : Tidies(w, s, l)
      BY <1>1, <2>2, <2>8, MostStepsTidy
    <3>2. pc[w] \notin Outside => scans[s] = "RUNNING"
      BY <2>1, <2>2, AtWork DEF WorkerTrail
    <3>3. \A t \in Scans : scans[t] = "COMPLETED" => attempts'[t] = attempts[t]
      BY <3>1, <3>2 DEF Tidies, Record, Control, TypeOK, StoresOK
    <3> QED
      BY <3>1, <3>3, LedgerStutters DEF Tidies
  <2> QED
    BY <2>3, <2>4, <2>5, <2>6, <2>7, <2>8
<1>2. CASE Crash \/ (\E w \in Workers, s \in Scans : Call(w, s)) \/ UNCHANGED vars
  <2>1. UNCHANGED <<scans, runs, fetches, attempts>>
    BY <1>2 DEF Crash, Call, Refuse, Duplicate, Acquire, vars, stores, history
  <2> QED
    BY <2>1, LedgerStutters
<1> QED
  BY <1>1, <1>2 DEF Next

(* A migrated run is a decided scan whose provider was called once. *)
LEMMA InitLedger == Init => Ledger!Init
<1> SUFFICES ASSUME Init PROVE Ledger!Init
  OBVIOUS
<1>1. LegacyRun # None
  <2>1. LegacyRun \in Candidates
    BY DEF LegacyRun, Candidates, States
  <2> QED
    BY <2>1, NoneAssumption
<1>2. \A s \in Scans : \/ scans[s] = "ABSENT" /\ runs[s] = None /\ fetches[s] = 0
                       \/ scans[s] = "RUNNING" /\ runs[s] # None /\ fetches[s] = 1
  BY <1>1 DEF Init, FreshInit, LegacyInit
<1>3. Phases \in [Scans -> {"NEW", "DECIDED"}]
  BY <1>2 DEF Phases, Phase
<1>4. \A s \in Scans : fetches[s] = IF Phases[s] = "NEW" THEN 0 ELSE 1
  BY <1>2 DEF Phases, Phase
<1>5. fetches = [s \in Scans |-> fetches[s]]
  BY InitControl DEF Control, TypeOK, HistoryOK
<1>6. fetches = [s \in Scans |-> IF Phases[s] = "NEW" THEN 0 ELSE 1]
  BY <1>4, <1>5
<1>7. Judgements = [s \in Scans |-> "NONE"]
  BY <1>2 DEF Judgements, Judgement
<1> QED
  BY <1>3, <1>6, <1>7 DEF Ledger!Init, Phases, Judgements, Judgement

(* Each scan keeps the ledger of docs/idempotency.md: provider calls within *)
(* the budget and none once a run is stored, one run, one verdict that      *)
(* never changes, whatever callers retry and however often it crashes.      *)
THEOREM ScansKeepTheirLedger == Spec => ImplementsLedger
<1>1. Spec => []Budget
  BY InitBudget, NextBudget, ControlIsInvariant, TrailIsInvariant, PTL DEF Spec
<1>2. Spec => Ledger!Spec
  BY <1>1, InitLedger, NextKeepsLedger, ControlIsInvariant, TrailIsInvariant, PTL
     DEF Spec, Ledger!Spec
<1> QED
  BY <1>2 DEF ImplementsLedger
=============================================================================
