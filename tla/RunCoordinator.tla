--------------------------- MODULE RunCoordinator ---------------------------
(***************************************************************************)
(* RunCoordinator.run (app/application/run_coordinator.py) for the scans   *)
(* of one rotation plan.  A worker is a thread that serves an API request  *)
(* or a scheduler tick; a scan is one scan-lock key.  The lock keeps two   *)
(* workers off one scan, but the scans of a plan run side by side and      *)
(* contend on the plan's recommendation record, which each of them reads,  *)
(* evaluates against and only later replaces by compare-and-set.           *)
(*                                                                         *)
(* One action is one call that changes a store or reads the shared record, *)
(* with the reads of the worker's own scan before it: nobody else touches  *)
(* the attempts, the run and the intent of a scan while its lock is held   *)
(* (LockExclusion).  A scan has at most one strategy run, so a scan's name *)
(* also names its run, its final key and its notification intent.  Raise   *)
(* is a repository call that raises before it changes anything, Crash the  *)
(* loss of the process: leases and local variables go, stores stay.        *)
(***************************************************************************)
EXTENDS RecommendationMachine, Naturals, Sequences, FiniteSets

CONSTANTS
  Workers, Scans,
  MaxProviderAttempts,   \* max_provider_attempts of the constructor
  Proposals,             \* what the evaluator may return
  Starts,                \* (state, halted) of the record before these scans
  LegacyScans,           \* scans an unfenced 0002-era run may survive of
  MaxDisruptions,        \* bound on Raise and Crash together
  None, EarlierRun       \* no run or worker; a run of a scan outside Scans

ASSUME ConstantsAssumption ==
  /\ MaxProviderAttempts \in Nat \ {0}
  /\ Proposals \subseteq AllProposals
  /\ Starts \subseteq States \X BOOLEAN
  /\ LegacyScans \subseteq Scans
  /\ MaxDisruptions \in Nat
  /\ None \notin Workers \cup Scans
  /\ EarlierRun \notin Scans \cup {None}

VARIABLES
  \* the stores
  rec,       \* the plan's RecommendationStateRecord
  scans,     \* status of each logical scan
  attempts,  \* the attempts of each scan, in attempt_number order
  runs,      \* the strategy run of each scan: its transition evidence
  intents,   \* the scans whose run has a notification intent
  \* the process
  locks,     \* the worker that holds each scan's lease
  pc,        \* where each worker is in run()
  work,      \* the scan it serves, or served last; None when turned away
  fresh,     \* TRUE in run(), FALSE in _recover_pending_finalization
  seen,      \* the record it read last
  opened,    \* the attempt number of its RUNNING attempt
  result,    \* the disposition it returned last
  \* the bound
  disruptions,  \* how many exceptions and crashes are still to come
  \* history
  fetches,   \* provider calls per scan
  applied,   \* the revision a scan's run was applied at, 0 when never
  basis,     \* the revision a scan's run was evaluated against
  degradedAt \* the revision of the last change to DATA_DEGRADED

stores == <<rec, scans, attempts, runs, intents>>
locals == <<work, fresh, seen, opened>>
history == <<fetches, applied, basis, degradedAt>>
vars == <<stores, locks, pc, locals, result, disruptions, history>>

Records == [state : States, halted : BOOLEAN, revision : Nat,
            fence : Scans \cup {None, EarlierRun}, claim : Scans \cup {None}]

(* _FinalizationEvidence: what the outputs of a strategy run keep. *)
Candidates == [prev : States, prevHalted : BOOLEAN, next : States,
               nextHalted : BOOLEAN, intent : BOOLEAN]

Attempts == [status : {"RUNNING", "FAILED", "DEGRADED", "SUCCEEDED"},
             recoveryOf : Nat,
             disposition : {"NONE", "APPLIED", "SUPERSEDED"}]

ASSUME NoneAssumption == None \notin Candidates

Labels == {"idle", "lookup", "open", "fetch", "degradeRead", "degradeWrite",
           "recordDegraded", "evaluate", "decide", "recordFailed", "recover",
           "adjudicate", "apply", "claim", "intent", "recordFinal",
           "recordSuperseded", "attach", "attachSuperseded", "release"}

Dispositions == {"COMPLETED", "API_CONFLICT", "SCHEDULER_SKIPPED", "DEGRADED",
                 "SUPERSEDED", "FAILED", "RETRY_EXHAUSTED"}

Returned == Dispositions \cup {"NONE", "REFUSED", "ERROR"}
Blank == [state |-> "IDLE", halted |-> FALSE, revision |-> 0,
          fence |-> None, claim |-> None]
-----------------------------------------------------------------------------
(* Attempts *)

Attempt(status, recoveryOf, disposition) ==
  [status |-> status, recoveryOf |-> recoveryOf, disposition |-> disposition]

Numbers(list, status) == {n \in 1..Len(list) : list[n].status = status}

(* The latest SUCCEEDED attempt's disposition, "NONE" without one. *)
Verdict(list) ==
  LET done == Numbers(list, "SUCCEEDED")
  IN IF done = {} THEN "NONE"
     ELSE list[CHOOSE n \in done : \A m \in done : m <= n].disposition

(* validate_scan_attempt_append; attempt numbers are positions. *)
Admissible(list, a) ==
  IF Numbers(list, "SUCCEEDED") # {} THEN a.status = "SUCCEEDED"
  ELSE a.recoveryOf = Len(list)

(* record_attempt of an attempt the store admits. *)
Record(s, a) == attempts' = [attempts EXCEPT ![s] = Append(@, a)]

(* _record_recovered_final_attempt: reuse the final attempt that already   *)
(* says so, else append one.                                               *)
RecordVerdict(s, disposition) ==
  IF Verdict(attempts[s]) = disposition THEN UNCHANGED attempts
  ELSE Record(s, Attempt("SUCCEEDED", Len(attempts[s]), disposition))
-----------------------------------------------------------------------------
(* The recommendation record *)

(* Mutant: the replacement is not conditional. *)
UnchangedAlways(w) == TRUE

(* record_transition: compare the whole record and set. *)
Unchanged(w) == rec = seen[w]

Replace(state, halted, fence) ==
  rec' = [rec EXCEPT !.state = state, !.halted = halted,
                     !.revision = @ + 1, !.fence = fence]

DegradedEvidence ==
  [event |-> "DATA_DEGRADED", planValid |-> FALSE, data |-> "DEGRADED",
   rule |-> "NOT_EVALUATED", sizing |-> "NOT_VALIDATED", authorized |-> FALSE,
   confirmed |-> FALSE, confirmation |-> "PARTIAL", source |-> "none",
   quantity |-> "none"]

(* The evaluation of p that the coordinator turns into a run: an           *)
(* unauthorized sale source and a passed sizing without one are refused    *)
(* before the machine sees them.                                           *)
Evaluated(r0, p) ==
  {r \in Allowed(r0.state, r0.halted, p) :
     /\ p.source # "unauthorized"
     /\ p.event = "DECISION_VALIDATED" /\ p.sizing = "PASSED" => p.source # "none"}
-----------------------------------------------------------------------------
(* Control *)

Goto(w, label) == pc' = [pc EXCEPT ![w] = label]

(* Return disposition d: the finally clause still has to release. *)
Return(w, d) ==
  /\ Goto(w, "release")
  /\ result' = [result EXCEPT ![w] = d]

(* An exception while a fresh candidate is decided is audited as a FAILED  *)
(* attempt; in a recovery it leaves the finalization pending.              *)
Abandon(w) ==
  IF fresh[w] THEN Goto(w, "recordFailed") /\ UNCHANGED result
  ELSE Return(w, "FAILED")

At(w, label) == pc[w] = label

FreshInit ==
  /\ scans = [s \in Scans |-> "ABSENT"]
  /\ attempts = [s \in Scans |-> <<>>]
  /\ runs = [s \in Scans |-> None]
  /\ intents = {}
  /\ \E start \in Starts :
       rec = [state |-> start[1], halted |-> start[2], revision |-> 0,
              fence |-> IF start[1] = "IDLE" THEN None ELSE EarlierRun,
              claim |-> None]
  /\ fetches = [s \in Scans |-> 0]
  /\ applied = [s \in Scans |-> 0]

(* A database migrated from 0002: a run whose transition and intent were   *)
(* persisted before fences existed, and whose success was never audited.   *)
(* 0005 claims the record for it when the notification intent proves it,   *)
(* and marks NO_CLAIM otherwise.                                           *)
LegacyRun == [prev |-> "ACTION_PENDING", prevHalted |-> FALSE,
              next |-> "ACTION_NOTIFIED", nextHalted |-> FALSE, intent |-> TRUE]

LegacyInit(l, claimed) ==
  /\ scans = [s \in Scans |-> IF s = l THEN "RUNNING" ELSE "ABSENT"]
  /\ attempts = [s \in Scans |-> IF s = l THEN <<Attempt("RUNNING", 0, "NONE")>> ELSE <<>>]
  /\ runs = [s \in Scans |-> IF s = l THEN LegacyRun ELSE None]
  /\ intents = IF claimed THEN {l} ELSE {}
  /\ rec = [state |-> "ACTION_NOTIFIED", halted |-> FALSE, revision |-> 1,
            fence |-> None, claim |-> IF claimed THEN l ELSE None]
  /\ fetches = [s \in Scans |-> IF s = l THEN 1 ELSE 0]
  /\ applied = [s \in Scans |-> IF s = l /\ claimed THEN 1 ELSE 0]

ProcessInit ==
  /\ locks = [s \in Scans |-> None]
  /\ pc = [w \in Workers |-> "idle"]
  /\ work = [w \in Workers |-> None]
  /\ fresh = [w \in Workers |-> TRUE]
  /\ seen = [w \in Workers |-> Blank]
  /\ opened = [w \in Workers |-> 0]
  /\ result = [w \in Workers |-> "NONE"]
  /\ disruptions = MaxDisruptions
  /\ basis = [s \in Scans |-> 0]
  /\ degradedAt = 0

Init ==
  /\ FreshInit \/ \E l \in LegacyScans, claimed \in BOOLEAN : LegacyInit(l, claimed)
  /\ ProcessInit
-----------------------------------------------------------------------------
(* Entry: the checks before the lock, the lock, and its loser. *)

(* The plan or the configuration snapshot of the request is refused. *)
Refuse(w) ==
  /\ At(w, "idle")
  /\ work' = [work EXCEPT ![w] = None]
  /\ result' = [result EXCEPT ![w] = "REFUSED"]
  /\ UNCHANGED <<stores, locks, pc, fresh, seen, opened, disruptions, history>>

Duplicate(w, s) ==
  /\ At(w, "idle")
  /\ locks[s] # None
  /\ work' = [work EXCEPT ![w] = None]
  /\ \E d \in {"API_CONFLICT", "SCHEDULER_SKIPPED"} :
       result' = [result EXCEPT ![w] = d]
  /\ UNCHANGED <<stores, locks, pc, fresh, seen, opened, disruptions, history>>

(* Mutant: the lock provider grants a lease that is already held. *)
AcquireHeld(w, s) ==
  /\ At(w, "idle")
  /\ locks' = [locks EXCEPT ![s] = w]
  /\ work' = [work EXCEPT ![w] = s]
  /\ result' = [result EXCEPT ![w] = "NONE"]
  /\ Goto(w, "lookup")
  /\ UNCHANGED <<stores, fresh, seen, opened, disruptions, history>>

Acquire(w, s) ==
  /\ At(w, "idle")
  /\ locks[s] = None
  /\ locks' = [locks EXCEPT ![s] = w]
  /\ work' = [work EXCEPT ![w] = s]
  /\ result' = [result EXCEPT ![w] = "NONE"]
  /\ Goto(w, "lookup")
  /\ UNCHANGED <<stores, fresh, seen, opened, disruptions, history>>

(* Mutant: whoever finds the scan completed is told COMPLETED. *)
AnswerAnyCompleted(w) ==
  /\ At(w, "lookup")
  /\ scans[work[w]] = "COMPLETED"
  /\ Return(w, "COMPLETED")
  /\ UNCHANGED <<stores, locks, locals, disruptions, history>>

(* _completed_result. *)
AnswerCompleted(w) ==
  LET s == work[w] IN
  /\ At(w, "lookup")
  /\ scans[s] = "COMPLETED"
  /\ IF Verdict(attempts[s]) = "NONE" THEN RecordVerdict(s, "APPLIED")
     ELSE UNCHANGED attempts
  /\ Return(w, IF Verdict(attempts[s]) = "SUPERSEDED" THEN "SUPERSEDED" ELSE "COMPLETED")
  /\ UNCHANGED <<rec, scans, runs, intents, locks, locals, disruptions, history>>

(* create_or_recover, then get_for_logical_scan. *)
CreateOrRecover(w) ==
  LET s == work[w] IN
  /\ At(w, "lookup")
  /\ scans[s] # "COMPLETED"
  /\ scans' = [scans EXCEPT ![s] = "RUNNING"]
  /\ fresh' = [fresh EXCEPT ![w] = runs[s] = None]
  /\ Goto(w, IF runs[s] = None THEN "open" ELSE "recover")
  /\ UNCHANGED <<rec, attempts, runs, intents, locks, work, seen, opened, result,
                 disruptions, history>>

(* Mutant: off by one in the provider budget. *)
ExhaustedLate(s) ==
  Cardinality(Numbers(attempts[s], "RUNNING")) > MaxProviderAttempts

Exhausted(s) ==
  Cardinality(Numbers(attempts[s], "RUNNING")) >= MaxProviderAttempts

RetryExhausted(w) ==
  /\ At(w, "open")
  /\ Exhausted(work[w])
  /\ Return(w, "RETRY_EXHAUSTED")
  /\ UNCHANGED <<stores, locks, locals, disruptions, history>>

(* Mutant: the new attempt names its predecessor's predecessor. *)
OpenAttemptMislinked(w) ==
  LET s == work[w] IN
  /\ At(w, "open")
  /\ ~Exhausted(s)
  /\ Record(s, Attempt("RUNNING", Len(attempts[s]) - 1, "NONE"))
  /\ opened' = [opened EXCEPT ![w] = Len(attempts[s]) + 1]
  /\ Goto(w, "fetch")
  /\ UNCHANGED <<rec, scans, runs, intents, locks, work, fresh, seen, result,
                 disruptions, history>>

(* Mutant: a retry does not name the attempt it recovers. *)
OpenAttemptUnlinked(w) ==
  LET s == work[w] IN
  /\ At(w, "open")
  /\ ~Exhausted(s)
  /\ Record(s, Attempt("RUNNING", 0, "NONE"))
  /\ opened' = [opened EXCEPT ![w] = Len(attempts[s]) + 1]
  /\ Goto(w, "fetch")
  /\ UNCHANGED <<rec, scans, runs, intents, locks, work, fresh, seen, result,
                 disruptions, history>>

(* _record_running_attempt. *)
OpenAttempt(w) ==
  LET s == work[w] IN
  /\ At(w, "open")
  /\ ~Exhausted(s)
  /\ Record(s, Attempt("RUNNING", Len(attempts[s]), "NONE"))
  /\ opened' = [opened EXCEPT ![w] = Len(attempts[s]) + 1]
  /\ Goto(w, "fetch")
  /\ UNCHANGED <<rec, scans, runs, intents, locks, work, fresh, seen, result,
                 disruptions, history>>

(* get_market_snapshot raises or returns no snapshot, returns degraded     *)
(* evidence, or returns an actionable snapshot.                            *)
Fetch(w) ==
  /\ At(w, "fetch")
  /\ fetches' = [fetches EXCEPT ![work[w]] = @ + 1]
  /\ \E next \in {"recordFailed", "degradeRead", "evaluate"} : Goto(w, next)
  /\ UNCHANGED <<stores, locks, locals, result, disruptions, applied, basis, degradedAt>>
-----------------------------------------------------------------------------
(* Degraded evidence *)

DegradeRead(w) ==
  /\ At(w, "degradeRead")
  /\ seen' = [seen EXCEPT ![w] = rec]
  /\ Goto(w, IF rec.state = "IDLE" THEN "recordDegraded"
             ELSE IF Allowed(rec.state, rec.halted, DegradedEvidence) = {}
             THEN "recordFailed" ELSE "degradeWrite")
  /\ UNCHANGED <<stores, locks, work, fresh, opened, result, disruptions, history>>

(* Mutant: the degradation leaves the fence of the run it displaces. *)
DegradeWriteKeepsFence(w) ==
  /\ At(w, "degradeWrite")
  /\ Unchanged(w)
  /\ \E r \in Allowed(rec.state, rec.halted, DegradedEvidence) :
       Replace(r.state, r.halted, rec.fence)
  /\ Goto(w, "recordDegraded")
  /\ UNCHANGED <<scans, attempts, runs, intents, locks, locals, result,
                 disruptions, history>>

(* record_transition without a fence: it clears the one there is. *)
DegradeWrite(w) ==
  /\ At(w, "degradeWrite")
  /\ \/ /\ Unchanged(w)
        /\ \E r \in Allowed(rec.state, rec.halted, DegradedEvidence) :
             /\ Replace(r.state, r.halted, None)
             /\ degradedAt' = IF r.state # rec.state THEN rec.revision + 1 ELSE degradedAt
        /\ Goto(w, "recordDegraded")
     \/ /\ ~Unchanged(w)
        /\ Goto(w, "recordFailed")
        /\ UNCHANGED <<rec, degradedAt>>
  /\ UNCHANGED <<scans, attempts, runs, intents, locks, locals, result, disruptions,
                 fetches, applied, basis>>

(* _record_terminal_attempt. *)
RecordDegraded(w) ==
  /\ At(w, "recordDegraded")
  /\ Record(work[w], Attempt("DEGRADED", opened[w], "NONE"))
  /\ Return(w, "DEGRADED")
  /\ UNCHANGED <<rec, scans, runs, intents, locks, locals, disruptions, history>>

(* _failed_result. *)
RecordFailed(w) ==
  /\ At(w, "recordFailed")
  /\ Record(work[w], Attempt("FAILED", opened[w], "NONE"))
  /\ Return(w, "FAILED")
  /\ UNCHANGED <<rec, scans, runs, intents, locks, locals, disruptions, history>>
-----------------------------------------------------------------------------
(* Evaluation and finalization *)

(* get_or_create of the record the evaluation will be judged against. *)
EvaluateRead(w) ==
  /\ At(w, "evaluate")
  /\ seen' = [seen EXCEPT ![w] = rec]
  /\ Goto(w, "decide")
  /\ UNCHANGED <<stores, locks, work, fresh, opened, result, disruptions, history>>

(* evaluate, build_strategy_run and record_or_get: the run keeps the       *)
(* transition from the record that was read, whatever it is by now.        *)
Decide(w) ==
  LET s == work[w] IN
  /\ At(w, "decide")
  /\ \E p \in Proposals :
       \/ \E r \in Evaluated(seen[w], p) :
            /\ runs' = [runs EXCEPT ![s] =
                 [prev |-> seen[w].state, prevHalted |-> seen[w].halted,
                  next |-> r.state, nextHalted |-> r.halted, intent |-> r.intent]]
            /\ basis' = [basis EXCEPT ![s] = seen[w].revision]
            /\ Goto(w, "adjudicate")
       \/ /\ Evaluated(seen[w], p) = {}
          /\ Goto(w, "recordFailed")
          /\ UNCHANGED <<runs, basis>>
  /\ UNCHANGED <<rec, scans, attempts, intents, locks, locals, result, disruptions,
                 fetches, applied, degradedAt>>

(* Mutant: only a finalization already audited as applied is finished. *)
RecoverOnlyApplied(w) ==
  LET s == work[w] IN
  /\ At(w, "recover")
  /\ IF Verdict(attempts[s]) = "APPLIED" THEN Goto(w, "attach") /\ UNCHANGED result
     ELSE Return(w, "FAILED")
  /\ UNCHANGED <<stores, locks, locals, disruptions, history>>

(* _existing_applied_finalization: audited as applied, nothing is judged   *)
(* again; its notification intent must be there.                           *)
Recover(w) ==
  LET s == work[w] IN
  /\ At(w, "recover")
  /\ IF \E n \in Numbers(attempts[s], "SUCCEEDED") :
          attempts[s][n].disposition # "SUPERSEDED"
     THEN IF runs[s].intent => s \in intents
          THEN Goto(w, "attach") /\ UNCHANGED result
          ELSE Return(w, "FAILED")
     ELSE Goto(w, "adjudicate") /\ UNCHANGED result
  /\ UNCHANGED <<stores, locks, locals, disruptions, history>>

(* The record carries the run's result, or still what it was read as.      *)
Reached(s) == rec.state = runs[s].next /\ rec.halted = runs[s].nextHalted
Waiting(s) == rec.state = runs[s].prev /\ rec.halted = runs[s].prevHalted

(* _is_legacy_pending_finalization. *)
LegacyPending(s) ==
  /\ rec.fence = None
  /\ rec.claim = s
  /\ scans[s] = "RUNNING"
  /\ runs[s].prev # runs[s].next \/ runs[s].prevHalted # runs[s].nextHalted
  /\ Numbers(attempts[s], "SUCCEEDED") = {}

(* Mutant: the notification intent is forgotten. *)
AfterEffectsSilent(s) == "recordFinal"

AfterEffects(s) == IF runs[s].intent THEN "intent" ELSE "recordFinal"

(* _ensure_finalization_effects reads the current record and compares it   *)
(* with the run's evidence; one of the four actions below follows.         *)
Adjudicates(w) ==
  /\ At(w, "adjudicate")
  /\ seen' = [seen EXCEPT ![w] = rec]
  /\ UNCHANGED <<stores, locks, work, fresh, opened, disruptions, history>>

FenceHeld(w) ==
  /\ Adjudicates(w)
  /\ Reached(work[w]) /\ rec.fence = work[w]
  /\ Goto(w, AfterEffects(work[w]))
  /\ UNCHANGED result

LegacyHeld(w) ==
  LET s == work[w] IN
  /\ Adjudicates(w)
  /\ Reached(s) /\ LegacyPending(s)
  /\ IF runs[s].intent => s \in intents
     THEN Goto(w, "claim") /\ UNCHANGED result
     ELSE Abandon(w)

StillWaiting(w) ==
  /\ Adjudicates(w)
  /\ ~Reached(work[w]) /\ Waiting(work[w])
  /\ Goto(w, "apply")
  /\ UNCHANGED result

Superseded(w) ==
  LET s == work[w] IN
  /\ Adjudicates(w)
  /\ IF Reached(s) THEN rec.fence # s /\ ~LegacyPending(s) ELSE ~Waiting(s)
  /\ Goto(w, "recordSuperseded")
  /\ UNCHANGED result

(* Mutant: losing the compare-and-set is taken for having won it. *)
ApplyIgnoresConflict(w) ==
  LET s == work[w] IN
  /\ At(w, "apply")
  /\ IF Unchanged(w)
     THEN /\ Replace(runs[s].next, runs[s].nextHalted, s)
          /\ applied' = [applied EXCEPT ![s] = rec.revision + 1]
     ELSE UNCHANGED <<rec, applied>>
  /\ Goto(w, AfterEffects(s))
  /\ UNCHANGED <<scans, attempts, runs, intents, locks, locals, result,
                 disruptions, fetches, basis, degradedAt>>

(* record_transition with the run's fence. *)
Apply(w) ==
  LET s == work[w] IN
  /\ At(w, "apply")
  /\ \/ /\ Unchanged(w)
        /\ Replace(runs[s].next, runs[s].nextHalted, s)
        /\ applied' = [applied EXCEPT ![s] = rec.revision + 1]
        /\ Goto(w, AfterEffects(s))
        /\ UNCHANGED result
     \/ /\ ~Unchanged(w)
        /\ Abandon(w)
        /\ UNCHANGED <<rec, applied>>
  /\ UNCHANGED <<scans, attempts, runs, intents, locks, locals, disruptions, fetches,
                 basis, degradedAt>>

(* The claimed legacy run backfills its fence; its intent already exists. *)
ClaimLegacy(w) ==
  LET s == work[w] IN
  /\ At(w, "claim")
  /\ \/ /\ Unchanged(w)
        /\ Replace(runs[s].next, runs[s].nextHalted, s)
        /\ applied' = [applied EXCEPT ![s] = rec.revision + 1]
        /\ Goto(w, "recordFinal")
        /\ UNCHANGED result
     \/ /\ ~Unchanged(w)
        /\ Abandon(w)
        /\ UNCHANGED <<rec, applied>>
  /\ UNCHANGED <<scans, attempts, runs, intents, locks, locals, disruptions, fetches,
                 basis, degradedAt>>

(* _record_notification_intent: deduplicated by its key. *)
RecordIntent(w) ==
  /\ At(w, "intent")
  /\ intents' = intents \cup {work[w]}
  /\ Goto(w, "recordFinal")
  /\ UNCHANGED <<rec, scans, attempts, runs, locks, locals, result, disruptions, history>>

RecordFinal(w) ==
  /\ At(w, "recordFinal")
  /\ RecordVerdict(work[w], "APPLIED")
  /\ Goto(w, "attach")
  /\ UNCHANGED <<rec, scans, runs, intents, locks, locals, result, disruptions, history>>

RecordSuperseded(w) ==
  /\ At(w, "recordSuperseded")
  /\ RecordVerdict(work[w], "SUPERSEDED")
  /\ Goto(w, "attachSuperseded")
  /\ UNCHANGED <<rec, scans, runs, intents, locks, locals, result, disruptions, history>>

(* attach_final_strategy_run: needs a SUCCEEDED attempt of the run. *)
Attach(w) ==
  LET s == work[w] IN
  /\ At(w, "attach") \/ At(w, "attachSuperseded")
  /\ IF scans[s] = "RUNNING" /\ Numbers(attempts[s], "SUCCEEDED") # {}
     THEN /\ scans' = [scans EXCEPT ![s] = "COMPLETED"]
          /\ Return(w, IF At(w, "attach") THEN "COMPLETED" ELSE "SUPERSEDED")
     ELSE /\ Return(w, "FAILED")
          /\ UNCHANGED scans
  /\ UNCHANGED <<rec, attempts, runs, intents, locks, locals, disruptions, history>>

(* Mutant: the lease is not given back. *)
ReleaseForgotten(w) ==
  /\ At(w, "release")
  /\ Goto(w, "idle")
  /\ UNCHANGED <<stores, locks, locals, result, disruptions, history>>

(* The finally clause; the locals go with the call. *)
Release(w) ==
  /\ At(w, "release")
  /\ locks' = [locks EXCEPT ![work[w]] = None]
  /\ Goto(w, "idle")
  /\ fresh' = [fresh EXCEPT ![w] = TRUE]
  /\ seen' = [seen EXCEPT ![w] = Blank]
  /\ opened' = [opened EXCEPT ![w] = 0]
  /\ UNCHANGED <<stores, work, result, disruptions, history>>
-----------------------------------------------------------------------------
(* Failures *)

(* Where an exception is caught, and what catching it does.                *)
Uncaught == {"lookup", "open", "recordDegraded", "recordFailed"}
Audited == {"degradeRead", "degradeWrite", "evaluate", "decide"}
Effects == {"adjudicate", "apply", "claim", "intent", "recordFinal"}
Settling == {"recover", "recordSuperseded", "attach", "attachSuperseded"}

Raise(w) ==
  /\ disruptions > 0
  /\ disruptions' = disruptions - 1
  /\ \/ pc[w] \in Uncaught /\ Return(w, "ERROR")
     \/ pc[w] \in Audited /\ Goto(w, "recordFailed") /\ UNCHANGED result
     \/ pc[w] \in Effects /\ Abandon(w)
     \/ pc[w] \in Settling /\ Return(w, "FAILED")
  /\ UNCHANGED <<stores, locks, locals, history>>

Crash ==
  /\ disruptions > 0
  /\ disruptions' = disruptions - 1
  /\ \E w \in Workers : pc[w] # "idle"
  /\ locks' = [s \in Scans |-> None]
  /\ pc' = [w \in Workers |-> "idle"]
  /\ work' = [w \in Workers |-> None]
  /\ fresh' = [w \in Workers |-> TRUE]
  /\ seen' = [w \in Workers |-> Blank]
  /\ opened' = [w \in Workers |-> 0]
  /\ result' = [w \in Workers |-> "NONE"]
  /\ UNCHANGED <<stores, history>>
-----------------------------------------------------------------------------
(* A call in progress goes on by itself; calls come from outside. *)
Step(w) ==
  \/ AnswerCompleted(w) \/ CreateOrRecover(w) \/ RetryExhausted(w) \/ OpenAttempt(w)
  \/ Fetch(w) \/ DegradeRead(w) \/ DegradeWrite(w) \/ RecordDegraded(w)
  \/ RecordFailed(w) \/ EvaluateRead(w) \/ Decide(w) \/ Recover(w) \/ FenceHeld(w)
  \/ LegacyHeld(w) \/ StillWaiting(w) \/ Superseded(w) \/ Apply(w)
  \/ ClaimLegacy(w) \/ RecordIntent(w) \/ RecordFinal(w) \/ RecordSuperseded(w)
  \/ Attach(w) \/ Release(w)

Call(w, s) == Refuse(w) \/ Duplicate(w, s) \/ Acquire(w, s)

Next ==
  \/ \E w \in Workers : Step(w) \/ Raise(w)
  \/ \E w \in Workers, s \in Scans : Call(w, s)
  \/ Crash

Spec == Init /\ [][Next]_vars

(* A thread that serves a request runs on until run() returns. *)
Fairness == \A w \in Workers : WF_vars(Step(w))

FairSpec == Spec /\ Fairness
-----------------------------------------------------------------------------
StoresOK ==
  /\ rec \in Records
  /\ scans \in [Scans -> {"ABSENT", "RUNNING", "COMPLETED"}]
  /\ attempts \in [Scans -> Seq(Attempts)]
  /\ runs \in [Scans -> Candidates \cup {None}]
  /\ intents \subseteq Scans

ProcessOK ==
  /\ locks \in [Scans -> Workers \cup {None}]
  /\ pc \in [Workers -> Labels]
  /\ work \in [Workers -> Scans \cup {None}]
  /\ fresh \in [Workers -> BOOLEAN]
  /\ seen \in [Workers -> Records]
  /\ opened \in [Workers -> Nat]
  /\ result \in [Workers -> Returned]
  /\ disruptions \in Nat

HistoryOK ==
  /\ fetches \in [Scans -> Nat]
  /\ applied \in [Scans -> Nat]
  /\ basis \in [Scans -> Nat]
  /\ degradedAt \in Nat

(* Type correctness of every store, local and history variable. *)
TypeOK == StoresOK /\ ProcessOK /\ HistoryOK

(* The lock comes before any work: a worker inside run() holds the lease   *)
(* of the scan it serves, so that no two of them ever fetch for, decide or *)
(* finalize the same scan.                                                 *)
LockExclusion == \A w \in Workers : pc[w] # "idle" => locks[work[w]] = w

(* The attempts of a scan are one recovery chain ("Enforce an immutable,   *)
(* sequential recovery chain"), across failures, lost processes and        *)
(* retries, and the store never refuses the FAILED or DEGRADED attempt     *)
(* that closes a provider call: _failed_result would raise out of run().   *)
AttemptChain ==
  /\ \A s \in Scans : \A n \in 1..Len(attempts[s]) :
       Admissible(SubSeq(attempts[s], 1, n - 1), attempts[s][n])
  /\ \A w \in Workers : pc[w] \in {"recordFailed", "recordDegraded"} =>
       Admissible(attempts[work[w]], Attempt("FAILED", opened[w], "NONE"))

(* An APPLIED final attempt is only ever written for a run whose           *)
(* transition reached the record, and whose notification intent exists if  *)
(* its decision asked for one: _existing_applied_finalization trusts it.   *)
AppliedIsReal ==
  \A s \in Scans :
    (\E n \in Numbers(attempts[s], "SUCCEEDED") :
       attempts[s][n].disposition = "APPLIED")
    => applied[s] > 0 /\ (runs[s].intent => s \in intents)

(* A notification intent exists only for a run that decided to notify and  *)
(* whose transition had won the record first: a loser notifies nobody.     *)
IntentFollowsTransition ==
  \A s \in intents : runs[s] # None /\ runs[s].intent /\ applied[s] > 0

(* The fence tells the truth: while the record names a run, it carries     *)
(* that run's result, written by that run's own compare-and-set.           *)
FenceNamesOwner ==
  \A s \in Scans : rec.fence = s =>
    /\ applied[s] = rec.revision
    /\ runs[s] # None /\ Reached(s)

(* Every caller that is told the scan's outcome is told the same one, and  *)
(* it is the one the audit trail keeps.                                    *)
CallersAgree ==
  \A w \in Workers :
    /\ result[w] = "COMPLETED" =>
         scans[work[w]] = "COMPLETED" /\ Verdict(attempts[work[w]]) = "APPLIED"
    /\ result[w] = "SUPERSEDED" =>
         scans[work[w]] = "COMPLETED" /\ Verdict(attempts[work[w]]) = "SUPERSEDED"
    /\ result[w] = "RETRY_EXHAUSTED" =>
         runs[work[w]] = None /\ Exhausted(work[w])

(* Every lease is given back: a call under way ends, whatever the          *)
(* repositories raise and whoever wins the record.                         *)
LeaseReturned == \A s \in Scans : locks[s] # None ~> locks[s] = None

(* "a bounded retry": a scan that its callers keep retrying is settled for *)
(* good, with a verdict or with its provider budget spent before any run   *)
(* was stored.  No candidate stays pending for ever.                       *)
Retried == \A s \in Scans : []<><<\E w \in Workers : Acquire(w, s)>>_vars

Settled(s) == scans[s] = "COMPLETED" \/ (runs[s] = None /\ Exhausted(s))

RetriedScansSettle == Retried => \A s \in Scans : <>[]Settled(s)
-----------------------------------------------------------------------------
(* Statements the code or its documents make and the model refutes. *)

(* _finalize_superseded_candidate: "Terminally audit a candidate that lost *)
(* its finalization fence without side effects": what is audited as        *)
(* SUPERSEDED never had its transition applied, before or after.           *)
SupersededWithoutEffect ==
  \A s \in Scans :
    (\E n \in Numbers(attempts[s], "SUCCEEDED") :
       attempts[s][n].disposition = "SUPERSEDED") => applied[s] = 0

(* "Recovery always requires a new full evaluation and never restores the  *)
(* old action": no run evaluated before the data degraded is applied after. *)
DegradationDiscards ==
  \A s \in Scans : applied[s] > 0 /\ basis[s] < degradedAt => applied[s] < degradedAt
=============================================================================
