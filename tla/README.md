# Verification of the stock swap monitor

The monitor watches rotation plans (sell a held instrument in stages, buy a
candidate) and produces *recommendations*; it never trades. An API call or a
scheduler tick asks `RunCoordinator.run` to perform one scan of one plan: lock
the scan, fetch one market snapshot, evaluate, step the plan's recommendation
state, record what was decided, and intend at most one notification. The code
is in `app/`, the promises in `docs/` (`state-machine.md`, `idempotency.md`, the
ADRs). This directory models it in TLA+, checks the models with TLC and proves
the most important results with TLAPS.

## 1. Inventory

| Part | State it keeps | Operations | Hard behaviour | What makes it correct |
|---|---|---|---|---|
| State machine (`state_machine/`) | none; a table of 12 states, 14 events, a halt flag | `transition` | long legal sequences | no revival of a stale signal, halts end by an explicit resume only, one notice per decision, completion is final |
| Run coordinator (`application/run_coordinator.py`) | none of its own; drives six stores | `run`, pending recovery, finalization, superseding | threads, crash between any two writes, retries, exceptions, contention on the plan's record | see 3.2 |
| Rotation run service (`services/`) | none | `evaluate`, `transition_degraded_data`, `build_strategy_run` | evaluates against a record that can be stale | the transition it stores is one of the table from the record it was given |
| In-memory stores (`persistence/in_memory.py`) | recommendation records, scans and attempts, runs, intents, leases, configuration, plans, positions | get-or-create, compare-and-set, append, attach, acquire, release | the atomic unit is one call | one recovery chain per scan, one run per scan, one intent per key |
| SQL stores (`persistence/repositories.py`, `models.py`, `mappers.py`) | the same, in tables | the same, under the caller's session | unique-constraint races, lost commits | same contracts as the in-memory stores |
| Migrations (`migrations/versions`) | schema; legacy claims | `upgrade` of 0005 | interrupted pre-fence runs, ambiguous evidence | a claim only for a unique, provable owner |
| Idempotency keys, child intents (`application/`) | none | scan-lock key, final key, intent key | retries | same inputs, same key |
| Configuration (`application/configuration.py`, `configuration_snapshots.py`) | immutable snapshots | seven-layer merge, canonical form, expiry | precedence, keyed lists, four instants | a higher layer wins, order of arrival is irrelevant, no expired override |
| Sizing (`sizing/`) | none | stage quantities, costs, funding search | rounding per stage, the search's limit | never above funding, whole lots, as much as is affordable |
| Rules (`rules/`) | step budget | parse, evaluate | missing evidence, three-valued logic, budget | a verdict no later evidence can turn, a budget no accepted ruleset exceeds |
| Scoring (`scoring/`) | none | contributions, ranking | missing or disabled factors, ties | total deterministic order |
| Indicators (`indicators/`), calendar | none | bar aggregation, coverage gaps, VWAP, volume ratio | session ends, gaps | only complete buckets are aggregated |
| Data sources (`data_sources/`) | none | snapshot, quotes, bars | stale, incomplete, failing | actionable only when fresh and complete |
| Evidence payload (`domain/evidence_payload.py`) | budgets | preflight, encode, decode | limits at the boundary | what passes the preflight can be encoded |
| Access (`domain/access.py`) | none | read, mutate checks | portfolio scope | nobody crosses a portfolio |
| API (`api/`, `schemas/`, `main.py`) | none | run-once, health, body limit | chunked bodies | one response, none past the limit |

The parts meet in `run()`. Callers share nothing but the stores and the lock
provider: the scan lock serializes callers of one scan, while the scans of one
plan (other windows, other configuration snapshots) run side by side and contend
on the plan's one recommendation record. That record is read, evaluated against
for a while, and replaced by compare-and-set. The SQL repositories are a second set
of stores for the same protocols, in which every call is several statements of a
transaction that its caller commits. Around the coordinator are pure components
(resolution, rules, scoring, indicators, sizing), each a loop over its inputs, and
the HTTP intake in front of it. `PROJECT.json` lists every part
with its status, and the hazards at their lines.

## 2. The modules

| Module | Models | Code |
|---|---|---|
| `RecommendationMachine` | the transition table: one relation per event, the sale-source check before it | `machine.py`, `states.py`, `invariants.py` |
| `RecommendationLifecycle` | abstract specification: the record takes accepted steps of the table and no others | `machine.py`, `record_transition` |
| `LifecycleHistory` | the lifecycle with history variables, to state what holds over several events | |
| `RunCoordinator` | `run()` with its stores, exceptions and crashes | `run_coordinator.py`, `rotation_run.py`, `in_memory.py`, `logical_scans.py`, `0005` |
| `ScanLedger` | abstract specification: what `docs/idempotency.md` promises per scan | |
| `RunCoordinatorRefinement` | the refinement mappings to both abstract specifications | |
| `SqlStores` | the SQL repositories, a statement at a time, under concurrent sessions | `repositories.py`, `models.py`, `logical_scans.py` |
| `Sizing` | `size()`: estimate, adjustment, bisecting search | `sizing/` |
| `RuleEvaluation` | the parser's typing and limits, the evaluation of a ruleset | `rules/` |
| `CandidateScoring` | scoring and ranking | `scoring/` |
| `BarAggregation` | sessions, windows and coverage gaps, as operators | `bars.py`, `calendar/` |
| `SessionIndicators` | volume ratio and VWAP over them | `volume_ratio.py`, `vwap.py` |
| `ConfigurationResolution` | resolution of a run's configuration layers | `configuration.py`, `schemas/` |
| `AdminIntake` | one request through body limit, FastAPI and endpoint | `body_size.py`, `admin.py`, `dependencies.py` |
| `MCLifecycle`, `MCCoordinator`, `MCSqlStores`, `MCSizing`, `MCEvaluation`, `MCIntake` | instances for TLC | |
| `LifecycleProofs`, `RunCoordinatorProofs`, `SqlStoresProofs`, `SizingProofs`, `RuleProofs`, `ScoringIndicatorProofs`, `IntakeProofs` | the theorems | |
| `MathFacts` | what those need of arithmetic, induction, recursion over trees, sums over finite sets and places in an order | |

`MCEvaluation` and `MCIntake` hold components that share nothing: a behaviour runs
one of them on one input while the others stay idle. Recursion is by functions on sets, so
that it can be proved about: over expression trees on the constant set `Expressions`, over
nested configuration values on `ValuesUpTo`. No module declares a RECURSIVE operator.

### 2.1 State and actions of RunCoordinator

`rec` is the plan's `RecommendationStateRecord`; `scans`, `attempts`, `runs`,
`intents` are the logical scans, their attempts in order of `attempt_number`,
the stored strategy runs and the notification intents. A stored run is reduced
to its `_FinalizationEvidence`: the state and halt flag it was evaluated
against, those it leads to, and whether it notifies. A scan has at most one run,
so the scan's name doubles as the run's, the final key's and the intent's.
`locks` are the leases. `pc`, `work`, `fresh`, `seen`, `opened`, `result` are
where each thread is in `run()` and its locals. `fetches`, `applied`, `basis`
and `degradedAt` are history: no guard reads them.

An action is one call that writes a store or reads the shared record, with the
reads of the scan's own data before it (nobody else touches those while the
lock is held, which `LockExclusion` says and `LocksExclude` proves). In order:
`Acquire`/`Duplicate`/`Refuse`; `AnswerCompleted` or `CreateOrRecover`;
`RetryExhausted` or `OpenAttempt`; `Fetch`; for degraded evidence `DegradeRead`,
`DegradeWrite`, `RecordDegraded`; otherwise `EvaluateRead` and `Decide`. A stored
run, fresh or recovered (`Recover`), is adjudicated against the record as it is
now (`FenceHeld`, `LegacyHeld`, `StillWaiting`, `Superseded`) and then `Apply` or
`ClaimLegacy`, `RecordIntent`, `RecordFinal`, `Attach` or `RecordSuperseded`,
`Attach`; `Release` is the `finally` clause. The read in the adjudication and
the compare-and-set after it are separate actions, because the code reads the
record, lets go of the store's mutex, and only then writes.

`Raise` is a repository call that raises before it changes anything, at each
point where the code can be; where control continues follows the `except`
clauses: audited as FAILED in a fresh run, pending in a recovery, out of `run()`
elsewhere. This is what the repository's own fault-injecting test stores do.
`Crash` loses leases and locals and keeps the stores: `docs/idempotency.md`
requires recovery after a process crash and ADR-008 lets workers restart. The
application as composed in `main.py` also loses its in-memory stores; the
model is of the coordinator over stores that last, which is what it is written
for.

### 2.2 State and actions of SqlStores

`rows` are the committed rows and `own[s]` those session `s` has inserted and not
committed; `cell` and `edit[s]` are the same for the columns that are updated in
place (the record of a plan's state, or a scan's status). `call[s]` is the
repository method a session is in and the statement it has come to. `held[s]` is
the state record its caller evaluated from, which survives a rollback. `told`,
`moved` and `history` are history.

`Tables` says in one record per table what the insert method of its repository
does: the unique columns, the columns it selects by first, the constraints whose
violation makes it reread, and what the stored row must share with the candidate.
`Lookup`, `CheckScan` and `Insert` are the statements of every such method;
`CheckAttempt` and `Insert` are `record_attempt`; `ReadScan` and `Attach` are
`attach_final_strategy_run`; `GetState`, `Propose` and `Transition` are the read and
`record_transition`; `Commit` and `Rollback` are the caller's. The database is
external: PostgreSQL at READ COMMITTED, where an insert of a key or an update of a
row waits for the open transaction that holds it, an update then applies to the
newest row, and a failed insert is undone to its SAVEPOINT. A deadlock of two
sessions ends by a `Rollback` of one. SQLAlchemy's identity map is weak, so no row
is remembered between two calls. A behaviour exercises the tables of one `topic`;
tables of different topics share no row.

### 2.3 The other components

*Sizing.* `phase` runs from "start" through "adjust" (the loop of `_enforce_funding`,
`index` from the last stage to the first) and "search" (the bisection, one `Probe` per
turn of its loop) to "done" with `status`. Money is counted in ticks, of which
`quantum` make the rounding unit, so that costs really round.

*RuleEvaluation.* `parse_rules` types one rule per step and counts its nodes;
`evaluate_ruleset` evaluates one rule per step and spends the budget `left`. `Expressions`
are the expressions that can be asked for, with their operands: frozen nodes, so that an
expression is higher than its operands (`Height`). What the code computes by recursion
over them is a function on that set: a size, a kind, the value without paths, and the
evaluation with a number of steps left (on `Accepted`, what types and fits). A rule
that raises ends the ruleset with the error as its verdict, the one over an outcome that is
not a Boolean among them (`ErrorOf`). `entry` tells rulesets of the parser from rules a
caller builds itself, which the engine revalidates only one expression at a time and without
the parser's limit on operands (`OperandsFit`); rules of one id are refused by both.
`Possible` gives the values that evidence on each path may have, so that "whatever the
missing evidence turns out to be" is any of them (`Completions`).

*CandidateScoring.* One candidate per step, each authorized or not (`authorized`, of
which the first refusal ends the call without an answer). What a stable sort does is said by which
outcomes it lists ahead of another (`Ahead`), and so at which `Place` each one ends.

*BarAggregation, SessionIndicators.* One day of history per step; `dates` is what
`_previous_trading_dates` has left to read, the latest day first, and `volumes` maps a
day to the volume found. A bar's times are instants of a calendar of integers, and the
bars of a session or a window are the places they have among the bars of the snapshot,
in the order of which the code walks along them.

*ConfigurationResolution.* `Begin` sorts the layers into `ordered`; then one layer per
step, each with its checks before its merge, since the checks decide which error is raised
first; `Validate` is the complete schema. `Values` are all values over `Keys` and `Scalars`
that are nested up to `MaxNesting` deep. A map is total on `Keys`, with `Absent` for a key it
does not have, so that merging is pointwise; `Merges` is `_merge_value` as a function
on pairs of values, one level calling the next. An error inside a map makes the map an
error (`Checked`), as the exception does. The reference against which all this is checked
(`Standing`, `Clash`, `Refusals`) has no merge in it: it asks at each path who spoke last.

*AdminIntake.* One ASGI message per step. FastAPI is external: it reads the body to
its end, makes a 400 of an error of the read, resolves the dependencies before it
validates the payload, replies once and reads no more after that.

### 2.4 Abstractions

- Market data is an outcome: error, degraded, actionable. Evaluators are any
  member of `Proposals`; the machine's guards see their event, guard outcomes,
  and how source and quantity compare with the position.
- Keys are injective identities; time is left out (no code path of `run()`
  compares instants, the request's deadline apart, which is in `Refuse`).
- Evidence the coordinator wrote itself and rereads is taken to match
  (`_existing_applied_finalization` compares it).
- In `SqlStores` portfolio scopes, foreign keys and the conversion of rows to
  entities are left out; a session stands for the time stamp it writes.
- Decimals are integers in a unit; limits on digits, exponents and bytes are left
  out, and so is the error raised beyond them.
- Texts in rules are numbered, and `Contained` says which is in which; a configuration
  value is null, a typed scalar, a list, a map or the delete directive.
- A legacy database holds one interrupted run, claimed by migration 0005
  (its intent proves it) or unclaimed.

## 3. What is checked

### 3.1 The runs

| Run | Instance | Result |
|---|---|---|
| `lifecycle` | all 14 events, each with every guard granted, each guard refused in turn, every source and quantity; 3 decisions | 265 states, all properties hold |
| `lifecycle_resume` | the same | `AcceptedResumeClearsHalt` violated |
| `coordinator` | 2 workers, 2 scans, 2 provider attempts, 3 proposals, 1 exception or crash, with and without a legacy run | 520 406 states, all properties hold |
| `coordinator_liveness` | 2 workers, 2 scans, 1 attempt, a start in IDLE as well | 155 436 states, both hold |
| `relabelled` | 2 workers, 2 scans, 1 disruption | `SupersededWithoutEffect` violated |
| `stale_applied` | 2 workers, 3 scans, no disruption | `DegradationDiscards` violated |
| `sql_stores` | 2 sessions, 2 ids and keys, 2 contents, 2 attempts, revisions to 3; six topics | 528 541 states up to symmetry, all hold |
| `completed_twice` | the same | `CompletesOnce` violated |
| `sizing` | 1 to 3 stages, 3 roundings, both lot policies, 3 fee profiles, 4 amounts of cash, 3 prices; a search limit of 2 | 25 216 states, all hold |
| `evaluation` | rulesets of up to 3 rules over 6 paths of all kinds, each unknown or of up to 4 values; 3 candidates, 2 factors; 4 trading days of 2 sessions and a holiday | 57 486 states, all hold |
| `missing_null` | the same | `MissingPathsAreEvidence` violated |
| `intake` | requests over a limit of 2 bytes in chunks of 0 to 3; up to 3 layers in every order, 5 keys, maps in maps | 74 772 states, all hold |

Bounds. `MaxDecisions` caps a counter of history; three decisions are enough for
a first, a repeated and a revived one. Two scans contend for the record and two
workers for a scan; a third scan is needed only for leaving a state and coming
back to it, which is the run `stale_applied`. `MaxProviderAttempts = 2` has a
retry and an exhausted budget. One disruption (`MaxDisruptions` bounds exceptions
and crashes together) reaches each recovery path; the theorems hold for any
number. The proposals take a decision to its notification, an applied decision
to an invalidation that contradicts it, and a degraded record back: from
ACTION_PENDING they reach conflicts, supersession, recovery and a rejected
degradation. The liveness run takes one provider attempt, since the budget's
arithmetic is covered by the safety run and TLC's liveness check is quadratic in
practice; it has no symmetry, which is unsound for liveness.

Two SQL sessions are a holder and a waiter; a third would wait like the second, and
the theorems hold for any number. Two attempts have a first, a recovery and one that
lost its number; three revisions let the state leave and come back under a held
record. In `sizing` unit costs round below what a lot costs, so the estimate
overshoots and one to three stages are cut; the code's limit of 4096 steps cannot
be reached by a bisection of increments, and 2 lets a search give up. The rule
limits of `evaluation` are small enough that each of them refuses something. The
days differ in length and leave a last window shorter than `Width`. In `intake` three
scopes set every field in turn, and the orders of up to three of ten layers
meet every reason to refuse. Values are nested twice (`MaxNesting = 2`), which has a map in
a map merged below a map, and entries of a keyed list merged inside it.

### 3.2 The properties

*Lifecycle.* `NeverRevived`: after a degradation, an invalidation, a pause or a
wait no signal state is held before WATCHING was visited. `WaitingIsHalted`:
INVALIDATED and WAITING_CONFIRMATION are always halted, so the guard of the
resume can be met. `OneNoticePerDecision`, `HaltEndsOnlyByResume`,
`CompletedIsFinal`.

*Coordinator.* `LockExclusion`. `AttemptChain`: the attempts of a scan form the
recovery chain that the store enforces, and the store never refuses the attempt
that closes a provider call. `AppliedIsReal`: a final APPLIED attempt implies
that the transition happened and that its intent exists. `IntentFollowsTransition`:
a run that lost the record has no intent. `FenceNamesOwner`: a record that names a
run carries its result. `CallersAgree`: all callers hear the audited outcome.
`ImplementsLifecycle`: although candidates are judged against records that may
be stale, the record takes only steps of the table. `ImplementsLedger`: per
scan, provider calls within the budget and none once a run exists, one run, one
verdict. `LeaseReturned`: every lease is given back. `RetriedScansSettle`: a scan
that is retried again and again gets its verdict or exhausts its budget.

*SQL stores.* `AnswersAreStored`: keys are unique, and the row a call answered is
stored with its caller's transaction and is the evidence it asked to record.
`AttemptsFormAChain`: attempts appended from stale reads still are one recovery
chain. `CompletionHasEvidence`: a committed completion has its one run and the
attempt that names it. `NoLostTransition`: committed transitions are one chain from
revision 0, none from a record that was rolled back.

*Sizing.* `NeverOverspends`, `WholeLots`, `SearchBracket`: between its bounds the
search holds the answer. `BestAffordable`: no affordable cut of the estimate buys more.
`AlwaysAnswers`: neither loop runs for ever.

*Evaluation.* `MissingEvidenceNeverTurnsAVerdict`: a ruleset that matched or failed on
partial evidence does so on every completion of it. `ParsedRulesFitTheBudget` and
`WellTypedEvaluation`: what the parser accepts the evaluator can run.
`RankingIgnoresArrival`, `ImprovementNeverDemotes`. `CoverageIsExact`,
`AggregationIsExact`, `RatioIsSupported`: gaps and windows instant by instant, and a
ratio only over full windows of the same geometry. `IndicatorsAgreeOnCoverage`.

*Intake.* `OversizeIsRefused`: however a body is cut, one 413 past the limit and none
within it, and only a valid token and dry run are coordinated. `EveryResolutionMatches`:
a request is refused exactly when there is a reason, and otherwise every path holds
what the highest layer that speaks about it says, in every order of arrival.

### 3.3 Fairness

`Fairness` is weak fairness of `Step(w)` for every worker: a thread inside `run()`
goes on, since nothing in it waits (the lock is a try-lock, and the stores'
mutexes are held for the length of one call). Calls, exceptions and crashes are
not fair: nothing makes a caller retry. `RetriedScansSettle` therefore takes the
retries as its premise, and the exceptions are finitely many.

`Sizing` is one sequential function call: weak fairness of `Next` says that the
process goes on executing it.

### 3.4 Where the code and its statements differ

1. *Accepted resume keeps the halt.* The only row of `docs/state-machine.md` for
   RESUME_REMAINING_STAGES (line 30) accepts it in WAITING_CONFIRMATION and clears the
   halt; a repeat is a no-op, and line 38 has every other transition rejected. The code
   accepts a first resume in WATCHING too, as a no-op that keeps the halt, and a halted
   plan gets there by a pause and a resume of the plan. (`lifecycle_resume`)
2. *Applied runs audited as superseded.* The record changes after a run was
   applied and before its audit was written, and the process is lost in between:
   the recovery finds the fence gone and audits SUPERSEDED a run that took
   effect, which `run_coordinator.py:899` excludes. (`relabelled`)
3. *A run outlives a degradation.* The adjudication compares state and halt flag,
   not the revision: a run decided before the data degraded is applied after it
   recovered, which `docs/state-machine.md:42` excludes. (`stale_applied`)
4. *A missing condition over null branches raises.* `docs/rule-dsl.md:75` has a
   missing path make its rule neither matched nor failed. `exists` of an `if` with two
   null branches is accepted; with its condition missing the engine asks for a
   missing value of kind NULL, which `evidence.py:50` refuses, and the ruleset has no
   verdict at all. (`missing_null`)
5. *A scan completed twice.* The SQL adapter checks the status it read and writes the
   completion by primary key alone; two sessions that both read RUNNING both succeed,
   where `logical_scans.py:89` promises "exactly once". The run is the same, the
   completion time is not. The coordinator holds the scan's lock around it.
   (`completed_twice`)

Met while reading, and not checked by a run of their own:

- `docs/rule-dsl.md:75` calls the transport limits (depth 32, 512 nodes) larger than
  the expression limits "so valid 16-depth/128-node expressions remain valid".
  `parse_rules` applies them to the whole list (`parser.py:178`), so an expression of
  depth 16 is refused inside a list and 512 rules can never be reached.
- `sizing/base.py` promises "a safe sizing recommendation or explicit non-actionable
  outcome"; fees, taxes and slippage, each at most 1, may add up to more than the
  proceeds, and the negative net proceeds make `SizingResult` raise.
- Two sessions that record one strategy run under one id and key at once: if the
  database names the primary key first, the second is answered by the
  `IntegrityError` and not as the retry it is (`docs/idempotency.md:45`), since only
  `uq_strategy_run_key` is recognised.
- `record_attempt` leaves a lost race for an attempt number as a raw `IntegrityError`,
  and lets a session that read RUNNING append a duplicate attempt after another
  session completed the scan; the attempts still form a chain.

## 4. What is proved

For every value of the constants: any workers, scans and proposals, any sessions, keys
and revisions, any sizing and scoring requests, any expressions,
rules and evidence, any calendar, bars and history, any body
limit and chunks, any configuration layers however deep, and every bound.

| Theorem | Says |
|---|---|
| `RecordInvariant` | the record is well typed, and halted when INVALIDATED or WAITING_CONFIRMATION |
| `SignalsAreNeverRevived`, `DecisionsAreNotifiedOnce`, `OnlyResumeEndsHalt`, `CompletionIsFinal` | the properties of 3.2 of the lifecycle |
| `ControlIsInvariant`, `TypesAreCorrect`, `LocksExclude` | types and mutual exclusion of the coordinator |
| `FenceIsTruthful`, `LosersNeverNotify` | `FenceNamesOwner`, `IntentFollowsTransition` |
| `AttemptsAreChained`, `AppliedMeansApplied`, `CallersHearTheAudit` | `AttemptChain`, `AppliedIsReal`, `CallersAgree` |
| `RecordFollowsTable` | `ImplementsLifecycle`: the coordinator implements the transition table |
| `ScansKeepTheirLedger` | `ImplementsLedger`: the coordinator implements the ledger of `docs/idempotency.md` |
| `StoresInvariant`, `StoresTypeOK` | the inductive invariant and the types of the SQL stores |
| `AnswersAreAlwaysStored`, `CompletionAlwaysHasEvidence`, `AttemptsAlwaysFormAChain`, `TransitionsAreNeverLost` | the four safety properties of the SQL stores |
| `SizingTypeOK`, `SizingWholeLots`, `SizingSearchBracket`, `SizingNeverOverspends`, `SizingBestAffordable` | the safety properties of sizing, that the search finds the greatest affordable cut among them |
| `RulesTypes` | the types of the rule engine |
| `RulesAreWellTyped`, `RulesFitTheBudget` | `WellTypedEvaluation`, `ParsedRulesFitTheBudget`: no accepted rule fails for a type or has an outcome that is no Boolean, no parsed ruleset fails for its budget |
| `RulesAreFinal` | `MissingEvidenceNeverTurnsAVerdict`: three-valued evaluation is monotone, whatever values the paths may have and whatever is known |
| `ScoringAnswers`, `ScoringTypes` | the invariant and the types of scoring |
| `ScoringIgnoresArrival`, `ScoringRewardsImprovement` | `RankingIgnoresArrival`, `ImprovementNeverDemotes` |
| `IndicatorsKeep`, `IndicatorsTypes` | the invariant and the types of the indicators |
| `IndicatorsCoverageIsExact`, `IndicatorsAggregationIsExact` | `CoverageIsExact`, `AggregationIsExact`: gaps and windows are what the single instants say |
| `IndicatorsRatioIsSupported`, `IndicatorsAgree` | `RatioIsSupported`, `IndicatorsAgreeOnCoverage` |
| `EvaluationTypes` | the types of `evaluation`, whichever component runs |
| `OversizeIsAlwaysRefused`, `OversizeIsRefusedWherever` | `OversizeIsRefused`, of the request alone and of the specification `intake` runs |
| `ResolutionsMatchTheReference`, `EveryResolutionAlwaysMatches` | `EveryResolutionMatches`: the resolution is the reference of `docs/configuration.md`, in every order of arrival |
| `SnapshotsAreValid`, `IntakeTypes` | the types of resolution and request: what is merged is what the complete schema accepts |

*Assumptions.* `ConstantsAssumption` and `NoneAssumption` (the budget is positive,
`None` and `EarlierRun` are nobody's names) and `StartsAssumption` (earlier scans
leave no idle plan halted and no invalidated one unhalted). For the SQL stores
`NoneAssumption` (NULL is no session, number or record) and `BoundAssumption`; for
sizing `RequestsAssumption`, what the constructors of a request accept, and
`SearchLimitAssumption`; for the rules `ExpressionsAssumption` (expressions are finite
trees), `RequestsAssumption` (what the constructors of a rule and of its evidence accept),
`RegistryAssumption` (no path is registered as null), `PossibleAssumption` (a Boolean is 0
or 1; the values of any other kind are any set of integers) and `LimitsAssumption` (a parsed
ruleset has no more nodes than an evaluation has steps, as the two constants of the code
do); `ScoringAssumption`, the same for a scoring request;
`CalendarAssumption` (the sessions of a day are in order and end on that day) and
`InputsAssumption` (bars and ranges are not empty, spans positive); `IntakeAssumption`;
for the resolution `ResolutionsAssumption` (the layers are what `LayerPatchSchema` accepts),
`MaxTtlAssumption` (the constructor of the resolver refuses any other), `NestingAssumption`
and `ScalarsAssumption`. TLC evaluates them.

*Lifecycle.* `TransitionIsLawful` states per event what a result may look like. The
rest follows from it and the invariant `HInv`, which adds to the properties that
a pending decision has not been notified yet: without it the counters of
`OneNoticePerDecision` could meet.

*Coordinator.* Mutual exclusion is not inductive alone. `Control` adds to the types
that a worker inside `run()` holds the lease of a scan that is one of `Scans`
(`Leased`), and that a worker past the decision has a stored run at hand
(`RunAtHand`), without which the evidence a step compares would not be defined. A
lease names one worker, and so only its holder changes the scan's data: this is
used in every step of the second invariant, `Claims`: a fence names a run applied
at the record's own revision and reached by it, intents follow a transition,
and a worker about to record an intent serves a run that has been applied.
Each proof has a step per action and a step per conjunct it can disturb.

*Audit trail.* What the attempts of a scan say is not inductive either: between a
provider call and the attempt that closes it, and between a won transition and its
final attempt, only a worker knows what is true. `Trail` has a part per scan
(`ScanTrail`: the attempts are chained, every final one carries a verdict, once one
is APPLIED it is the last word and the run took effect), per worker (`WorkerTrail`:
the RUNNING attempt it opened is still the last one while it audits, no APPLIED
attempt exists while the run is unsettled, the run took effect when it is about to
say so), and per answer (`AnswerTrail`). An answer RETRY_EXHAUSTED stays true only
because nobody else is past the entry of that scan, which is why `Justified` says
where the other workers are. A step of a worker is reduced to its own scan
(`AdvanceKeepsTrail`), then to its label (`WalkKeepsTrail`) or to the attempt it
appends (`AppendKeepsTrail`).

*Refinement of the table.* A candidate is judged against a record read earlier, so
that the replacement is a step from the current state has to be carried along:
`Warrants` says that every stored run keeps a transition the table accepted from
the record it was evaluated against (`Warranted`), and that a worker about to
replace the record has read one in the run's previous state (`Prepared`). `Decide`
establishes the first, the adjudication the second, and the compare-and-set on
`revision` admits no other record. A migrated run is warranted by
`LegacyEvidence`, one acceptable evidence for the decision it records.

*Refinement of the ledger.* `Trail` gives the phases and the verdicts. The number of
provider calls needs `Budget`: a scan has no more calls than RUNNING attempts, a worker
about to call has an attempt more than there were calls, and one that decides has called.
A crash between the attempt and the call costs a call, never adds one.

*SQL stores.* The properties speak of committed rows, and every check in the code was
made against rows a session saw earlier. The invariant therefore says what is left
of a check when its statement comes. `Unique` extends to the rows of open
transactions: an insert waits for those that hold its key. `Pending`: an attempt on
its way to the table is still the next one, or its number is taken by now, so that the
insert appends or fails. `Appending`: what each session sees is a chain, and only one
session at a time is ahead of the committed attempts, since two would have inserted
the same number. `Transitions` says the same of the record: `LinkedTo` describes the
transitions up to a record, one session at most has an update open, and a planned
update starts from the record seen or from an older revision (`Planned`), which the
WHERE clause does not match. `Completed` carries the evidence of a completion
from the session that wrote it to the commit. `Told` follows an answer to its end.

*Sizing.* `SearchBracket` needs nothing of the costs, monotonicity included: the
bounds are kept because each probe moves the one it has evaluated. `NeverOverspends`
follows from where the answer ACTIONABLE is given. `BestAffordable` does rest on the
costs: they grow with the quantity, since each of the roundings grows and a sum over
stages grows with its summands. A stage is left alone only when cutting all of it still
cost too much, so whatever buys more than the answer would cut less (`Cutting`). That the
search has steps enough is `Halving`: `(upper - lower) * 2^steps` stays below the power it
started with, and a bracket of one increment is closed.

*Rules.* Most of the work is below the state machine. A definition by recursion over a
set is a function in TLA+ only if such a function exists, which `HeightRecursion` gives
for the sizes, the kinds and the evaluation; then three facts are shown of every accepted
expression by `HeightInduction`. `AcceptedIsTyped`: its value has the kind the parser
found, and no operator meets an operand it cannot take, so that there is no type error.
`AcceptedIsAffordable`: it spends no more steps than it has nodes, and runs out of none
when it has as many. `AcceptedIsSettled`: a value found on partial evidence is found on
every completion of it on which the evaluation does not raise (a denominator may turn out
zero). In each, operands are evaluated one after the other, by a function on the prefixes of
the list that stops at the first error (`PrefixStep`).
`RulesInv` carries them along a ruleset: the rules up to `at` are accepted, each status is
that of an evaluation, and what is left of the budget covers the nodes to come. The
verdict is a comparison of weights, and no completion of the missing statuses changes one
that was reached (`MissingStatusesNeverDecide`).

*Scoring.* `AnswerInv`: the outcomes are those of the candidates taken so far, and an
answer is their ranking. `Ahead` is a strict total order, so the places are a bijection
(`PlacesAreBijective`): each place has one outcome, which is what makes the `CHOOSE` in
`Ranking` mean something. A ranked outcome's place counts the ranked outcomes that are
before it on score and id, and a rearrangement of the candidates is a bijection of those
(`PlaceIgnoresArrangement`). A better metric leaves the other scores alone and lowers
none of its own (`NormalizeGrows`, `ContributionGrows`), so that the outcomes ahead can
only become fewer.

*Indicators.* The code walks along the bars and compares each start with the end before
it; the properties speak of single instants. `CoverIsEveryInstant` is the bridge: bars in
order chain from one end of a range to the other exactly when they lie in it and trade each
of its instants. Sessions have no instant in common (`SessionsApart`), nor have two windows
of a session (`OwnWindow`), so a bar that trades an instant of a window is one of its group,
and coverage and aggregation are exact. `IndicatorInv` carries the volume ratio through the
history: each of the previous trading days is yet to be read, has its reference and volume,
or stands where it rules a ratio out, so that an available ratio has all of them.

*Arithmetic and induction.* The library's induction theorems take an operator and cannot
be cited, but an induction over a set can be proved from the least element of a set of
naturals: `MathFacts` does so for the naturals, for the subsets of a finite set and for a
set with heights. It gets from them that a recursion on lower elements has a solution, that
the sums of the community modules exist as the recursion says (`SumsExist`) and grow and
scale with their summands.

*Intake.* The invariant ties the flag of the middleware to the count of bytes and says
at each step what the application can have received, answered and coordinated.

*Resolution.* The code merges maps; the reference follows paths. First, the definitions
mean something: `LevelsAreDefined` and `MergesAreDefined` solve the two recursions, level
by level, and `MergeType` has values merge into values. Then `MergeOverlays`, by induction
along the path: where two values merge, each path of the result holds what the higher says
if it speaks about the path and what the lower holds otherwise, and nothing clashes; where
they do not, some path clashes (`ErrorsClash`). Keyed lists are brought to that form by the
map they stand for (`KeyedListAsMap`): entry after entry, `PutSoFar` says which are merged
already and that the first ones kept their places. Extensions delete first and merge what
is left (`ExtensionsMerge`). `FieldMerges` puts the three kinds of field together.
`SortingRearranges` shows the stable sort to be a rearrangement by rank, so that reasons to
refuse can be read from the layers as they arrived. `RInv` then is: the layers merged so far
passed their checks and have distinct scopes (`LayersChecked`); the fields are those of
their patches and valid (`FieldsAfter`); each path holds what stands about it and no layer
has clashed (`HoldsAfter`); the entries are where they first appeared (`EntriesAfter`).
`HoldsAfter` is needed because the reference speaks of the last layer only, `FieldsAfter`
because a merge is total on valid values only, and together with the second part of
`HoldsAfter` they leave no reason to refuse at the end. When a layer is refused, the check
that failed is a reason of the reference's, whatever the layers after it hold.

*The instances.* `MCIntake` and `MCEvaluation` run one of several components. The idle ones
stay as they are, and the component that runs keeps its own invariant (`OneRuns`,
`EvaluationInv`); so the types the runs check, and the properties of `intake`, hold of
the specifications the runs use and not of the components' own alone.

*Only model-checked.* Liveness (`RetriedScansSettle`, `LeaseReturned`, `AlwaysAnswers`),
since it rests on fairness and ENABLED. Every invariant and action property of a passing
run is stated by a theorem.

## 5. Not modelled, and the plan

Left to do, in this order:

1. Migration 0005's classification (unique, several, none) as a module that yields the
   coordinator's initial states, AMBIGUOUS included.
2. The coordinator over `SqlStores` instead of the in-memory stores. Nothing in the
   repository composes them yet, and where the transactions would end is undecided.

Partly modelled: of the SQL repositories the plan and instrument tables, the
configuration layers' table and the portfolio scopes; of the configuration canonical
JSON and hashes; of the API the health routes and the rendering of replies; of the
data sources how freshness is derived. The reasons are with the components in
`PROJECT.json`.

Not modelled: the evidence payload (a sequential encoder with budgets, of whose
result the coordinator depends on the success only) and the access predicates.

Left out for good: audit payloads and response wording, JSON text parsing,
canonical hashing, pydantic's field formats, DDL, logging, the deployment files.
