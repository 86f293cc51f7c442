-------------------------- MODULE CandidateScoring --------------------------
(***************************************************************************)
(* DeterministicScoringEngine.score: the candidates of a request are       *)
(* scored one by one in the order they are supplied, and those with every  *)
(* metric are ranked. Unit stands for the digits of the decimal context;   *)
(* candidates are numbered in the order of their instrument ids.           *)
(***************************************************************************)
EXTENDS Integers, Sequences, FiniteSets, Functions

CONSTANTS ScoringRequests,  \* [factors, candidates]
          Unit              \* the value 1 of a normalized metric

Directions == {"higher_is_better", "lower_is_better"}
MetricKinds == {"supplied", "invalid", "absent"}
CandidateStatuses == {"RANKED", "MISSING_METRIC", "INVALID_METRIC"}

Factors == [lower: Int, upper: Int, weight: Nat \ {0}, direction: Directions]
Metrics == [kind: MetricKinds, value: Int]

(* LinearNormalization, FactorConfiguration and ScoringRequest.            *)
ValidScoringRequest(r) ==
  /\ r.factors \in Seq(Factors) /\ r.factors # <<>>
  /\ \A i \in DOMAIN r.factors : r.factors[i].lower < r.factors[i].upper
  /\ r.candidates \in Seq([id: Nat, authorized: BOOLEAN, metrics: Seq(Metrics)]) /\ r.candidates # <<>>
  /\ \A i \in DOMAIN r.candidates : Len(r.candidates[i].metrics) = Len(r.factors)
  /\ \A i, j \in DOMAIN r.candidates : r.candidates[i].id = r.candidates[j].id => i = j

ASSUME ScoringAssumption ==
  Unit \in Nat \ {0} /\ \A r \in ScoringRequests : ValidScoringRequest(r)

VARIABLES scoring,   \* the request
          outcomes,  \* the candidates scored so far
          ranking    \* the answer: a sequence of outcomes, empty until it is known

scoringVars == <<scoring, outcomes, ranking>>

-----------------------------------------------------------------------------
Scaled(f, value) == ((value - f.lower) * Unit) \div (f.upper - f.lower)
(* A plausible slip: a metric above its upper bound is not clamped.        *)
NormalizeAbove(f, value) == IF Scaled(f, value) < 0 THEN 0 ELSE Scaled(f, value)

Normalize(f, value) ==
  IF Scaled(f, value) < 0 THEN 0
  ELSE IF Scaled(f, value) > Unit THEN Unit ELSE Scaled(f, value)

(* A plausible slip: the direction is not applied.                         *)
Undirected(f, n) == n
Directed(f, n) == IF f.direction = "lower_is_better" THEN Unit - n ELSE n

Contribution(f, metric) == Directed(f, Normalize(f, metric.value)) * f.weight

CandidateStatus(factors, c) ==
  LET kinds == {c.metrics[i].kind : i \in DOMAIN factors} IN
  CASE "invalid" \in kinds -> "INVALID_METRIC"
    [] "invalid" \notin kinds /\ "absent" \in kinds -> "MISSING_METRIC"
    [] OTHER -> "RANKED"

ScoreOf(factors, c) ==
  SumFunction([i \in DOMAIN factors |-> Contribution(factors[i], c.metrics[i])])

Outcome(factors, c) ==
  LET s == CandidateStatus(factors, c)
  IN [id |-> c.id, status |-> s, score |-> IF s = "RANKED" THEN ScoreOf(factors, c) ELSE 0, rank |-> 0]

(* A plausible slip: equal scores keep the order they were supplied in.    *)
BeforeByScore(x, y) == x.score > y.score
Before(x, y) == x.score > y.score \/ (x.score = y.score /\ x.id < y.id)

IsRanked(o) == o.status = "RANKED"

(* Which outcomes the answer lists ahead of another: the ranked ones come  *)
(* first, in the order of a stable sort, the others as they were supplied. *)
Ahead(os, j, i) ==
  IF IsRanked(os[i])
  THEN IsRanked(os[j]) /\ (Before(os[j], os[i]) \/ (j < i /\ ~ Before(os[i], os[j])))
  ELSE IsRanked(os[j]) \/ j < i
Place(os, i) == 1 + Cardinality({j \in DOMAIN os : Ahead(os, j, i)})

(* _rank and the order of the answer.                                      *)
Ranking(os) ==
  LET at(k) == CHOOSE i \in DOMAIN os : Place(os, i) = k
  IN [k \in DOMAIN os |-> [os[at(k)] EXCEPT !.rank = IF IsRanked(os[at(k)]) THEN k ELSE 0]]

(* A candidate that is not authorized raises, and there is no answer.      *)
ScoreCandidate ==
  LET c == scoring.candidates[Len(outcomes) + 1] IN
  /\ ranking = <<>> /\ Len(outcomes) < Len(scoring.candidates)
  /\ c.authorized
  /\ outcomes' = Append(outcomes, Outcome(scoring.factors, c))
  /\ UNCHANGED <<scoring, ranking>>

RankCandidates ==
  /\ ranking = <<>> /\ Len(outcomes) = Len(scoring.candidates)
  /\ ranking' = Ranking(outcomes)
  /\ UNCHANGED <<scoring, outcomes>>

ScoringInit == scoring \in ScoringRequests /\ outcomes = <<>> /\ ranking = <<>>
ScoringNext == ScoreCandidate \/ RankCandidates
ScoringSpec == ScoringInit /\ [][ScoringNext]_scoringVars

-----------------------------------------------------------------------------
ScoringTypeOK ==
  /\ Len(outcomes) <= Len(scoring.candidates) /\ Len(ranking) \in {0, Len(scoring.candidates)}
  /\ \A i \in DOMAIN outcomes : LET o == outcomes[i] IN
       /\ o.status \in CandidateStatuses
       /\ o.score \in 0 .. Unit * SumFunction([k \in DOMAIN scoring.factors |->
                                                scoring.factors[k].weight])

Reordered(s) ==
  {[i \in DOMAIN s |-> s[p[i]]] : p \in {q \in [DOMAIN s -> DOMAIN s] :
     \A i, j \in DOMAIN s : q[i] = q[j] => i = j}}

RankedPart(os) == Restrict(os, {i \in DOMAIN os : IsRanked(os[i])})
Answer(factors, cs) == Ranking([i \in DOMAIN cs |-> Outcome(factors, cs[i])])

(* The ranks do not depend on the order in which the candidates arrive.    *)
RankingIgnoresArrival ==
  ranking # <<>> =>
    \A cs \in Reordered(scoring.candidates) :
      RankedPart(Answer(scoring.factors, cs)) = RankedPart(ranking)

Position(os, id) == CHOOSE i \in DOMAIN os : os[i].id = id
Improved(f, m) ==
  [m EXCEPT !.value = IF f.direction = "higher_is_better" THEN @ + 1 ELSE @ - 1]

(* A better metric, in the direction its factor is configured with, never  *)
(* costs a ranked candidate its place.                                     *)
ImprovementNeverDemotes ==
  \A i \in DOMAIN ranking : IsRanked(ranking[i]) =>
    \A k \in DOMAIN scoring.factors :
      LET at == Position(scoring.candidates, ranking[i].id)
          better == [scoring.candidates EXCEPT
                       ![at].metrics[k] = Improved(scoring.factors[k], @)]
      IN Position(Answer(scoring.factors, better), ranking[i].id) <= i
=============================================================================
