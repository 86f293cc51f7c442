----------------------- MODULE ScoringIndicatorProofs -----------------------
(***************************************************************************)
(* The scoring engine, for any factors and any candidates, and the         *)
(* indicators, on any calendar and for any snapshot and history.           *)
(*                                                                         *)
(* Scoring: Ahead is a strict order, so that each outcome has a place of   *)
(* its own; where the ids differ, the place of a ranked outcome is settled *)
(* by the outcomes alone, however they are arranged; and a better metric   *)
(* takes nobody ahead of the candidate who had been behind.                *)
(*                                                                         *)
(* Indicators: bars that chain from the start of a range to its end are    *)
(* bars that trade each of its instants and no other (CoverIsEveryInstant).*)
(* Sessions have no instant in common, nor have the windows of a session;  *)
(* so coverage and aggregation are what the instants say. The volume ratio *)
(* keeps a window of each day it has found a reference on.                 *)
(*                                                                         *)
(* Last, the rule engine and these two, of which a behaviour of            *)
(* MCEvaluation runs one.                                                  *)
(***************************************************************************)
EXTENDS MCEvaluation, RuleProofs, SequenceTheorems, MathFacts, TLAPS

Outcomes == [id: Nat, status: CandidateStatuses, score: Int, rank: Int]
Candidates == [id: Nat, authorized: BOOLEAN, metrics: Seq(Metrics)]

(* What the constructors of the configuration guarantee of the factors.    *)
ValidFactors(fs) ==
  /\ fs \in Seq(Factors)
  /\ \A i \in DOMAIN fs : fs[i].lower < fs[i].upper

Answerable(fs, c) == c \in Candidates /\ Len(c.metrics) = Len(fs)

-----------------------------------------------------------------------------
(* Normalization: a larger metric has a larger part of the unit, or the    *)
(* same.                                                                   *)
LEMMA NormalizeGrows ==
  ASSUME NEW f \in Factors, f.lower < f.upper, NEW v \in Int, NEW w \in Int, v <= w
  PROVE  /\ Normalize(f, v) \in 0 .. Unit
         /\ Normalize(f, w) \in 0 .. Unit
         /\ Normalize(f, v) <= Normalize(f, w)
<1> DEFINE m == (v - f.lower) * Unit
           n == (w - f.lower) * Unit
           d == f.upper - f.lower
<1>1. f.lower \in Int /\ f.upper \in Int /\ Unit \in Nat \ {0}
  BY ScoringAssumption DEF Factors
<1>2. d \in Nat \ {0}
  BY <1>1
<1>3. m \in Int /\ n \in Int /\ m <= n
  <2>1. \A x, y \in Int : x <= y => x * Unit \in Int /\ y * Unit \in Int /\ x * Unit <= y * Unit
    BY <1>1
  <2>2. v - f.lower \in Int /\ w - f.lower \in Int /\ v - f.lower <= w - f.lower
    BY <1>1
  <2> QED
    BY <2>1, <2>2
<1>4. Scaled(f, v) = m \div d /\ Scaled(f, w) = n \div d
  BY DEF Scaled
<1> HIDE DEF m, n, d
<1>5. m \div d <= n \div d
  BY <1>2, <1>3, DivisionGrows
<1>6. m \div d \in Int /\ n \div d \in Int
  BY <1>2, <1>3
<1> QED
  BY <1>1, <1>4, <1>5, <1>6 DEF Normalize

(* A contribution is a share of the weight.                                *)
LEMMA ContributionBounds ==
  ASSUME NEW f \in Factors, f.lower < f.upper, NEW m \in Metrics
  PROVE  /\ Contribution(f, m) \in Nat
         /\ Contribution(f, m) <= Unit * f.weight
<1> DEFINE d == Directed(f, Normalize(f, m.value))
<1>1. m.value \in Int /\ f.weight \in Nat /\ Unit \in Nat
  BY ScoringAssumption DEF Metrics, Factors
<1>2. Normalize(f, m.value) \in 0 .. Unit
  BY <1>1, NormalizeGrows
<1>3. d \in Nat /\ d <= Unit
  BY <1>1, <1>2 DEF Directed
<1>4. Contribution(f, m) = d * f.weight
  BY DEF Contribution
<1> HIDE DEF d
<1> QED
  BY <1>1, <1>3, <1>4, ProductGrows

(* A metric that is better in the direction of its factor contributes no   *)
(* less.                                                                   *)
LEMMA ContributionGrows ==
  ASSUME NEW f \in Factors, f.lower < f.upper, NEW m \in Metrics
  PROVE  /\ Improved(f, m) \in Metrics
         /\ Improved(f, m).kind = m.kind
         /\ Contribution(f, m) <= Contribution(f, Improved(f, m))
<1> DEFINE b == Improved(f, m)
           d == Directed(f, Normalize(f, m.value))
           e == Directed(f, Normalize(f, b.value))
<1>1. m.value \in Int /\ f.weight \in Nat /\ Unit \in Nat /\ f.direction \in Directions
  BY ScoringAssumption DEF Metrics, Factors
<1>2. /\ b \in Metrics /\ b.kind = m.kind
      /\ b.value = IF f.direction = "higher_is_better" THEN m.value + 1 ELSE m.value - 1
  BY <1>1 DEF Improved, Metrics
<1> HIDE DEF b
<1>3. d \in Nat /\ e \in Nat /\ d <= e
  <2>1. CASE f.direction = "higher_is_better"
    <3>1. b.value = m.value + 1 /\ b.value \in Int /\ m.value <= b.value
      BY <1>1, <1>2, <2>1
    <3>2. /\ Normalize(f, m.value) \in 0 .. Unit /\ Normalize(f, b.value) \in 0 .. Unit
          /\ Normalize(f, m.value) <= Normalize(f, b.value)
      BY <1>1, <3>1, NormalizeGrows
    <3> QED
      BY <1>1, <2>1, <3>2 DEF Directed
  <2>2. CASE f.direction = "lower_is_better"
    <3>1. b.value = m.value - 1 /\ b.value \in Int /\ b.value <= m.value
      BY <1>1, <1>2, <2>2
    <3>2. /\ Normalize(f, m.value) \in 0 .. Unit /\ Normalize(f, b.value) \in 0 .. Unit
          /\ Normalize(f, b.value) <= Normalize(f, m.value)
      BY <1>1, <3>1, NormalizeGrows
    <3> QED
      BY <1>1, <2>2, <3>2 DEF Directed
  <2> QED
    BY <1>1, <2>1, <2>2 DEF Directions
<1>4. Contribution(f, m) = d * f.weight /\ Contribution(f, b) = e * f.weight
  BY DEF Contribution
<1> HIDE DEF d, e
<1>5. Contribution(f, m) <= Contribution(f, b)
  BY <1>1, <1>3, <1>4, ProductGrows
<1> QED
  BY <1>2, <1>5 DEF b

-----------------------------------------------------------------------------
(* The score of a candidate lies between nothing and the whole unit of     *)
(* every weight.                                                           *)
LEMMA ScoreBounds ==
  ASSUME NEW fs, ValidFactors(fs), NEW c, Answerable(fs, c)
  PROVE  /\ Unit * SumFunction([k \in DOMAIN fs |-> fs[k].weight]) \in Int
         /\ ScoreOf(fs, c) \in Int
         /\ ScoreOf(fs, c) \in 0 .. Unit * SumFunction([k \in DOMAIN fs |-> fs[k].weight])
<1> DEFINE D == DOMAIN fs
           zero == [k \in D |-> 0]
           each == [k \in D |-> Contribution(fs[k], c.metrics[k])]
           weights == [k \in D |-> fs[k].weight]
           whole == [k \in D |-> Unit * fs[k].weight]
<1>1. IsFiniteSet(D)
  BY LenProperties, FS_Interval DEF ValidFactors
<1>2. ASSUME NEW k \in D
      PROVE  /\ each[k] \in Nat /\ weights[k] \in Int
             /\ whole[k] \in Int /\ whole[k] = Unit * weights[k]
             /\ each[k] <= whole[k]
  <2>1. fs[k] \in Factors /\ fs[k].lower < fs[k].upper /\ c.metrics[k] \in Metrics
    BY LenProperties, ElementOfSeq DEF ValidFactors, Answerable, Candidates
  <2>2. fs[k].weight \in Int /\ Unit * fs[k].weight \in Int
    BY <2>1, ScoringAssumption DEF Factors
  <2> QED
    BY <2>1, <2>2, ContributionBounds
<1>3. \A k \in D : zero[k] \in Int /\ zero[k] = 0 * zero[k]
  OBVIOUS
<1>4. ASSUME NEW k \in D PROVE zero[k] <= each[k]
  <2>1. each[k] \in Nat
    BY <1>2
  <2> HIDE DEF each
  <2> QED BY <2>1
<1>5. /\ SumFunction(zero) = SumFunctionOnSet(zero, D)
      /\ ScoreOf(fs, c) = SumFunctionOnSet(each, D)
      /\ SumFunction(weights) = SumFunctionOnSet(weights, D)
      /\ SumFunction(whole) = SumFunctionOnSet(whole, D)
  BY DEF ScoreOf, SumFunction
<1>6. Unit \in Int
  BY ScoringAssumption
<1> HIDE DEF D, zero, each, weights, whole
<1>7. /\ SumFunctionOnSet(each, D) \in Int
      /\ SumFunctionOnSet(zero, D) <= SumFunctionOnSet(each, D)
  BY <1>1, <1>2, <1>3, <1>4, SumGrows
<1>8. SumFunctionOnSet(each, D) <= SumFunctionOnSet(whole, D)
  BY <1>1, <1>2, SumGrows
<1>9. SumFunctionOnSet(zero, D) = 0
  <2>1. SumFunctionOnSet(zero, D) \in Int
    BY <1>1, <1>3, SumGrows
  <2>2. SumFunctionOnSet(zero, D) = 0 * SumFunctionOnSet(zero, D)
    BY <1>1, <1>3, SumScales
  <2> QED BY <2>1, <2>2
<1>10. /\ SumFunctionOnSet(whole, D) = Unit * SumFunctionOnSet(weights, D)
       /\ SumFunctionOnSet(whole, D) \in Int
  BY <1>1, <1>2, <1>6, SumScales, SumGrows
<1>11. /\ Unit * SumFunction(weights) \in Int
       /\ ScoreOf(fs, c) \in Int /\ ScoreOf(fs, c) \in 0 .. Unit * SumFunction(weights)
  BY <1>5, <1>7, <1>8, <1>9, <1>10
<1> QED
  BY <1>11 DEF weights, D

(* What is made of a candidate.                                            *)
LEMMA OutcomeType ==
  ASSUME NEW fs, ValidFactors(fs), NEW c, Answerable(fs, c)
  PROVE  /\ Outcome(fs, c) \in Outcomes
         /\ Outcome(fs, c).id = c.id
         /\ Outcome(fs, c).status = CandidateStatus(fs, c)
         /\ IsRanked(Outcome(fs, c)) => Outcome(fs, c).score = ScoreOf(fs, c)
         /\ ~ IsRanked(Outcome(fs, c)) => Outcome(fs, c).score = 0
<1> DEFINE s == CandidateStatus(fs, c)
<1>1. s \in CandidateStatuses
  BY DEF CandidateStatus, CandidateStatuses
<1>2. ScoreOf(fs, c) \in Int /\ c.id \in Nat
  BY ScoreBounds DEF Answerable, Candidates
<1> HIDE DEF s
<1>3. Outcome(fs, c) = [id |-> c.id, status |-> s, rank |-> 0,
                        score |-> IF s = "RANKED" THEN ScoreOf(fs, c) ELSE 0]
  BY DEF Outcome, s
<1>4. Outcome(fs, c) \in Outcomes /\ Outcome(fs, c).id = c.id /\ Outcome(fs, c).status = s
      /\ Outcome(fs, c).score = IF s = "RANKED" THEN ScoreOf(fs, c) ELSE 0
  BY <1>1, <1>2, <1>3 DEF Outcomes
<1> QED
  BY <1>4 DEF IsRanked, s

-----------------------------------------------------------------------------
(* Ahead is a strict and total order.                                      *)
LEMMA AheadIsStrictOrder ==
  ASSUME NEW n \in Nat, NEW os \in [1 .. n -> Outcomes]
  PROVE  /\ \A i \in 1 .. n : ~ Ahead(os, i, i)
         /\ \A i, j, k \in 1 .. n : Ahead(os, i, j) /\ Ahead(os, j, k) => Ahead(os, i, k)
         /\ \A i, j \in 1 .. n : i # j => Ahead(os, i, j) \/ Ahead(os, j, i)
<1>1. \A i \in 1 .. n : os[i].score \in Int /\ os[i].id \in Nat
  BY DEF Outcomes
<1> QED
  BY <1>1 DEF Ahead, Before

(* An outcome as the answer has it at a place.                             *)
Listed(o, k) == [o EXCEPT !.rank = IF IsRanked(o) THEN k ELSE 0]

(* It is the same but for its rank.                                        *)
LEMMA ListedKeeps ==
  ASSUME NEW o \in Outcomes, NEW k \in Nat
  PROVE  /\ Listed(o, k) \in Outcomes
         /\ Listed(o, k).id = o.id
         /\ IsRanked(Listed(o, k)) <=> IsRanked(o)
BY DEF Listed, Outcomes, IsRanked

(* The answer lists each outcome at its place, and nothing else.           *)
LEMMA RankingListsByPlace ==
  ASSUME NEW n \in Nat, NEW os \in [1 .. n -> Outcomes]
  PROVE  /\ Ranking(os) \in [1 .. n -> Outcomes]
         /\ \A i \in 1 .. n :
              /\ Place(os, i) \in 1 .. n
              /\ Ranking(os)[Place(os, i)] = Listed(os[i], Place(os, i))
         /\ \A i, j \in 1 .. n : Place(os, i) = Place(os, j) => i = j
         /\ \A k \in 1 .. n : \E i \in 1 .. n : Place(os, i) = k
<1> DEFINE D == 1 .. n
           R == {e \in D \X D : Ahead(os, e[1], e[2])}
           seatedAt(k) == CHOOSE i \in D : Place(os, i) = k
<1>1. IsFiniteSet(D) /\ Cardinality(D) = n
  <2>1. 1 \in Int /\ n \in Int
    OBVIOUS
  <2>2. IsFiniteSet(D) /\ Cardinality(D) = IF 1 > n THEN 0 ELSE n - 1 + 1
    BY <2>1, FS_Interval
  <2> QED BY <2>2
<1>2. DOMAIN os = D
  OBVIOUS
<1>3. \A i, j \in D : <<j, i>> \in R <=> Ahead(os, j, i)
  OBVIOUS
<1>4. \A i \in D : Place(os, i) = PlaceIn(D, R, i)
  <2> TAKE i \in D
  <2>1. {j \in D : Ahead(os, j, i)} = {j \in D : <<j, i>> \in R}
    BY <1>3
  <2> HIDE DEF R, D
  <2> QED BY <1>2, <2>1 DEF Place, PlaceIn
<1>5. /\ \A i \in D : <<i, i>> \notin R
      /\ \A i, j, k \in D : <<i, j>> \in R /\ <<j, k>> \in R => <<i, k>> \in R
      /\ \A i, j \in D : i # j => <<i, j>> \in R \/ <<j, i>> \in R
  <2>1. /\ \A i \in D : ~ Ahead(os, i, i)
        /\ \A i, j, k \in D : Ahead(os, i, j) /\ Ahead(os, j, k) => Ahead(os, i, k)
        /\ \A i, j \in D : i # j => Ahead(os, i, j) \/ Ahead(os, j, i)
    BY AheadIsStrictOrder
  <2> HIDE DEF R, D
  <2> QED BY <1>3, <2>1
<1>6. /\ \A i \in D : Place(os, i) \in 1 .. n
      /\ \A i, j \in D : Place(os, i) = Place(os, j) => i = j
      /\ \A k \in 1 .. n : \E i \in D : Place(os, i) = k
  <2> HIDE DEF R, D
  <2>1. /\ \A i \in D : PlaceIn(D, R, i) \in 1 .. n
        /\ \A i, j \in D : PlaceIn(D, R, i) = PlaceIn(D, R, j) => i = j
        /\ \A k \in 1 .. n : \E i \in D : PlaceIn(D, R, i) = k
    <3>1. IsFiniteSet(D)
      BY <1>1
    <3>2. /\ \A i \in D : PlaceIn(D, R, i) \in 1 .. Cardinality(D)
          /\ \A i, j \in D : PlaceIn(D, R, i) = PlaceIn(D, R, j) => i = j
          /\ \A k \in 1 .. Cardinality(D) : \E i \in D : PlaceIn(D, R, i) = k
          /\ \A i, j \in D : <<i, j>> \in R => PlaceIn(D, R, i) < PlaceIn(D, R, j)
      BY <1>5, <3>1, PlacesAreBijective
    <3> QED BY <1>1, <3>2
  <2> QED BY <1>4, <2>1
<1>7. \A k \in D : seatedAt(k) \in D /\ Place(os, seatedAt(k)) = k
  BY <1>6
<1>8. \A i \in D : seatedAt(Place(os, i)) = i
  BY <1>6
<1> HIDE DEF seatedAt
<1>9. \A i, k \in D : Listed(os[i], k) \in Outcomes
  BY ListedKeeps
<1>10. Ranking(os) = [k \in D |-> Listed(os[seatedAt(k)], k)]
  BY <1>2 DEF Ranking, seatedAt, Listed
<1>11. Ranking(os) \in [D -> Outcomes]
  BY <1>7, <1>9, <1>10
<1>12. \A i \in D : Ranking(os)[Place(os, i)] = Listed(os[i], Place(os, i))
  BY <1>6, <1>8, <1>10
<1> QED
  BY <1>6, <1>11, <1>12

-----------------------------------------------------------------------------
(* Outcomes with ids of their own, and the same outcomes rearranged.       *)
Distinct(os, n) == \A i, j \in 1 .. n : os[i].id = os[j].id => i = j

Rearranges(p, os, ps, n) ==
  /\ os \in [1 .. n -> Outcomes] /\ ps \in [1 .. n -> Outcomes]
  /\ p \in Bijection(1 .. n, 1 .. n)
  /\ \A k \in 1 .. n : ps[k] = os[p[k]]

(* The places of a ranked outcome among outcomes with ids of their own:    *)
(* nothing but what the outcomes are counts.                               *)
LEMMA RankedAreAheadOnMerit ==
  ASSUME NEW n \in Nat, NEW os \in [1 .. n -> Outcomes], Distinct(os, n),
         NEW i \in 1 .. n, IsRanked(os[i]), NEW j \in 1 .. n
  PROVE  Ahead(os, j, i) <=> IsRanked(os[j]) /\ Before(os[j], os[i])
<1>1. /\ os[i].score \in Int /\ os[i].id \in Nat
      /\ os[j].score \in Int /\ os[j].id \in Nat
  BY DEF Outcomes
<1>2. j # i => os[j].id # os[i].id
  BY DEF Distinct
<1> QED
  BY <1>1, <1>2 DEF Ahead, Before

(* However the outcomes are arranged, a ranked one has the same place.     *)
LEMMA PlaceIgnoresArrangement ==
  ASSUME NEW n \in Nat, NEW p, NEW os, NEW ps, Rearranges(p, os, ps, n), Distinct(os, n),
         NEW i \in 1 .. n, IsRanked(os[p[i]])
  PROVE  Place(ps, i) = Place(os, p[i])
<1> DEFINE D == 1 .. n
           A == {j \in D : Ahead(ps, j, i)}
           B == {j \in D : Ahead(os, j, p[i])}
           q == [j \in A |-> p[j]]
<1>1. /\ p \in [D -> D]
      /\ \A j, k \in D : p[j] = p[k] => j = k
      /\ \A k \in D : \E j \in D : p[j] = k
  BY DEF Rearranges, Bijection, Injection, Surjection, IsInjective
<1>2. /\ os \in [1 .. n -> Outcomes] /\ ps \in [1 .. n -> Outcomes]
      /\ \A j \in D : ps[j] = os[p[j]]
  BY DEF Rearranges
<1>3. Distinct(ps, n)
  <2> SUFFICES ASSUME NEW j \in D, NEW k \in D, ps[j].id = ps[k].id PROVE j = k
    BY DEF Distinct
  <2>1. p[j] \in 1 .. n /\ p[k] \in 1 .. n /\ ps[j] = os[p[j]] /\ ps[k] = os[p[k]]
    BY <1>1, <1>2
  <2>2. p[j] = p[k]
    BY <2>1 DEF Distinct
  <2> QED
    BY <1>1, <2>2
<1>4. ASSUME NEW j \in D
      PROVE  Ahead(ps, j, i) <=> IsRanked(os[p[j]]) /\ Before(os[p[j]], os[p[i]])
  <2>1. ps[j] = os[p[j]] /\ ps[i] = os[p[i]]
    BY <1>2
  <2>2. Ahead(ps, j, i) <=> IsRanked(ps[j]) /\ Before(ps[j], ps[i])
    BY <1>2, <1>3, <2>1, RankedAreAheadOnMerit
  <2> QED
    BY <2>1, <2>2
<1>5. \A j \in D : Ahead(os, j, p[i]) <=> IsRanked(os[j]) /\ Before(os[j], os[p[i]])
  BY <1>1, <1>2, RankedAreAheadOnMerit
<1>6. \A j \in D : j \in A <=> p[j] \in B
  BY <1>1, <1>4, <1>5
<1>7. IsFiniteSet(A)
  <2>1. 1 \in Int /\ n \in Int
    OBVIOUS
  <2>2. IsFiniteSet(D)
    BY <2>1, FS_Interval
  <2>3. A \in SUBSET D
    OBVIOUS
  <2> HIDE DEF A, D
  <2> QED BY <2>2, <2>3, FS_Subset
<1>8. A \subseteq D /\ B \subseteq D
  OBVIOUS
<1>9. Place(ps, i) = 1 + Cardinality(A) /\ Place(os, p[i]) = 1 + Cardinality(B)
  BY <1>2 DEF Place
<1> HIDE DEF A, B, D
<1>10. q \in Bijection(A, B)
  <2>1. q \in [A -> B] /\ \A j \in A : q[j] = p[j]
    BY <1>6, <1>8
  <2> HIDE DEF q
  <2>2. \A k \in B : \E j \in A : q[j] = k
    BY <1>1, <1>6, <1>8, <2>1
  <2>3. \A j, k \in A : q[j] = q[k] => j = k
    BY <1>1, <1>8, <2>1
  <2> QED
    BY <2>1, <2>2, <2>3 DEF Bijection, Injection, Surjection, IsInjective
<1>11. Cardinality(A) = Cardinality(B)
  BY <1>7, <1>10, FS_Bijection DEF ExistsBijection
<1> QED
  BY <1>9, <1>11

(* The same in the answer: its ranked part does not change.                *)
LEMMA RankedPartIgnoresArrangement ==
  ASSUME NEW n \in Nat, NEW p, NEW os, NEW ps, Rearranges(p, os, ps, n), Distinct(os, n)
  PROVE  RankedPart(Ranking(ps)) = RankedPart(Ranking(os))
<1> DEFINE D == 1 .. n
           r == Ranking(os)
           s == Ranking(ps)
<1>1. /\ p \in [D -> D]
      /\ \A k \in D : \E j \in D : p[j] = k
  BY DEF Rearranges, Bijection, Injection, Surjection
<1>2. /\ os \in [1 .. n -> Outcomes] /\ ps \in [1 .. n -> Outcomes]
      /\ \A j \in D : ps[j] = os[p[j]]
  BY DEF Rearranges
<1>3. \A i \in D : IsRanked(os[p[i]]) => Place(ps, i) = Place(os, p[i])
  BY PlaceIgnoresArrangement
<1>4. /\ r \in [D -> Outcomes]
      /\ \A i \in D : /\ Place(os, i) \in D
                      /\ r[Place(os, i)] = Listed(os[i], Place(os, i))
      /\ \A k \in D : \E i \in D : Place(os, i) = k
  BY <1>2, RankingListsByPlace
<1>5. /\ s \in [D -> Outcomes]
      /\ \A i \in D : /\ Place(ps, i) \in D
                      /\ s[Place(ps, i)] = Listed(ps[i], Place(ps, i))
      /\ \A k \in D : \E i \in D : Place(ps, i) = k
  BY <1>2, RankingListsByPlace
<1> HIDE DEF r, s, D
<1>6. \A o \in Outcomes, k \in D : IsRanked(Listed(o, k)) <=> IsRanked(o)
  BY ListedKeeps DEF D
<1>7. ASSUME NEW k \in D
      PROVE  /\ IsRanked(s[k]) <=> IsRanked(r[k])
             /\ IsRanked(s[k]) => s[k] = r[k]
  <2>1. \A i \in D : os[i] \in Outcomes
    BY <1>2 DEF D
  <2>2. ASSUME NEW i \in D, IsRanked(os[p[i]])
        PROVE  s[Place(ps, i)] = r[Place(ps, i)] /\ IsRanked(r[Place(ps, i)])
    <3>1. Place(ps, i) = Place(os, p[i]) /\ p[i] \in D /\ ps[i] = os[p[i]]
      BY <1>1, <1>2, <1>3, <2>2
    <3>2. s[Place(ps, i)] = Listed(os[p[i]], Place(ps, i))
      BY <1>5, <2>2, <3>1
    <3>3. r[Place(os, p[i])] = Listed(os[p[i]], Place(os, p[i]))
      BY <1>4, <2>2, <3>1
    <3> QED
      BY <1>4, <1>6, <2>1, <2>2, <3>1, <3>2, <3>3
  <2>3. PICK i \in D : Place(ps, i) = k
    BY <1>5
  <2>4. PICK j \in D : Place(os, j) = k
    BY <1>4
  <2>5. PICK h \in D : p[h] = j
    BY <1>1
  <2>6. IsRanked(s[k]) => IsRanked(os[p[i]])
    <3>1. p[i] \in D /\ ps[i] = os[p[i]]
      BY <1>1, <1>2
    <3>2. s[k] = Listed(os[p[i]], k)
      BY <1>5, <2>3, <3>1
    <3> QED
      BY <1>6, <2>1, <3>1, <3>2
  <2>7. IsRanked(r[k]) => IsRanked(os[p[h]]) /\ Place(ps, h) = k
    <3>1. r[k] = Listed(os[j], k)
      BY <1>4, <2>4
    <3>2. IsRanked(r[k]) => IsRanked(os[p[h]])
      BY <1>6, <2>1, <2>5, <3>1
    <3> QED
      BY <1>3, <2>4, <2>5, <3>2
  <2> QED
    BY <2>2, <2>3, <2>6, <2>7
<1>8. DOMAIN r = D /\ DOMAIN s = D
  BY <1>4, <1>5
<1>9. {k \in D : IsRanked(s[k])} = {k \in D : IsRanked(r[k])}
  BY <1>7
<1>10. RankedPart(s) = RankedPart(r)
  BY <1>7, <1>8, <1>9 DEF RankedPart, Restrict
<1> QED
  BY <1>10 DEF r, s, D

-----------------------------------------------------------------------------
(* What the outcomes and the answer are at any moment: those of the        *)
(* candidates that have had their turn, and of all of them.                *)
Turns(fs, cs, n) == [i \in 1 .. n |-> Outcome(fs, cs[i])]

AnswerInv ==
  /\ scoring \in ScoringRequests
  /\ Len(outcomes) \in 0 .. Len(scoring.candidates)
  /\ outcomes = Turns(scoring.factors, scoring.candidates, Len(outcomes))
  /\ ranking # <<>> => ranking = Answer(scoring.factors, scoring.candidates)

(* What a request is.                                                      *)
LEMMA ScoringRequestFacts ==
  ASSUME NEW r \in ScoringRequests
  PROVE  /\ ValidFactors(r.factors)
         /\ r.candidates \in Seq(Candidates)
         /\ Len(r.candidates) \in Nat \ {0}
         /\ DOMAIN r.candidates = 1 .. Len(r.candidates)
         /\ \A i \in 1 .. Len(r.candidates) : Answerable(r.factors, r.candidates[i])
         /\ \A i, j \in 1 .. Len(r.candidates) :
              r.candidates[i].id = r.candidates[j].id => i = j
<1> DEFINE cs == r.candidates
<1>1. ValidScoringRequest(r)
  BY ScoringAssumption
<1>2. ValidFactors(r.factors) /\ cs \in Seq(Candidates) /\ cs # <<>>
  BY <1>1 DEF ValidScoringRequest, ValidFactors, Candidates
<1>3. /\ \A i \in DOMAIN cs : Len(cs[i].metrics) = Len(r.factors)
      /\ \A i, j \in DOMAIN cs : cs[i].id = cs[j].id => i = j
  BY <1>1 DEF ValidScoringRequest
<1> HIDE DEF cs
<1>4. Len(cs) \in Nat \ {0} /\ DOMAIN cs = 1 .. Len(cs)
  BY <1>2, LenProperties, EmptySeq
<1>5. \A i \in 1 .. Len(cs) : cs[i] \in Candidates
  BY <1>2, ElementOfSeq
<1> QED
  BY <1>2, <1>3, <1>4, <1>5 DEF Answerable, cs

(* An interval tells its length.                                           *)
LEMMA SameInterval ==
  ASSUME NEW m \in Nat, NEW n \in Nat, 1 .. m = 1 .. n
  PROVE  m = n
<1>1. ASSUME NEW k \in Nat, NEW l \in Nat, k < l PROVE 1 .. k # 1 .. l
  <2>1. l \in 1 .. l /\ l \notin 1 .. k
    BY <1>1
  <2> QED BY <2>1
<1>2. ~ (m < n) /\ ~ (n < m)
  BY <1>1
<1> QED BY <1>2

(* The outcomes of the first candidates.                                   *)
LEMMA TurnsType ==
  ASSUME NEW fs, ValidFactors(fs), NEW n \in Nat, NEW cs,
         \A i \in 1 .. n : Answerable(fs, cs[i])
  PROVE  /\ Turns(fs, cs, n) \in [1 .. n -> Outcomes]
         /\ Turns(fs, cs, n) \in Seq(Outcomes)
         /\ Len(Turns(fs, cs, n)) = n
         /\ \A i \in 1 .. n : Turns(fs, cs, n)[i] = Outcome(fs, cs[i])
                              /\ Turns(fs, cs, n)[i].id = cs[i].id
<1> DEFINE t == Turns(fs, cs, n)
<1>1. t = [i \in 1 .. n |-> Outcome(fs, cs[i])]
  BY DEF Turns
<1>2. \A i \in 1 .. n : Outcome(fs, cs[i]) \in Outcomes /\ Outcome(fs, cs[i]).id = cs[i].id
  BY OutcomeType
<1> HIDE DEF t
<1>3. t \in [1 .. n -> Outcomes] /\ \A i \in 1 .. n : t[i] = Outcome(fs, cs[i])
  BY <1>1, <1>2
<1>4. t \in Seq(Outcomes)
  BY <1>3, SeqDef
<1>5. 1 .. Len(t) = 1 .. n /\ Len(t) \in Nat
  BY <1>3, <1>4, LenProperties
<1>6. Len(t) = n
  BY <1>5, SameInterval
<1> QED
  BY <1>2, <1>3, <1>4, <1>6 DEF t

(* The invariant holds before a candidate is scored, and each step keeps   *)
(* it.                                                                     *)
LEMMA AnswerInvInitially == ScoringInit => AnswerInv
<1> SUFFICES ASSUME ScoringInit PROVE AnswerInv
  OBVIOUS
<1> DEFINE fs == scoring.factors
           cs == scoring.candidates
<1>1. scoring \in ScoringRequests /\ outcomes = <<>> /\ ranking = <<>>
  BY DEF ScoringInit
<1>2. Len(cs) \in Nat /\ ValidFactors(fs)
  BY <1>1, ScoringRequestFacts
<1>3. Turns(fs, cs, 0) \in Seq(Outcomes) /\ Len(Turns(fs, cs, 0)) = 0
  BY <1>2, TurnsType
<1>4. outcomes = Turns(fs, cs, 0) /\ Len(outcomes) = 0
  BY <1>1, <1>3, EmptySeq
<1> QED
  BY <1>1, <1>2, <1>4 DEF AnswerInv

(* A step scores the next candidate, or ranks the outcomes of all.         *)
LEMMA AnswerInvNext == AnswerInv /\ [ScoringNext]_scoringVars => AnswerInv'
<1> SUFFICES ASSUME AnswerInv, [ScoringNext]_scoringVars PROVE AnswerInv'
  OBVIOUS
<1> DEFINE fs == scoring.factors
           cs == scoring.candidates
           n == Len(outcomes)
<1>1. /\ scoring \in ScoringRequests /\ n \in 0 .. Len(cs) /\ outcomes = Turns(fs, cs, n)
      /\ ranking # <<>> => ranking = Answer(fs, cs)
  BY DEF AnswerInv
<1>2. /\ ValidFactors(fs) /\ Len(cs) \in Nat /\ DOMAIN cs = 1 .. Len(cs)
      /\ \A i \in 1 .. Len(cs) : Answerable(fs, cs[i])
  BY <1>1, ScoringRequestFacts
<1>3. CASE ScoreCandidate
  <2>1. /\ ranking = <<>> /\ n < Len(cs) /\ UNCHANGED <<scoring, ranking>>
        /\ outcomes' = Append(outcomes, Outcome(fs, cs[n + 1]))
    BY <1>3 DEF ScoreCandidate
  <2> DEFINE t == Turns(fs, cs, n)
             u == Turns(fs, cs, n + 1)
             o == Outcome(fs, cs[n + 1])
  <2>2. n \in Nat /\ n + 1 \in 0 .. Len(cs)
    BY <1>1, <1>2, <2>1
  <2>3. /\ t \in Seq(Outcomes) /\ Len(t) = n
        /\ \A i \in 1 .. n : t[i] = Outcome(fs, cs[i])
    BY <1>2, <2>2, TurnsType
  <2>4. /\ u \in Seq(Outcomes) /\ Len(u) = n + 1
        /\ \A i \in 1 .. n + 1 : u[i] = Outcome(fs, cs[i])
    BY <1>2, <2>2, TurnsType
  <2>5. o \in Outcomes
    BY <1>2, <2>2, OutcomeType
  <2> HIDE DEF t, u
  <2>6. /\ Append(t, o) \in Seq(Outcomes) /\ Len(Append(t, o)) = n + 1
        /\ \A i \in 1 .. n + 1 : Append(t, o)[i] = IF i <= n THEN t[i] ELSE o
    BY <2>2, <2>3, <2>5, AppendProperties
  <2>7. Append(t, o) = u
    <3>1. \A i \in 1 .. n + 1 : Append(t, o)[i] = u[i]
      BY <2>2, <2>3, <2>4, <2>6
    <3> QED BY <2>4, <2>6, <3>1, SeqEqual
  <2>8. outcomes' = u /\ Len(outcomes') = n + 1
    BY <1>1, <2>1, <2>4, <2>7 DEF t
  <2> QED
    BY <1>1, <2>1, <2>2, <2>8 DEF AnswerInv, u
<1>4. CASE RankCandidates
  <2>1. /\ n = Len(cs) /\ UNCHANGED <<scoring, outcomes>> /\ ranking' = Ranking(outcomes)
    BY <1>4 DEF RankCandidates
  <2>2. ranking' = Answer(fs, cs)
    BY <1>1, <1>2, <2>1 DEF Answer, Turns
  <2> QED
    BY <1>1, <2>1, <2>2 DEF AnswerInv
<1>5. CASE UNCHANGED scoringVars
  BY <1>5 DEF scoringVars, AnswerInv
<1> QED
  BY <1>3, <1>4, <1>5 DEF ScoringNext

(* The answer is that of the whole request, in every state that has one.   *)
THEOREM ScoringAnswers == ScoringSpec => []AnswerInv
BY AnswerInvInitially, AnswerInvNext, PTL DEF ScoringSpec

-----------------------------------------------------------------------------
(* The type of the engine's state: every score lies between nothing and    *)
(* the whole weight.                                                       *)
LEMMA AnswersAreTyped == AnswerInv => ScoringTypeOK
<1> SUFFICES ASSUME AnswerInv PROVE ScoringTypeOK
  OBVIOUS
<1> DEFINE fs == scoring.factors
           cs == scoring.candidates
           n == Len(outcomes)
<1>1. /\ scoring \in ScoringRequests /\ n \in 0 .. Len(cs) /\ outcomes = Turns(fs, cs, n)
      /\ ranking # <<>> => ranking = Answer(fs, cs)
  BY DEF AnswerInv
<1>2. /\ ValidFactors(fs) /\ Len(cs) \in Nat /\ DOMAIN cs = 1 .. Len(cs)
      /\ \A i \in 1 .. Len(cs) : Answerable(fs, cs[i])
  BY <1>1, ScoringRequestFacts
<1>3. n \in Nat /\ n <= Len(cs)
  BY <1>1, <1>2
<1>4. Len(ranking) \in {0, Len(cs)}
  <2>1. CASE ranking = <<>>
    BY <2>1
  <2>2. CASE ranking # <<>>
    <3>1. Turns(fs, cs, Len(cs)) \in [1 .. Len(cs) -> Outcomes]
      BY <1>2, TurnsType
    <3>2. Ranking(Turns(fs, cs, Len(cs))) \in [1 .. Len(cs) -> Outcomes]
      BY <1>2, <3>1, RankingListsByPlace
    <3>3. ranking = Ranking(Turns(fs, cs, Len(cs)))
      BY <1>1, <1>2, <2>2 DEF Answer, Turns
    <3>4. ranking \in Seq(Outcomes)
      BY <1>2, <3>2, <3>3, SeqDef
    <3>5. 1 .. Len(ranking) = 1 .. Len(cs) /\ Len(ranking) \in Nat
      BY <3>2, <3>3, <3>4, LenProperties
    <3> QED
      BY <1>2, <3>5, SameInterval
  <2> QED
    BY <2>1, <2>2
<1>5. ASSUME NEW i \in DOMAIN outcomes
      PROVE  /\ outcomes[i].status \in CandidateStatuses
             /\ outcomes[i].score \in 0 .. Unit * SumFunction([k \in DOMAIN fs |-> fs[k].weight])
  <2> DEFINE c == cs[i]
             o == Outcome(fs, c)
             top == Unit * SumFunction([k \in DOMAIN fs |-> fs[k].weight])
  <2>1. Turns(fs, cs, n) \in [1 .. n -> Outcomes]
        /\ \A j \in 1 .. n : Turns(fs, cs, n)[j] = Outcome(fs, cs[j])
    BY <1>2, <1>3, TurnsType
  <2>2. i \in 1 .. n /\ outcomes[i] = o
    BY <1>1, <2>1
  <2>3. Answerable(fs, c)
    BY <1>2, <1>3, <2>2
  <2>4. ScoreOf(fs, c) \in Int /\ ScoreOf(fs, c) \in 0 .. top /\ top \in Int
    BY <1>2, <2>3, ScoreBounds
  <2>5. /\ o \in Outcomes
        /\ IsRanked(o) => o.score = ScoreOf(fs, c)
        /\ ~ IsRanked(o) => o.score = 0
    BY <1>2, <2>3, OutcomeType
  <2> HIDE DEF o, c, top
  <2>6. o.score \in 0 .. top
    BY <2>4, <2>5
  <2> QED
    BY <2>2, <2>5, <2>6 DEF Outcomes, top
<1> QED
  BY <1>3, <1>4, <1>5 DEF ScoringTypeOK

(* Each outcome and each answer has its type, the scores within the weight *)
(* of the factors.                                                         *)
THEOREM ScoringTypes == ScoringSpec => []ScoringTypeOK
BY ScoringAnswers, AnswersAreTyped, PTL

-----------------------------------------------------------------------------
(* The answer to rearranged candidates has the same ranked part.           *)
LEMMA AnswersIgnoreArrival == AnswerInv => RankingIgnoresArrival
<1> SUFFICES ASSUME AnswerInv, ranking # <<>>, NEW ds \in Reordered(scoring.candidates)
             PROVE  RankedPart(Answer(scoring.factors, ds)) = RankedPart(ranking)
  BY DEF RankingIgnoresArrival
<1> DEFINE fs == scoring.factors
           cs == scoring.candidates
           n == Len(cs)
           D == 1 .. n
           os == Turns(fs, cs, n)
           ps == Turns(fs, ds, n)
<1>1. scoring \in ScoringRequests /\ ranking = Answer(fs, cs)
  BY DEF AnswerInv
<1>2. /\ ValidFactors(fs) /\ n \in Nat /\ DOMAIN cs = D
      /\ \A i \in D : Answerable(fs, cs[i])
      /\ \A i, j \in D : cs[i].id = cs[j].id => i = j
  BY <1>1, ScoringRequestFacts
<1>3. PICK p \in [D -> D] : /\ \A i, j \in D : p[i] = p[j] => i = j
                            /\ ds = [i \in D |-> cs[p[i]]]
  BY <1>2 DEF Reordered
<1>4. p \in Bijection(D, D)
  <2>1. p \in Injection(D, D)
    BY <1>3 DEF Injection, IsInjective
  <2>2. IsFiniteSet(D)
    BY <1>2, FS_Interval
  <2>3. p \in Surjection(D, D)
    BY <2>1, <2>2, FS_Injection
  <2> QED
    BY <2>1, <2>3 DEF Bijection
<1>5. /\ os \in [D -> Outcomes]
      /\ \A i \in D : os[i] = Outcome(fs, cs[i]) /\ os[i].id = cs[i].id
  BY <1>2, TurnsType
<1>6. Distinct(os, n)
  BY <1>2, <1>5 DEF Distinct
<1>7. Answer(fs, cs) = Ranking(os)
  BY <1>2 DEF Answer, Turns
<1>8. DOMAIN ds = D /\ \A i \in D : ds[i] = cs[p[i]]
  BY <1>3
<1>9. \A i \in D : Answerable(fs, ds[i])
  BY <1>2, <1>3, <1>8
<1>10. Rearranges(p, os, ps, n)
  <2>1. ps \in [D -> Outcomes] /\ \A i \in D : ps[i] = Outcome(fs, ds[i])
    BY <1>2, <1>9, TurnsType
  <2> QED
    BY <1>3, <1>4, <1>5, <1>8, <2>1 DEF Rearranges
<1>11. Answer(fs, ds) = Ranking(ps)
  BY <1>8 DEF Answer, Turns
<1> HIDE DEF os, ps, n
<1>12. RankedPart(Ranking(ps)) = RankedPart(Ranking(os))
  BY <1>2, <1>6, <1>10, RankedPartIgnoresArrangement
<1> QED
  BY <1>1, <1>7, <1>11, <1>12

(* Where a candidate stands does not depend on when it was scored.         *)
THEOREM ScoringIgnoresArrival == ScoringSpec => []RankingIgnoresArrival
BY ScoringAnswers, AnswersIgnoreArrival, PTL

-----------------------------------------------------------------------------
(* A candidate with one metric improved: as before, with a score that is   *)
(* no lower.                                                               *)
LEMMA ImprovedCandidate ==
  ASSUME NEW fs, ValidFactors(fs), NEW c, Answerable(fs, c), NEW k \in DOMAIN fs,
         NEW d, d = [c EXCEPT !.metrics[k] = Improved(fs[k], @)]
  PROVE  /\ Answerable(fs, d) /\ d.id = c.id
         /\ CandidateStatus(fs, d) = CandidateStatus(fs, c)
         /\ ScoreOf(fs, c) <= ScoreOf(fs, d)
<1> DEFINE D == DOMAIN fs
           old == [i \in D |-> Contribution(fs[i], c.metrics[i])]
           new == [i \in D |-> Contribution(fs[i], d.metrics[i])]
<1>1. /\ c.metrics \in Seq(Metrics) /\ c.id \in Nat /\ c.authorized \in BOOLEAN
      /\ Len(c.metrics) = Len(fs)
      /\ c = [id |-> c.id, authorized |-> c.authorized, metrics |-> c.metrics]
  BY DEF Answerable, Candidates
<1>2. /\ IsFiniteSet(D) /\ D = 1 .. Len(fs) /\ D = 1 .. Len(c.metrics)
      /\ \A i \in D : fs[i] \in Factors /\ fs[i].lower < fs[i].upper
  <2>1. fs \in Seq(Factors) /\ \A i \in D : fs[i].lower < fs[i].upper
    BY DEF ValidFactors
  <2>2. D = 1 .. Len(fs) /\ Len(fs) \in Nat
    BY <2>1, LenProperties
  <2>3. IsFiniteSet(1 .. Len(fs))
    BY <2>2, FS_Interval
  <2>4. \A i \in D : fs[i] \in Factors
    BY <2>1, <2>2, ElementOfSeq
  <2> HIDE DEF D
  <2> QED BY <1>1, <2>1, <2>2, <2>3, <2>4
<1>3. \A i \in D : c.metrics[i] \in Metrics
  BY <1>1, <1>2, ElementOfSeq
<1>4. /\ Improved(fs[k], c.metrics[k]) \in Metrics
      /\ Improved(fs[k], c.metrics[k]).kind = c.metrics[k].kind
      /\ Contribution(fs[k], c.metrics[k]) <= Contribution(fs[k], Improved(fs[k], c.metrics[k]))
  BY <1>2, <1>3, ContributionGrows
<1>5. /\ d.id = c.id
      /\ d.metrics = [c.metrics EXCEPT ![k] = Improved(fs[k], @)]
      /\ d = [id |-> c.id, authorized |-> c.authorized, metrics |-> d.metrics]
  BY <1>1
<1>6. /\ d.metrics \in Seq(Metrics) /\ Len(d.metrics) = Len(fs)
      /\ \A i \in D : d.metrics[i] = IF i = k THEN Improved(fs[k], c.metrics[k]) ELSE c.metrics[i]
  BY <1>1, <1>2, <1>4, <1>5, ExceptSeq
<1>7. Answerable(fs, d)
  BY <1>1, <1>5, <1>6 DEF Answerable, Candidates
<1> HIDE DEF D
<1>8. \A i \in D : d.metrics[i].kind = c.metrics[i].kind
  BY <1>4, <1>6
<1>9. CandidateStatus(fs, d) = CandidateStatus(fs, c)
  <2>1. {d.metrics[i].kind : i \in D} = {c.metrics[i].kind : i \in D}
    BY <1>8
  <2> QED
    BY <2>1 DEF CandidateStatus, D
<1>10. \A i \in D : old[i] \in Int /\ new[i] \in Int /\ old[i] <= new[i]
  <2> TAKE i \in D
  <2>1. /\ Contribution(fs[i], c.metrics[i]) \in Nat
        /\ Contribution(fs[i], d.metrics[i]) \in Nat
    BY <1>2, <1>3, <1>4, <1>6, ContributionBounds
  <2>2. Contribution(fs[i], c.metrics[i]) <= Contribution(fs[i], d.metrics[i])
    BY <1>4, <1>6, <2>1
  <2> QED
    BY <2>1, <2>2
<1>11. ScoreOf(fs, c) = SumFunction(old) /\ ScoreOf(fs, d) = SumFunction(new)
  BY DEF ScoreOf, D
<1>12. DOMAIN old = D /\ DOMAIN new = D
  OBVIOUS
<1> HIDE DEF old, new
<1>13. SumFunction(old) <= SumFunction(new)
  BY <1>2, <1>10, <1>12, SumFunctionGrows
<1> QED
  BY <1>5, <1>7, <1>9, <1>11, <1>13

(* A ranked outcome that scores more, while the others stay as they are,   *)
(* has no more of them ahead.                                              *)
LEMMA ScoringMoreKeepsThePlace ==
  ASSUME NEW n \in Nat, NEW os \in [1 .. n -> Outcomes], NEW ps \in [1 .. n -> Outcomes],
         Distinct(os, n), Distinct(ps, n),
         NEW a \in 1 .. n, IsRanked(os[a]), IsRanked(ps[a]),
         ps[a].id = os[a].id, os[a].score <= ps[a].score,
         \A j \in 1 .. n : j # a => ps[j] = os[j]
  PROVE  Place(ps, a) <= Place(os, a)
<1> DEFINE D == 1 .. n
           A == {j \in D : Ahead(ps, j, a)}
           B == {j \in D : Ahead(os, j, a)}
<1>1. \A j \in D : /\ os[j].score \in Int /\ os[j].id \in Nat
                   /\ ps[j].score \in Int /\ ps[j].id \in Nat
  BY DEF Outcomes
<1>2. ASSUME NEW j \in D, Ahead(ps, j, a) PROVE Ahead(os, j, a)
  <2>1. IsRanked(ps[j]) /\ Before(ps[j], ps[a])
    BY <1>2, RankedAreAheadOnMerit
  <2>2. j # a
    BY <1>1, <2>1 DEF Before
  <2>3. IsRanked(os[j]) /\ Before(os[j], os[a])
    BY <1>1, <2>1, <2>2 DEF Before
  <2> QED
    BY <2>3, RankedAreAheadOnMerit
<1>3. A \in SUBSET B /\ B \in SUBSET D
  BY <1>2
<1>4. Place(ps, a) = 1 + Cardinality(A) /\ Place(os, a) = 1 + Cardinality(B)
  BY DEF Place
<1>5. IsFiniteSet(D)
  <2>1. 1 \in Int /\ n \in Int
    OBVIOUS
  <2> QED BY <2>1, FS_Interval
<1> HIDE DEF A, B, D
<1>6. IsFiniteSet(B) /\ IsFiniteSet(A)
  BY <1>3, <1>5, FS_Subset
<1>7. Cardinality(A) <= Cardinality(B) /\ Cardinality(A) \in Nat /\ Cardinality(B) \in Nat
  BY <1>3, <1>6, FS_Subset, FS_CardinalityType
<1> QED
  BY <1>4, <1>7

(* An id finds its outcome in the answer.                                  *)
LEMMA PositionIsPlace ==
  ASSUME NEW n \in Nat, NEW os \in [1 .. n -> Outcomes], Distinct(os, n), NEW a \in 1 .. n
  PROVE  Position(Ranking(os), os[a].id) = Place(os, a)
<1> DEFINE r == Ranking(os)
<1>1. /\ r \in [1 .. n -> Outcomes]
      /\ \A i \in 1 .. n :
           /\ Place(os, i) \in 1 .. n
           /\ r[Place(os, i)] = Listed(os[i], Place(os, i))
      /\ \A k \in 1 .. n : \E i \in 1 .. n : Place(os, i) = k
  BY RankingListsByPlace
<1> HIDE DEF r
<1>2. \A i \in 1 .. n : r[Place(os, i)].id = os[i].id
  <2> TAKE i \in 1 .. n
  <2>1. r[Place(os, i)] = Listed(os[i], Place(os, i))
    BY <1>1
  <2>2. os[i] \in Outcomes /\ Place(os, i) \in Nat
    BY <1>1
  <2> QED BY <2>1, <2>2, ListedKeeps
<1>3. \A k \in DOMAIN r : r[k].id = os[a].id => k = Place(os, a)
  <2> TAKE k \in DOMAIN r
  <2>1. PICK i \in 1 .. n : Place(os, i) = k
    BY <1>1
  <2>2. r[k].id = os[i].id
    BY <1>2, <2>1
  <2> QED
    BY <2>1, <2>2 DEF Distinct
<1>4. Place(os, a) \in DOMAIN r /\ r[Place(os, a)].id = os[a].id
  BY <1>1, <1>2
<1>5. Position(r, os[a].id) = Place(os, a)
  BY <1>3, <1>4 DEF Position
<1> QED
  BY <1>5 DEF r

(* The candidates of a request, and the same with one metric improved.     *)
Measured(fs, cs, n) ==
  /\ ValidFactors(fs) /\ n \in Nat
  /\ \A i \in 1 .. n : Answerable(fs, cs[i])
  /\ \A i, j \in 1 .. n : cs[i].id = cs[j].id => i = j

ImprovesOne(fs, cs, ds, n, a, k) ==
  /\ a \in 1 .. n /\ k \in DOMAIN fs
  /\ ds[a] = [cs[a] EXCEPT !.metrics[k] = Improved(fs[k], @)]
  /\ \A i \in 1 .. n : i # a => ds[i] = cs[i]

(* The candidate climbs or stays.                                          *)
LEMMA ImprovementClimbs ==
  ASSUME NEW fs, NEW cs, NEW n, Measured(fs, cs, n),
         NEW ds, NEW a, NEW k, ImprovesOne(fs, cs, ds, n, a, k),
         IsRanked(Outcome(fs, cs[a]))
  PROVE  /\ Place(Turns(fs, ds, n), a) <= Place(Turns(fs, cs, n), a)
         /\ Position(Ranking(Turns(fs, ds, n)), cs[a].id) = Place(Turns(fs, ds, n), a)
<1> DEFINE os == Turns(fs, cs, n)
           ps == Turns(fs, ds, n)
           d == ds[a]
<1>1. /\ ValidFactors(fs) /\ n \in Nat /\ a \in 1 .. n /\ k \in DOMAIN fs
      /\ \A i \in 1 .. n : Answerable(fs, cs[i])
      /\ \A i, j \in 1 .. n : cs[i].id = cs[j].id => i = j
      /\ d = [cs[a] EXCEPT !.metrics[k] = Improved(fs[k], @)]
      /\ \A i \in 1 .. n : i # a => ds[i] = cs[i]
  BY DEF Measured, ImprovesOne
<1>2. /\ Answerable(fs, d) /\ d.id = cs[a].id
      /\ CandidateStatus(fs, d) = CandidateStatus(fs, cs[a])
      /\ ScoreOf(fs, cs[a]) <= ScoreOf(fs, d)
  <2>1. Answerable(fs, cs[a])
    BY <1>1
  <2> QED BY <1>1, <2>1, ImprovedCandidate
<1>3. \A i \in 1 .. n : Answerable(fs, ds[i]) /\ ds[i].id = cs[i].id
  BY <1>1, <1>2
<1>4. /\ os \in [1 .. n -> Outcomes]
      /\ \A i \in 1 .. n : os[i] = Outcome(fs, cs[i]) /\ os[i].id = cs[i].id
  BY <1>1, TurnsType
<1>5. /\ ps \in [1 .. n -> Outcomes]
      /\ \A i \in 1 .. n : ps[i] = Outcome(fs, ds[i]) /\ ps[i].id = ds[i].id
  BY <1>1, <1>3, TurnsType
<1> HIDE DEF os, ps, d
<1>6. Distinct(os, n)
  BY <1>1, <1>4 DEF Distinct
<1>7. Distinct(ps, n)
  BY <1>1, <1>3, <1>5 DEF Distinct
<1>8. \A j \in 1 .. n : j # a => ps[j] = os[j]
  BY <1>1, <1>4, <1>5
<1>9. os[a] = Outcome(fs, cs[a]) /\ ps[a] = Outcome(fs, d)
  BY <1>1, <1>4, <1>5 DEF d
<1>20. /\ os[a].status = CandidateStatus(fs, cs[a])
      /\ os[a].score = ScoreOf(fs, cs[a])
  BY <1>1, <1>9, OutcomeType
<1>21. /\ ps[a].status = CandidateStatus(fs, d)
       /\ IsRanked(ps[a]) => ps[a].score = ScoreOf(fs, d)
  BY <1>1, <1>2, <1>9, OutcomeType
<1>22. IsRanked(os[a]) /\ IsRanked(ps[a])
  BY <1>2, <1>9, <1>20, <1>21 DEF IsRanked
<1>23. ps[a].id = os[a].id /\ os[a].score <= ps[a].score
  BY <1>1, <1>2, <1>3, <1>4, <1>5, <1>20, <1>21, <1>22
<1>24. Place(ps, a) <= Place(os, a)
  BY <1>1, <1>4, <1>5, <1>6, <1>7, <1>8, <1>22, <1>23, ScoringMoreKeepsThePlace
<1>25. Position(Ranking(ps), ps[a].id) = Place(ps, a)
  BY <1>1, <1>5, <1>7, PositionIsPlace
<1> QED
  BY <1>1, <1>4, <1>23, <1>24, <1>25 DEF os, ps

(* So the answer to the improved candidates has it no further back.        *)
LEMMA AnswersRewardImprovement == AnswerInv => ImprovementNeverDemotes
<1> DEFINE fs == scoring.factors
           cs == scoring.candidates
           n == Len(cs)
           os == Turns(fs, cs, n)
<1> SUFFICES ASSUME AnswerInv, NEW i \in DOMAIN ranking, IsRanked(ranking[i]),
                    NEW k \in DOMAIN fs
             PROVE  LET seat == Position(cs, ranking[i].id)
                        better == [cs EXCEPT ![seat].metrics[k] = Improved(fs[k], @)]
                    IN Position(Answer(fs, better), ranking[i].id) <= i
  BY DEF ImprovementNeverDemotes
<1> DEFINE seat == Position(cs, ranking[i].id)
           better == [cs EXCEPT ![seat].metrics[k] = Improved(fs[k], @)]
           ps == Turns(fs, better, n)
<1>1. scoring \in ScoringRequests /\ ranking = Answer(fs, cs)
  BY DEF AnswerInv
<1>2. /\ ValidFactors(fs) /\ n \in Nat /\ DOMAIN cs = 1 .. n
      /\ \A j \in 1 .. n : Answerable(fs, cs[j])
      /\ \A j, h \in 1 .. n : cs[j].id = cs[h].id => j = h
  BY <1>1, ScoringRequestFacts
<1>3. /\ os \in [1 .. n -> Outcomes]
      /\ \A j \in 1 .. n : os[j] = Outcome(fs, cs[j]) /\ os[j].id = cs[j].id
  BY <1>2, TurnsType
<1>4. ranking = Ranking(os)
  BY <1>1, <1>2 DEF Answer, Turns
<1>5. Answer(fs, better) = Ranking(ps)
  BY <1>2 DEF Answer, Turns
<1>6. k \in DOMAIN fs
  OBVIOUS
<1>7. seat \in 1 .. n => ImprovesOne(fs, cs, better, n, seat, k)
  BY <1>2, <1>6 DEF ImprovesOne
<1> HIDE DEF os, ps, n, cs, fs, better
<1>8. PICK a \in 1 .. n : Place(os, a) = i
  BY <1>2, <1>3, <1>4, RankingListsByPlace
<1>9. ranking[i] = Listed(os[a], i)
  <2>1. Place(os, a) \in 1 .. n /\ Ranking(os)[Place(os, a)] = Listed(os[a], Place(os, a))
    BY <1>2, <1>3, RankingListsByPlace
  <2> QED BY <1>4, <1>8, <2>1
<1>10. ranking[i].id = cs[a].id /\ IsRanked(os[a]) /\ i \in Nat
  <2>1. os[a] \in Outcomes /\ Place(os, a) \in 1 .. n
    BY <1>2, <1>3, RankingListsByPlace
  <2>2. i \in Nat
    BY <1>8, <2>1
  <2>3. /\ Listed(os[a], i).id = os[a].id
        /\ IsRanked(Listed(os[a], i)) <=> IsRanked(os[a])
    BY <2>1, <2>2, ListedKeeps
  <2>4. ranking[i].id = os[a].id
    BY <1>9, <2>3
  <2>5. IsRanked(os[a])
    BY <1>9, <2>3
  <2>6. os[a].id = cs[a].id
    BY <1>3
  <2> QED
    BY <2>2, <2>4, <2>5, <2>6
<1>11. seat = a
  BY <1>2, <1>10 DEF Position
<1> HIDE DEF seat
<1>12. /\ Place(ps, a) <= Place(os, a)
       /\ Position(Ranking(ps), cs[a].id) = Place(ps, a)
  <2>1. Measured(fs, cs, n)
    BY <1>2 DEF Measured
  <2>2. ImprovesOne(fs, cs, better, n, a, k)
    BY <1>7, <1>11
  <2>3. IsRanked(Outcome(fs, cs[a]))
    BY <1>3, <1>10
  <2> QED
    BY <2>1, <2>2, <2>3, ImprovementClimbs DEF os, ps
<1>13. Position(Answer(fs, better), ranking[i].id) <= i
  BY <1>5, <1>8, <1>10, <1>12
<1> QED
  BY <1>13 DEF better, seat, cs, fs

(* A better metric never costs a ranked candidate its place.               *)
THEOREM ScoringRewardsImprovement == ScoringSpec => []ImprovementNeverDemotes
BY ScoringAnswers, AnswersRewardImprovement, PTL

-----------------------------------------------------------------------------
(* The greatest and the least of some places or days.                      *)
LEMMA MaxAndMin ==
  ASSUME NEW a \in Int, NEW b \in Int, NEW T \in SUBSET (a .. b), T # {}
  PROVE  /\ Max(T) \in T /\ \A x \in T : x <= Max(T)
         /\ Min(T) \in T /\ \A x \in T : Min(T) <= x
<1>1. \E m \in T : \A n \in T : m <= n
  BY ExtremeElements
<1>2. \E m \in T : \A n \in T : n <= m
  BY ExtremeElements
<1>3. Min(T) \in T /\ \A x \in T : Min(T) <= x
  BY <1>1 DEF Min
<1>4. Max(T) \in T /\ \A x \in T : Max(T) >= x
  <2>1. \E m \in T : \A n \in T : m >= n
    BY <1>2
  <2> QED BY <2>1 DEF Max
<1> QED
  BY <1>3, <1>4

(* Bars by their places.                                                   *)
LEMMA BarFacts ==
  ASSUME NEW bars \in Seq(Bars)
  PROVE  /\ Len(bars) \in Nat /\ DOMAIN bars = 1 .. Len(bars)
         /\ \A i \in DOMAIN bars : bars[i] \in Bars
         /\ \A i \in DOMAIN bars :
              bars[i].from \in Int /\ bars[i].to \in Int /\ bars[i].from < bars[i].to
         /\ InOrder(bars) =>
              \A i, j \in DOMAIN bars : i < j => bars[i].to <= bars[j].from
<1> DEFINE n == Len(bars)
           a == [i \in 1 .. n |-> bars[i].from]
           b == [i \in 1 .. n |-> bars[i].to]
<1>1. n \in Nat /\ DOMAIN bars = 1 .. n
  BY LenProperties
<1>2. \A i \in 1 .. n : bars[i] \in Bars
  BY ElementOfSeq
<1>3. \A i \in 1 .. n : bars[i].from \in Int /\ bars[i].to \in Int /\ bars[i].from < bars[i].to
  BY <1>2 DEF Bars
<1> HIDE DEF n
<1>4. ASSUME InOrder(bars), NEW i \in 1 .. n, NEW j \in 1 .. n, i < j
      PROVE  bars[i].to <= bars[j].from
  <2>1. \A k \in 1 .. n : a[k] = bars[k].from /\ b[k] = bars[k].to
    OBVIOUS
  <2>2. \A k \in 1 .. n - 1 : bars[k].to <= bars[k + 1].from
    BY <1>4 DEF InOrder, n
  <2>3. \A k \in 1 .. n - 1 : k \in 1 .. n /\ k + 1 \in 1 .. n
    BY <1>1
  <2> HIDE DEF a, b
  <2>4. \A k \in 1 .. n : a[k] \in Int /\ b[k] \in Int /\ a[k] < b[k]
    BY <1>3, <2>1
  <2>5. \A k \in 1 .. n - 1 : b[k] <= a[k + 1]
    BY <2>1, <2>2, <2>3
  <2>6. b[i] <= a[j]
    BY <1>1, <1>4, <2>4, <2>5, IntervalsInOrder
  <2> QED BY <2>1, <2>6
<1> QED
  BY <1>1, <1>2, <1>3, <1>4 DEF n

(* How far the bars before a place reach: to the end of the nearest of     *)
(* them.                                                                   *)
LEMMA ReachedFacts ==
  ASSUME NEW bars \in Seq(Bars), NEW P \in SUBSET DOMAIN bars, NEW lo, NEW i \in 1 .. Len(bars) + 1
  PROVE  \/ /\ \A j \in P : i <= j
            /\ Reached(bars, P, lo, i) = lo
         \/ \E k \in P : /\ k < i /\ \A j \in P : j <= k \/ i <= j
                         /\ Reached(bars, P, lo, i) = bars[k].to
<1> DEFINE before == {j \in P : j < i}
           n == Len(bars)
<1>1. n \in Nat /\ P \in SUBSET (1 .. n) /\ i \in Int
  BY BarFacts
<1>2. before \in SUBSET (1 .. n)
  BY <1>1
<1>3. Reached(bars, P, lo, i) = IF before = {} THEN lo ELSE bars[Max(before)].to
  BY DEF Reached
<1>4. CASE before = {}
  <2>1. \A j \in P : i <= j
    BY <1>1, <1>4
  <2> QED BY <1>3, <1>4, <2>1
<1>5. CASE before # {}
  <2> DEFINE k == Max(before)
  <2>1. k \in before /\ \A j \in before : j <= k
    <3>1. 1 \in Int /\ n \in Int
      BY <1>1
    <3> HIDE DEF before, n
    <3> QED BY <1>2, <1>5, <3>1, MaxAndMin
  <2>2. k \in P /\ k < i /\ \A j \in P : j <= k \/ i <= j
    <3> HIDE DEF k
    <3> QED BY <1>1, <2>1
  <2>3. Reached(bars, P, lo, i) = bars[k].to
    BY <1>3, <1>5
  <2> QED BY <2>2, <2>3
<1> QED
  BY <1>4, <1>5

(* Bars cover a range when they chain from its start to its end; that is,  *)
(* when they lie within it and trade each of its instants.                 *)
LEMMA CoverIsEveryInstant ==
  ASSUME NEW bars \in Seq(Bars), InOrder(bars), NEW P \in SUBSET DOMAIN bars,
         NEW lo \in Int, NEW hi \in Int, lo < hi
  PROVE  Covers(bars, P, lo, hi) <=>
           /\ \A i \in P : lo <= bars[i].from /\ bars[i].to <= hi
           /\ \A t \in lo .. hi - 1 : \E i \in P : bars[i].from <= t /\ t < bars[i].to
<1> DEFINE n == Len(bars)
           within == \A i \in P : lo <= bars[i].from /\ bars[i].to <= hi
           all == \A t \in lo .. hi - 1 : \E i \in P : bars[i].from <= t /\ t < bars[i].to
           chained == \A i \in P : bars[i].from = Reached(bars, P, lo, i)
           end == Reached(bars, P, lo, n + 1)
<1>1. n \in Nat /\ P \in SUBSET (1 .. n) /\ n + 1 \in 1 .. n + 1
  BY BarFacts
<1>2. \A i \in P : bars[i].from \in Int /\ bars[i].to \in Int /\ bars[i].from < bars[i].to
  BY BarFacts
<1>3. \A i, j \in P : i < j => bars[i].to <= bars[j].from
  BY BarFacts
<1>4. \A i \in P :
        \/ /\ \A j \in P : i <= j
           /\ Reached(bars, P, lo, i) = lo
        \/ \E k \in P : /\ k < i /\ \A j \in P : j <= k \/ i <= j
                        /\ Reached(bars, P, lo, i) = bars[k].to
  <2>1. \A i \in P : i \in 1 .. n + 1
    BY <1>1
  <2> QED BY <2>1, ReachedFacts
<1>5. \/ P = {} /\ end = lo
      \/ \E k \in P : (\A j \in P : j <= k) /\ end = bars[k].to
  <2>1. \/ (\A j \in P : n + 1 <= j) /\ end = lo
        \/ \E k \in P : (\A j \in P : j <= k \/ n + 1 <= j) /\ end = bars[k].to
    BY <1>1, ReachedFacts
  <2>2. \A j \in P : ~ (n + 1 <= j)
    BY <1>1
  <2> QED BY <2>1, <2>2
<1>6. Covers(bars, P, lo, hi) <=> chained /\ end = hi
  BY DEF Covers, Chained
<1> HIDE DEF end, n
<1>7. ASSUME chained, end = hi PROVE within /\ all
  <2>1. PICK last \in P : (\A j \in P : j <= last) /\ bars[last].to = hi
    BY <1>5, <1>7
  <2>2. PICK first \in P : \A j \in P : first <= j
    <3>1. P # {} /\ 1 \in Int /\ n \in Int
      BY <1>1, <2>1
    <3> QED BY <1>1, <3>1, ExtremeElements
  <2>3. bars[first].from = lo
    <3>1. \A k \in P : ~ (k < first)
      BY <1>1, <2>2
    <3> QED BY <1>4, <1>7, <3>1
  <2>4. ASSUME NEW i \in P PROVE lo <= bars[i].from
    <3>1. CASE i = first
      BY <1>2, <2>3, <3>1
    <3>2. CASE first < i
      <4>1. bars[first].to <= bars[i].from
        BY <1>3, <3>2
      <4> QED BY <1>2, <2>3, <4>1
    <3> QED BY <1>1, <2>2, <3>1, <3>2
  <2>5. ASSUME NEW i \in P PROVE bars[i].to <= hi
    <3>1. CASE i = last
      BY <1>2, <2>1, <3>1
    <3>2. CASE i < last
      <4>1. bars[i].to <= bars[last].from
        BY <1>3, <3>2
      <4> QED BY <1>2, <2>1, <4>1
    <3> QED BY <1>1, <2>1, <3>1, <3>2
  <2>6. ASSUME NEW t \in lo .. hi - 1
        PROVE  \E i \in P : bars[i].from <= t /\ t < bars[i].to
    <3> DEFINE K == {i \in P : bars[i].from <= t}
    <3>1. first \in K
      BY <1>2, <2>3
    <3>2. PICK m \in K : \A j \in K : j <= m
      <4>1. K # {} /\ K \in SUBSET (1 .. n) /\ 1 \in Int /\ n \in Int
        BY <1>1, <3>1
      <4> HIDE DEF K
      <4> QED BY <4>1, ExtremeElements
    <3>3. m \in P /\ bars[m].from <= t
      BY <3>2
    <3>4. ASSUME bars[m].to <= t PROVE FALSE
      <4>1. m # last
        BY <1>2, <2>1, <3>3, <3>4
      <4> DEFINE L == {j \in P : m < j}
      <4>2. last \in L
        BY <1>1, <2>1, <3>3, <4>1
      <4>3. PICK next \in L : \A j \in L : next <= j
        <5>1. L # {} /\ L \in SUBSET (1 .. n) /\ 1 \in Int /\ n \in Int
          BY <1>1, <4>2
        <5> HIDE DEF L
        <5> QED BY <5>1, ExtremeElements
      <4>4. next \in P /\ m < next
        BY <4>3
      <4>5. bars[next].from = bars[m].to
        <5>1. PICK k \in P : /\ k < next /\ \A j \in P : j <= k \/ next <= j
                             /\ bars[next].from = bars[k].to
          <6>1. ~ (next <= m)
            BY <1>1, <3>3, <4>4
          <6> QED BY <1>4, <1>7, <3>3, <4>4, <6>1
        <5>2. m <= k
          BY <1>1, <3>3, <4>4, <5>1
        <5>3. ~ (m < k)
          BY <1>1, <4>3, <4>4, <5>1
        <5>4. k = m
          BY <1>1, <3>3, <5>2, <5>3
        <5> QED BY <5>1, <5>4
      <4>6. next \in K
        BY <3>4, <4>4, <4>5
      <4> QED BY <1>1, <3>2, <3>3, <4>4, <4>6
    <3>5. t < bars[m].to
      BY <1>2, <3>3, <3>4
    <3> QED BY <3>3, <3>5
  <2> QED BY <2>4, <2>5, <2>6
<1>8. ASSUME within, all PROVE chained /\ end = hi
  <2>1. \A t \in Int : lo <= t /\ t < hi =>
          \E j \in P : bars[j].from <= t /\ t < bars[j].to
    BY <1>8
  <2>2. ASSUME NEW i \in P PROVE bars[i].from = Reached(bars, P, lo, i)
    <3>1. CASE (\A j \in P : i <= j) /\ Reached(bars, P, lo, i) = lo
      <4>1. lo < hi /\ lo <= bars[i].from
        BY <1>8
      <4>2. PICK j \in P : bars[j].from <= lo /\ lo < bars[j].to
        BY <2>1, <4>1
      <4>3. j = i \/ i < j
        BY <1>1, <3>1
      <4>4. i < j => bars[i].to <= bars[j].from
        BY <1>3
      <4> QED BY <1>2, <3>1, <4>1, <4>2, <4>3, <4>4
    <3>2. CASE \E k \in P : /\ k < i /\ \A j \in P : j <= k \/ i <= j
                            /\ Reached(bars, P, lo, i) = bars[k].to
      <4>1. PICK k \in P : /\ k < i /\ \A j \in P : j <= k \/ i <= j
                           /\ Reached(bars, P, lo, i) = bars[k].to
        BY <3>2
      <4>2. /\ bars[k].to <= bars[i].from /\ lo <= bars[k].from /\ bars[i].to <= hi
        BY <1>3, <1>8, <4>1
      <4>3. ASSUME bars[k].to < bars[i].from PROVE FALSE
        <5>1. bars[k].to \in Int /\ lo <= bars[k].to /\ bars[k].to < hi
          BY <1>2, <4>2, <4>3
        <5>2. PICK j \in P : bars[j].from <= bars[k].to /\ bars[k].to < bars[j].to
          BY <2>1, <5>1
        <5>3. j < k \/ j = k \/ j = i \/ i < j
          BY <1>1, <4>1
        <5>4. (j < k => bars[j].to <= bars[k].from) /\ (i < j => bars[i].to <= bars[j].from)
          BY <1>3
        <5> QED BY <1>2, <4>3, <5>2, <5>3, <5>4
      <4> QED BY <1>2, <4>1, <4>2, <4>3
    <3> QED BY <1>4, <3>1, <3>2
  <2>3. end = hi
    <3>1. P # {}
      BY <2>1
    <3>2. PICK k \in P : (\A j \in P : j <= k) /\ end = bars[k].to
      BY <1>5, <3>1
    <3>3. lo <= bars[k].from /\ bars[k].to <= hi
      BY <1>8
    <3>4. ASSUME bars[k].to < hi PROVE FALSE
      <4>1. bars[k].to \in Int /\ lo <= bars[k].to
        BY <1>2, <3>3
      <4>2. PICK j \in P : bars[j].from <= bars[k].to /\ bars[k].to < bars[j].to
        BY <2>1, <3>4, <4>1
      <4>3. j < k \/ j = k
        BY <1>1, <3>2
      <4>4. j < k => bars[j].to <= bars[k].from
        BY <1>3
      <4> QED BY <1>2, <4>2, <4>3, <4>4
    <3> QED BY <1>2, <3>2, <3>3, <3>4
  <2> QED BY <2>2, <2>3
<1> QED
  BY <1>6, <1>7, <1>8

(* The check of a session finds nothing wrong when its bars cover it.      *)
LEMMA NoGapIsCover ==
  ASSUME NEW bars \in Seq(Bars), InOrder(bars), NEW P \in SUBSET DOMAIN bars,
         NEW lo \in Int, NEW hi \in Int, lo < hi
  PROVE  SessionGap(bars, P, lo, hi) = "none" <=> Covers(bars, P, lo, hi)
<1>1. /\ Covers(bars, P, lo, hi) => \A i \in P : bars[i].to <= hi
  BY CoverIsEveryInstant
<1>2. \A i \in P : bars[i].to \in Int
  BY BarFacts
<1>3. /\ Broken(bars, P, lo, hi) = {} => Chained(bars, P, lo)
      /\ Chained(bars, P, lo) /\ (\A i \in P : bars[i].to <= hi) => Broken(bars, P, lo, hi) = {}
  BY <1>2 DEF Broken, Chained
<1>4. SessionGap(bars, P, lo, hi) = "none" <=>
        Broken(bars, P, lo, hi) = {} /\ Reached(bars, P, lo, Len(bars) + 1) = hi
  BY DEF SessionGap
<1> QED
  BY <1>1, <1>3, <1>4 DEF Covers

-----------------------------------------------------------------------------
(* A session, and the day it belongs to.                                   *)
LEMMA LocationFacts ==
  ASSUME NEW d, NEW l \in LocationsOn(d)
  PROVE  /\ d \in Int /\ l.day = d /\ SessionsFor(d) = Sessions[d]
         /\ Len(Sessions[d]) \in Nat /\ l.segment \in 1 .. Len(Sessions[d])
         /\ l = Location(d, l.segment)
         /\ l.opens = Sessions[d][l.segment].opens /\ l.closes = Sessions[d][l.segment].closes
         /\ l.opens \in Int /\ l.closes \in Int /\ l.opens < l.closes
         /\ DateOf(l.opens) = d /\ DateOf(l.closes) = d
<1>1. PICK k \in DOMAIN SessionsFor(d) : l = Location(d, k)
  BY DEF LocationsOn
<1>2. d \in DOMAIN Sessions /\ SessionsFor(d) = Sessions[d]
  BY <1>1, EmptySeq DEF SessionsFor
<1>3. /\ d \in Int /\ Sessions[d] \in Seq([opens: Int, closes: Int])
      /\ SessionsAreOrdered(Sessions[d])
      /\ \A i \in DOMAIN Sessions[d] :
            Sessions[d][i].opens \div DayLength = d /\ Sessions[d][i].closes \div DayLength = d
  BY <1>2, CalendarAssumption
<1>4. Len(Sessions[d]) \in Nat /\ DOMAIN Sessions[d] = 1 .. Len(Sessions[d])
  BY <1>3, LenProperties
<1>5. Sessions[d][k] \in [opens: Int, closes: Int]
  BY <1>1, <1>2, <1>3, <1>4, ElementOfSeq
<1>6. /\ l.day = d /\ l.segment = k
      /\ l.opens = Sessions[d][k].opens /\ l.closes = Sessions[d][k].closes
  BY <1>1 DEF Location
<1>7. Sessions[d][k].opens < Sessions[d][k].closes
  BY <1>1, <1>2, <1>3 DEF SessionsAreOrdered
<1> QED
  BY <1>1, <1>2, <1>3, <1>4, <1>5, <1>6, <1>7 DEF DateOf

(* Later instants have later dates.                                        *)
LEMMA DatesGrow ==
  ASSUME NEW s \in Int, NEW t \in Int, s <= t
  PROVE  DateOf(s) \in Int /\ DateOf(t) \in Int /\ DateOf(s) <= DateOf(t)
<1>1. DayLength \in Nat \ {0}
  BY CalendarAssumption
<1> QED
  BY <1>1, DivisionGrows DEF DateOf

(* No instant belongs to two sessions.                                     *)
LEMMA SessionsApart ==
  ASSUME NEW d, NEW l \in LocationsOn(d), NEW e, NEW m \in LocationsOn(e), NEW t \in Int,
         l.opens <= t, t < l.closes, m.opens <= t, t < m.closes
  PROVE  l = m /\ DateOf(t) = d
<1>1. \A f : \A x \in LocationsOn(f) : x.opens <= t /\ t < x.closes => DateOf(t) = f
  <2> SUFFICES ASSUME NEW f, NEW x \in LocationsOn(f), x.opens <= t, t < x.closes
               PROVE  DateOf(t) = f
    OBVIOUS
  <2>1. /\ f \in Int /\ x.opens \in Int /\ x.closes \in Int
        /\ DateOf(x.opens) = f /\ DateOf(x.closes) = f
    BY LocationFacts
  <2>2. x.opens <= t /\ t <= x.closes
    BY <2>1
  <2>3. DateOf(t) \in Int /\ f <= DateOf(t) /\ DateOf(t) <= f
    BY <2>1, <2>2, DatesGrow
  <2> QED BY <2>1, <2>3
<1>2. DateOf(t) = d /\ e = d
  BY <1>1
<1> DEFINE ss == Sessions[d]
           n == Len(ss)
           j == l.segment
           k == m.segment
<1>3. /\ n \in Nat /\ j \in 1 .. n /\ k \in 1 .. n
      /\ l = Location(d, j) /\ m = Location(d, k)
      /\ l.opens = ss[j].opens /\ l.closes = ss[j].closes
      /\ m.opens = ss[k].opens /\ m.closes = ss[k].closes
      /\ l.opens \in Int /\ l.closes \in Int /\ m.opens \in Int /\ m.closes \in Int
  BY <1>2, LocationFacts
<1>4. d \in DOMAIN Sessions
  BY <1>2, EmptySeq DEF LocationsOn, SessionsFor
<1>5. /\ ss \in Seq([opens: Int, closes: Int]) /\ SessionsAreOrdered(ss)
  BY <1>4, CalendarAssumption
<1>6. \A i \in 1 .. n : ss[i].opens \in Int /\ ss[i].closes \in Int /\ ss[i].opens < ss[i].closes
  <2>1. DOMAIN ss = 1 .. n
    BY <1>5, LenProperties
  <2>2. \A i \in 1 .. n : ss[i] \in [opens: Int, closes: Int]
    BY <1>5, ElementOfSeq
  <2> QED BY <1>5, <2>1, <2>2 DEF SessionsAreOrdered
<1>7. \A i \in 1 .. n - 1 : ss[i].closes <= ss[i + 1].opens
  BY <1>5 DEF SessionsAreOrdered
<1> HIDE DEF ss, n
<1>8. ASSUME NEW x \in 1 .. n, NEW y \in 1 .. n, x < y
      PROVE  ss[x].closes <= ss[y].opens
  <2> DEFINE a == [i \in 1 .. n |-> ss[i].opens]
             b == [i \in 1 .. n |-> ss[i].closes]
  <2>1. \A i \in 1 .. n : a[i] = ss[i].opens /\ b[i] = ss[i].closes
    OBVIOUS
  <2>2. \A i \in 1 .. n - 1 : i \in 1 .. n /\ i + 1 \in 1 .. n
    BY <1>3
  <2> HIDE DEF a, b
  <2>3. \A i \in 1 .. n : a[i] \in Int /\ b[i] \in Int /\ a[i] < b[i]
    BY <1>6, <2>1
  <2>4. \A i \in 1 .. n - 1 : b[i] <= a[i + 1]
    BY <1>7, <2>1, <2>2
  <2>5. b[x] <= a[y]
    BY <1>3, <1>8, <2>3, <2>4, IntervalsInOrder
  <2> QED BY <2>1, <2>5
<1> HIDE DEF j, k
<1>9. ~ (j < k) /\ ~ (k < j)
  BY <1>3, <1>8
<1>10. j = k
  BY <1>3, <1>9
<1> QED
  BY <1>2, <1>3, <1>10

(* The session of a bar that has one.                                      *)
LEMMA LocateFacts ==
  ASSUME NEW b, Locations(b) # {}
  PROVE  /\ Locate(b) \in Locations(b) /\ Locate(b) \in LocationsOn(DateOf(b.from))
         /\ Locate(b).opens <= b.from /\ b.from < Locate(b).closes /\ b.to <= Locate(b).closes
<1>1. Locate(b) \in Locations(b)
  BY DEF Locate
<1> QED
  BY <1>1 DEF Locations

(* A bar that trades an instant of a session belongs to it.                *)
LEMMA OwnSession ==
  ASSUME NEW b, b.from \in Int, b.to \in Int, Locations(b) # {},
         NEW d, NEW l \in LocationsOn(d), NEW t \in Int,
         b.from <= t, t < b.to, l.opens <= t, t < l.closes
  PROVE  Locate(b) = l
<1> DEFINE m == Locate(b)
<1>1. m \in LocationsOn(DateOf(b.from)) /\ m.opens <= b.from /\ b.to <= m.closes
  BY LocateFacts
<1>2. m.opens \in Int /\ m.closes \in Int
  BY <1>1, LocationFacts
<1>3. m.opens <= t /\ t < m.closes
  BY <1>1, <1>2
<1> QED
  BY <1>1, <1>3, SessionsApart

(* The sessions of a range, each with the part of it that is asked for.    *)
LEMMA RequestedFacts ==
  ASSUME NEW from \in Int, NEW to \in Int, NEW l \in RequestedLocations(from, to)
  PROVE  /\ l \in LocationsOn(l.day)
         /\ l.day \in DateOf(from) .. DateOf(to)
         /\ l.opens \in Int /\ l.closes \in Int /\ l.opens < l.closes
         /\ Later(l.opens, from) \in Int /\ Earlier(l.closes, to) \in Int
         /\ Later(l.opens, from) < Earlier(l.closes, to)
         /\ l.opens \in DateOf(from) * DayLength .. to
<1>1. PICK d \in DateOf(from) .. DateOf(to) : l \in LocationsOn(d)
  BY DEF RequestedLocations
<1>2. l.day = d /\ l.opens \in Int /\ l.closes \in Int /\ l.opens < l.closes /\ DateOf(l.opens) = d
  BY <1>1, LocationFacts
<1>3. Later(l.opens, from) < Earlier(l.closes, to)
  BY DEF RequestedLocations
<1>4. l.opens <= to
  BY <1>2, <1>3 DEF Later, Earlier
<1>5. DateOf(from) * DayLength <= l.opens /\ DateOf(from) * DayLength \in Int
  <2>1. DayLength \in Nat \ {0} /\ DateOf(from) \in Int /\ d \in Int /\ DateOf(from) <= d
    BY <1>1, DatesGrow, CalendarAssumption
  <2>2. l.opens \div DayLength = d
    BY <1>2 DEF DateOf
  <2> DEFINE x == l.opens
             q == x \div DayLength
  <2>10. x \in Int
    BY <1>2
  <2>11. q = d
    BY <2>2
  <2> HIDE DEF x
  <2>12. x % DayLength \in 0 .. DayLength - 1 /\ x = DayLength * q + (x % DayLength)
    BY <2>1, <2>10, Division
  <2> HIDE DEF q
  <2>3. x % DayLength \in Nat /\ x = DayLength * d + (x % DayLength)
    BY <2>1, <2>11, <2>12
  <2> USE DEF x
  <2>4. DateOf(from) * DayLength <= DayLength * d /\ DayLength * d \in Int
        /\ DateOf(from) * DayLength \in Int
    BY <2>1
  <2> DEFINE r == l.opens % DayLength
  <2> HIDE DEF r
  <2>5. r \in Nat /\ l.opens = DayLength * d + r
    BY <2>3 DEF r
  <2> QED BY <1>2, <2>4, <2>5
<1> QED
  BY <1>1, <1>2, <1>3, <1>4, <1>5 DEF Later, Earlier

(* requested_range_coverage_gap finds none when each session is covered.   *)
LEMMA NoCoverageGap ==
  ASSUME NEW bars, NEW from \in Int, NEW to \in Int
  PROVE  CoverageGap(bars, from, to) = "none" <=>
           \A l \in RequestedLocations(from, to) :
             SessionGap(bars, BarsIn(bars, l), Later(l.opens, from), Earlier(l.closes, to)) = "none"
<1> DEFINE gap(l) ==
             SessionGap(bars, BarsIn(bars, l), Later(l.opens, from), Earlier(l.closes, to))
           broken == {l \in RequestedLocations(from, to) : gap(l) # "none"}
           first == CHOOSE l \in broken : \A m \in broken : l.opens <= m.opens
<1>1. CoverageGap(bars, from, to) = IF broken = {} THEN "none" ELSE gap(first)
  BY DEF CoverageGap
<1>2. ASSUME broken # {} PROVE first \in broken
  <2> DEFINE T == {l.opens : l \in broken}
  <2>1. T # {}
    BY <1>2
  <2>2. T \in SUBSET (DateOf(from) * DayLength .. to)
    BY RequestedFacts
  <2>3. DateOf(from) * DayLength \in Int
    BY CalendarAssumption DEF DateOf
  <2>4. \E x \in T : \A y \in T : x <= y
    <3> HIDE DEF T
    <3> QED BY <2>1, <2>2, <2>3, ExtremeElements
  <2>5. \E l \in broken : \A m \in broken : l.opens <= m.opens
    BY <2>4
  <2> HIDE DEF broken
  <2> QED BY <2>5
<1>3. first \in broken => gap(first) # "none"
  OBVIOUS
<1>4. broken = {} <=> \A l \in RequestedLocations(from, to) : gap(l) = "none"
  OBVIOUS
<1> HIDE DEF broken, first, gap
<1>5. CoverageGap(bars, from, to) = "none" <=> broken = {}
  BY <1>1, <1>2, <1>3
<1> QED
  BY <1>4, <1>5 DEF gap

(* The bars of a session are the ones that trade in it.                    *)
LEMMA SessionBars ==
  ASSUME NEW bars \in Seq(Bars), ValidBars(bars), NEW d, NEW l \in LocationsOn(d)
  PROVE  /\ BarsIn(bars, l) \in SUBSET DOMAIN bars
         /\ \A i \in BarsIn(bars, l) : l.opens <= bars[i].from /\ bars[i].to <= l.closes
         /\ \A i \in DOMAIN bars, t \in Int :
              /\ bars[i].from <= t /\ t < bars[i].to /\ l.opens <= t /\ t < l.closes
              => i \in BarsIn(bars, l)
<1>1. \A i \in DOMAIN bars :
        bars[i].from \in Int /\ bars[i].to \in Int /\ Locations(bars[i]) # {}
  BY BarFacts DEF ValidBars
<1>2. ASSUME NEW i \in BarsIn(bars, l) PROVE l.opens <= bars[i].from /\ bars[i].to <= l.closes
  <2>1. i \in DOMAIN bars /\ Locate(bars[i]) = l
    BY DEF BarsIn
  <2> QED BY <1>1, <2>1, LocateFacts
<1>3. ASSUME NEW i \in DOMAIN bars, NEW t \in Int,
             bars[i].from <= t, t < bars[i].to, l.opens <= t, t < l.closes
      PROVE  i \in BarsIn(bars, l)
  <2>1. Locate(bars[i]) = l
    BY <1>1, <1>3, OwnSession
  <2> QED BY <2>1 DEF BarsIn
<1>4. BarsIn(bars, l) \in SUBSET DOMAIN bars
  BY DEF BarsIn
<1> QED
  BY <1>2, <1>3, <1>4

(* A session's part of a range is covered when each of its instants is     *)
(* traded exactly as far as the range goes.                                *)
LEMMA SessionCoverIsExact ==
  ASSUME NEW bars \in Seq(Bars), ValidBars(bars), NEW from \in Int, NEW to \in Int,
         NEW l \in RequestedLocations(from, to)
  PROVE  Covers(bars, BarsIn(bars, l), Later(l.opens, from), Earlier(l.closes, to)) <=>
           \A t \in Instants(l.opens, l.closes) : Traded(bars, t) <=> (from <= t /\ t < to)
<1> DEFINE P == BarsIn(bars, l)
           lo == Later(l.opens, from)
           hi == Earlier(l.closes, to)
           exact == \A t \in Instants(l.opens, l.closes) :
                      Traded(bars, t) <=> (from <= t /\ t < to)
           within == \A i \in P : lo <= bars[i].from /\ bars[i].to <= hi
           all == \A t \in lo .. hi - 1 : \E i \in P : bars[i].from <= t /\ t < bars[i].to
<1>1. /\ l \in LocationsOn(l.day) /\ l.opens \in Int /\ l.closes \in Int
      /\ lo \in Int /\ hi \in Int /\ lo < hi
  BY RequestedFacts
<1>2. /\ P \in SUBSET DOMAIN bars
      /\ \A i \in P : l.opens <= bars[i].from /\ bars[i].to <= l.closes
      /\ \A i \in DOMAIN bars, t \in Int :
              bars[i].from <= t /\ t < bars[i].to /\ l.opens <= t /\ t < l.closes => i \in P
  BY <1>1, SessionBars
<1>3. \A i \in DOMAIN bars :
        bars[i].from \in Int /\ bars[i].to \in Int /\ bars[i].from < bars[i].to
  BY BarFacts
<1>4. \A t \in Int : /\ lo <= t <=> l.opens <= t /\ from <= t
                     /\ t < hi <=> t < l.closes /\ t < to
                     /\ t <= hi <=> t <= l.closes /\ t <= to
  BY <1>1 DEF Later, Earlier
<1>5. \A t : t \in Instants(l.opens, l.closes) <=> t \in Int /\ l.opens <= t /\ t < l.closes
  BY <1>1 DEF Instants
<1>6. \A t \in Int : Traded(bars, t) <=> \E i \in DOMAIN bars : bars[i].from <= t /\ t < bars[i].to
  BY <1>3 DEF Traded, Instants
<1>7. Covers(bars, P, lo, hi) <=> within /\ all
  <2>1. InOrder(bars)
    BY DEF ValidBars
  <2> HIDE DEF P, lo, hi
  <2> QED BY <1>1, <1>2, <2>1, CoverIsEveryInstant
<1> HIDE DEF P, lo, hi
<1>8. ASSUME within, all PROVE exact
  <2> SUFFICES ASSUME NEW t \in Int, l.opens <= t, t < l.closes
               PROVE  Traded(bars, t) <=> (from <= t /\ t < to)
    BY <1>5
  <2>1. ASSUME Traded(bars, t) PROVE from <= t /\ t < to
    <3>1. PICK i \in DOMAIN bars : bars[i].from <= t /\ t < bars[i].to
      BY <1>6, <2>1
    <3>2. i \in P
      BY <1>2, <3>1
    <3>3. lo <= bars[i].from /\ bars[i].to <= hi
      BY <1>8, <3>2
    <3>4. lo <= t /\ t < hi
      BY <1>1, <1>3, <3>1, <3>3
    <3> QED BY <1>4, <3>4
  <2>2. ASSUME from <= t, t < to PROVE Traded(bars, t)
    <3>1. lo <= t /\ t < hi
      BY <1>4, <2>2
    <3>2. t \in lo .. hi - 1
      BY <1>1, <3>1
    <3>3. \E i \in P : bars[i].from <= t /\ t < bars[i].to
      BY <1>8, <3>2
    <3> QED BY <1>2, <1>6, <3>3
  <2> QED BY <2>1, <2>2
<1>9. ASSUME exact PROVE within /\ all
  <2>1. \A t \in Int : l.opens <= t /\ t < l.closes => (Traded(bars, t) <=> (from <= t /\ t < to))
    BY <1>5, <1>9
  <2>2. ASSUME NEW i \in P PROVE lo <= bars[i].from /\ bars[i].to <= hi
    <3>1. /\ i \in DOMAIN bars /\ l.opens <= bars[i].from /\ bars[i].to <= l.closes
          /\ bars[i].from \in Int /\ bars[i].to \in Int /\ bars[i].from < bars[i].to
      BY <1>2, <1>3
    <3>2. \A t \in Int : bars[i].from <= t /\ t < bars[i].to => from <= t /\ t < to
      BY <1>1, <1>6, <2>1, <3>1
    <3>3. from <= bars[i].from
      BY <3>1, <3>2
    <3>4. bars[i].to <= to
      <4>1. bars[i].to - 1 < to
        BY <3>1, <3>2
      <4> QED BY <3>1, <4>1
    <3> QED BY <1>4, <3>1, <3>3, <3>4
  <2>3. ASSUME NEW t \in lo .. hi - 1 PROVE \E i \in P : bars[i].from <= t /\ t < bars[i].to
    <3>1. t \in Int /\ lo <= t /\ t < hi
      BY <1>1
    <3>2. l.opens <= t /\ t < l.closes /\ from <= t /\ t < to
      BY <1>4, <3>1
    <3>3. \E i \in DOMAIN bars : bars[i].from <= t /\ t < bars[i].to
      BY <1>6, <2>1, <3>1, <3>2
    <3> QED BY <1>2, <3>1, <3>2, <3>3
  <2> QED BY <2>2, <2>3
<1> HIDE DEF exact, within, all
<1>10. Covers(bars, P, lo, hi) <=> exact
  BY <1>7, <1>8, <1>9
<1> QED
  BY <1>10 DEF exact, P, lo, hi

(* The coverage check is right about any bars that pass validation.        *)
LEMMA CoverageGapsAreReal ==
  ASSUME NEW bars \in Seq(Bars), ValidBars(bars), NEW from \in Int, NEW to \in Int
  PROVE  GapsAreReal(bars, from, to)
<1> DEFINE ls == RequestedLocations(from, to)
           exact(l) == \A t \in Instants(l.opens, l.closes) :
                         Traded(bars, t) <=> (from <= t /\ t < to)
           gap(l) == SessionGap(bars, BarsIn(bars, l), Later(l.opens, from), Earlier(l.closes, to))
<1>1. \A l \in ls : gap(l) = "none" <=> exact(l)
  <2> TAKE l \in ls
  <2> DEFINE P == BarsIn(bars, l)
             lo == Later(l.opens, from)
             hi == Earlier(l.closes, to)
  <2>1. InOrder(bars) /\ P \in SUBSET DOMAIN bars /\ lo \in Int /\ hi \in Int /\ lo < hi
    BY RequestedFacts, SessionBars DEF ValidBars
  <2>2. Covers(bars, P, lo, hi) <=> exact(l)
    BY SessionCoverIsExact
  <2>3. gap(l) = "none" <=> Covers(bars, P, lo, hi)
    <3> HIDE DEF P, lo, hi
    <3>1. SessionGap(bars, P, lo, hi) = "none" <=> Covers(bars, P, lo, hi)
      BY <2>1, NoGapIsCover
    <3> QED BY <3>1 DEF P, lo, hi
  <2> HIDE DEF exact, gap
  <2> QED BY <2>2, <2>3
<1>2. CoverageGap(bars, from, to) = "none" <=> \A l \in ls : gap(l) = "none"
  BY NoCoverageGap
<1> HIDE DEF ls, exact, gap
<1>3. CoverageGap(bars, from, to) = "none" <=> \A l \in ls : exact(l)
  BY <1>1, <1>2
<1> QED
  BY <1>3 DEF GapsAreReal, ls, exact

-----------------------------------------------------------------------------
(* The window of a bar lies in the session of the bar.                     *)
LEMMA WindowFacts ==
  ASSUME NEW b \in Bars, Locations(b) # {}, NEW width \in Nat \ {0}
  PROVE  /\ Window(b, width).from \in Int /\ Window(b, width).to \in Int
         /\ Locate(b).opens \in Int /\ Locate(b).closes \in Int
         /\ Locate(b).opens <= Window(b, width).from /\ Window(b, width).from <= b.from
         /\ b.from < Window(b, width).to /\ Window(b, width).to <= Locate(b).closes
         /\ \E p \in Int :
              /\ p * width \in Int
              /\ Window(b, width).from = Locate(b).opens + p * width
              /\ Window(b, width).to = Earlier(Window(b, width).from + width, Locate(b).closes)
<1> DEFINE l == Locate(b)
           x == b.from - l.opens
           p == x \div width
           w == Window(b, width)
<1>1. /\ l \in LocationsOn(DateOf(b.from)) /\ l.opens <= b.from /\ b.from < l.closes
  BY LocateFacts
<1>2. l.opens \in Int /\ l.closes \in Int /\ b.from \in Int
  BY <1>1, LocationFacts DEF Bars
<1>3. x \in Int /\ 0 <= x /\ b.from = l.opens + x
  BY <1>1, <1>2
<1>4. w.from = l.opens + p * width /\ w.to = Earlier(w.from + width, l.closes)
  BY DEF Window
<1> HIDE DEF l, w, x
<1>5. /\ p \in Int /\ x = width * p + (x % width) /\ x % width \in 0 .. width - 1
  BY <1>3, Division
<1> DEFINE r == x % width
<1> HIDE DEF p, r
<1>6. 0 <= p
  <2>1. ASSUME p < 0 PROVE FALSE
    <3>1. width * p <= width * (0 - 1)
      <4>1. (0 - 1) - p \in Nat
        BY <1>5, <2>1
      <4>2. width * ((0 - 1) - p) \in Nat
        BY <4>1
      <4> QED BY <1>5, <4>2
    <3> QED BY <1>3, <1>5, <3>1 DEF r
  <2> QED BY <1>5, <2>1
<1>7. p * width = width * p /\ p * width \in Nat
  BY <1>5, <1>6
<1> DEFINE y == p * width
<1>8. y \in Nat /\ y <= x /\ x < y + width
  BY <1>3, <1>5, <1>7 DEF r
<1>9. /\ w.from \in Int /\ l.opens <= w.from /\ w.from <= b.from /\ b.from < w.from + width
  <2> HIDE DEF y
  <2>1. w.from = l.opens + y
    BY <1>4 DEF y
  <2> QED BY <1>2, <1>3, <1>8, <2>1
<1>10. w.to \in Int /\ b.from < w.to /\ w.to <= l.closes
  BY <1>1, <1>2, <1>4, <1>9 DEF Earlier, l
<1> QED
  BY <1>2, <1>4, <1>5, <1>7, <1>9, <1>10 DEF l, w

(* A bar that trades an instant of a window, and does not reach beyond its *)
(* own, is a bar of that window.                                           *)
LEMMA OwnWindow ==
  ASSUME NEW width \in Nat \ {0}, NEW b \in Bars, Locations(b) # {},
         NEW c \in Bars, Locations(c) # {}, c.to <= Window(c, width).to,
         NEW t \in Int, c.from <= t, t < c.to,
         Window(b, width).from <= t, t < Window(b, width).to
  PROVE  Window(c, width) = Window(b, width) /\ Locate(c) = Locate(b)
<1> DEFINE l == Locate(b)
           v == Window(b, width)
           w == Window(c, width)
<1>1. /\ v.from \in Int /\ v.to \in Int /\ l.opens \in Int /\ l.closes \in Int
      /\ l.opens <= v.from /\ v.to <= l.closes
  BY WindowFacts
<1>2. Locate(c) = l
  <2>1. l \in LocationsOn(DateOf(b.from)) /\ c.from \in Int /\ c.to \in Int
    BY LocateFacts DEF Bars
  <2>2. l.opens <= t /\ t < l.closes
    BY <1>1
  <2> QED BY <2>1, <2>2, OwnSession
<1>3. /\ w.from \in Int /\ w.to \in Int /\ w.from <= c.from
  BY WindowFacts
<1>4. PICK p \in Int : /\ p * width \in Int /\ v.from = l.opens + p * width
                       /\ v.to = Earlier(v.from + width, l.closes)
  BY WindowFacts
<1>5. PICK q \in Int : /\ q * width \in Int /\ w.from = l.opens + q * width
                       /\ w.to = Earlier(w.from + width, l.closes)
  BY <1>2, WindowFacts
<1> HIDE DEF l, v, w
<1>6. v.to <= v.from + width /\ w.to <= w.from + width
  BY <1>1, <1>3, <1>4, <1>5 DEF Earlier
<1>7. c.from \in Int /\ c.to \in Int
  BY DEF Bars
<1>8. w.from <= t /\ t < w.to /\ v.from <= t /\ t < v.to
  BY <1>3, <1>7 DEF v, w
<1> DEFINE x == t - l.opens
           y == p * width
           z == q * width
<1>9. x \in Int /\ y <= x /\ x < y + width /\ z <= x /\ x < z + width
  <2> HIDE DEF y, z
  <2>1. v.from = l.opens + y /\ w.from = l.opens + z /\ y \in Int /\ z \in Int
    BY <1>4, <1>5 DEF y, z
  <2> QED BY <1>1, <1>3, <1>6, <1>8, <2>1
<1>10. p = q
  BY <1>9, MultiplesApart
<1>11. w.from = v.from /\ w.to = v.to
  BY <1>4, <1>5, <1>10
<1>12. Window(c, width) = Window(b, width)
  BY <1>11 DEF v, w, Window
<1> QED
  BY <1>2, <1>12 DEF l

(* A window is filled by its bars exactly when each of its instants is     *)
(* traded.                                                                 *)
LEMMA WindowCoverIsExact ==
  ASSUME NEW width \in Nat \ {0}, NEW bars \in Seq(Bars), CanAggregate(bars, width),
         NEW w \in Windows(bars, width)
  PROVE  Covers(bars, Group(bars, width, w), w.from, w.to) <=>
           \A t \in Instants(w.from, w.to) : Traded(bars, t)
<1> DEFINE P == Group(bars, width, w)
           within == \A i \in P : w.from <= bars[i].from /\ bars[i].to <= w.to
           all == \A t \in w.from .. w.to - 1 : \E i \in P : bars[i].from <= t /\ t < bars[i].to
<1>1. PICK k \in DOMAIN bars : w = Window(bars[k], width)
  BY DEF Windows
<1>2. \A i \in DOMAIN bars : /\ bars[i] \in Bars /\ Locations(bars[i]) # {}
                             /\ bars[i].to <= Window(bars[i], width).to
                             /\ bars[i].from \in Int /\ bars[i].to \in Int
                             /\ bars[i].from < bars[i].to
  BY BarFacts DEF CanAggregate, ValidBars
<1>3. w.from \in Int /\ w.to \in Int /\ w.from < w.to
  <2>1. /\ w.from \in Int /\ w.to \in Int
        /\ w.from <= bars[k].from /\ bars[k].from < w.to /\ bars[k].from \in Int
    BY <1>1, <1>2, WindowFacts
  <2> QED BY <2>1
<1>4. P \in SUBSET DOMAIN bars
  BY DEF Group
<1>5. within
  <2> TAKE i \in P
  <2>1. i \in DOMAIN bars /\ Window(bars[i], width) = w
    BY DEF Group
  <2> QED BY <1>2, <2>1, WindowFacts
<1>6. Covers(bars, P, w.from, w.to) <=> within /\ all
  <2>1. InOrder(bars)
    BY DEF CanAggregate, ValidBars
  <2> HIDE DEF P
  <2> QED BY <1>3, <1>4, <2>1, CoverIsEveryInstant
<1>7. ASSUME NEW t \in w.from .. w.to - 1, NEW i \in DOMAIN bars,
             bars[i].from <= t, t < bars[i].to
      PROVE  i \in P
  <2>1. t \in Int /\ w.from <= t /\ t < w.to
    BY <1>3
  <2>2. Window(bars[i], width) = Window(bars[k], width)
    BY <1>1, <1>2, <1>7, <2>1, OwnWindow
  <2> QED BY <1>1, <2>2 DEF Group
<1> HIDE DEF P
<1>8. \A t \in Int : Traded(bars, t) <=> \E i \in DOMAIN bars : bars[i].from <= t /\ t < bars[i].to
  BY <1>2 DEF Traded, Instants
<1>9. all <=> \A t \in Instants(w.from, w.to) : Traded(bars, t)
  <2>1. Instants(w.from, w.to) = w.from .. w.to - 1
    BY DEF Instants
  <2>2. \A t \in w.from .. w.to - 1 : t \in Int
    BY <1>3
  <2>3. ASSUME NEW t \in w.from .. w.to - 1
        PROVE  Traded(bars, t) <=> \E i \in P : bars[i].from <= t /\ t < bars[i].to
    BY <1>4, <1>7, <1>8, <2>2
  <2> QED BY <2>1, <2>3
<1> HIDE DEF within, all
<1> QED
  BY <1>5, <1>6, <1>9 DEF P

(* The aggregate of bars has exactly their full windows.                   *)
LEMMA FullWindows ==
  ASSUME NEW width \in Nat \ {0}, NEW bars \in Seq(Bars)
  PROVE  WindowsAreWhole(bars, width)
<1> SUFFICES ASSUME CanAggregate(bars, width)
             PROVE  {[from |-> a.from, to |-> a.to] : a \in Aggregate(bars, width)} =
                    {w \in Windows(bars, width) : \A t \in Instants(w.from, w.to) : Traded(bars, t)}
  BY DEF WindowsAreWhole
<1> DEFINE full == {w \in Windows(bars, width) : Covers(bars, Group(bars, width, w), w.from, w.to)}
           of(w) == [from |-> w.from, to |-> w.to, volume |-> Volume(bars, Group(bars, width, w))]
<1>1. Aggregate(bars, width) = {of(w) : w \in full}
  BY DEF Aggregate
<1>2. \A w \in full : [from |-> of(w).from, to |-> of(w).to] = w
  <2> TAKE w \in full
  <2>1. PICK i \in DOMAIN bars : w = Window(bars[i], width)
    BY DEF Windows
  <2>2. \E x, y : w = [from |-> x, to |-> y]
    BY <2>1 DEF Window
  <2>3. of(w).from = w.from /\ of(w).to = w.to
    OBVIOUS
  <2> HIDE DEF full, of
  <2> QED BY <2>2, <2>3
<1>3. full = {w \in Windows(bars, width) : \A t \in Instants(w.from, w.to) : Traded(bars, t)}
  BY WindowCoverIsExact
<1> HIDE DEF full, of
<1>4. {[from |-> a.from, to |-> a.to] : a \in {of(w) : w \in full}} = full
  BY <1>2
<1> QED
  BY <1>1, <1>3, <1>4

(* A window of an aggregate: the session of one of the bars holds it, and  *)
(* each of its instants is traded.                                         *)
LEMMA AggregateFacts ==
  ASSUME NEW width \in Nat \ {0}, NEW bars \in Seq(Bars), CanAggregate(bars, width),
         NEW a \in Aggregate(bars, width)
  PROVE  /\ a.from \in Int /\ a.to \in Int /\ a.from < a.to
         /\ \A t \in Instants(a.from, a.to) : Traded(bars, t)
         /\ \E i \in DOMAIN bars : Locate(a) = Locate(bars[i])
                                   /\ Locate(a) \in LocationsOn(DateOf(bars[i].from))
<1>1. PICK w \in Windows(bars, width) :
        /\ Covers(bars, Group(bars, width, w), w.from, w.to)
        /\ a = [from |-> w.from, to |-> w.to, volume |-> Volume(bars, Group(bars, width, w))]
  BY DEF Aggregate
<1>2. a.from = w.from /\ a.to = w.to
  BY <1>1
<1>3. \A t \in Instants(w.from, w.to) : Traded(bars, t)
  BY <1>1, WindowCoverIsExact
<1>4. PICK i \in DOMAIN bars : w = Window(bars[i], width)
  BY DEF Windows
<1> DEFINE l == Locate(bars[i])
<1>5. bars[i] \in Bars /\ Locations(bars[i]) # {} /\ bars[i].from \in Int
  BY BarFacts DEF CanAggregate, ValidBars
<1>6. /\ w.from \in Int /\ w.to \in Int /\ l.opens \in Int /\ l.closes \in Int
      /\ l.opens <= w.from /\ w.from <= bars[i].from /\ bars[i].from < w.to /\ w.to <= l.closes
  BY <1>4, <1>5, WindowFacts
<1>7. l \in LocationsOn(DateOf(bars[i].from))
  BY <1>5, LocateFacts
<1> HIDE DEF l
<1>8. w.from < w.to /\ w.from < l.closes
  BY <1>5, <1>6
<1>9. DateOf(w.from) = DateOf(bars[i].from)
  BY <1>6, <1>7, <1>8, SessionsApart
<1>10. Locations(a) # {}
  BY <1>2, <1>6, <1>7, <1>8, <1>9 DEF Locations
<1>11. Locate(a) = l
  BY <1>2, <1>6, <1>7, <1>8, <1>10, OwnSession
<1> QED
  BY <1>2, <1>3, <1>6, <1>7, <1>8, <1>11 DEF l

-----------------------------------------------------------------------------
(* A snapshot has bars, and a range of time.                               *)
LEMMA SnapshotFacts ==
  ASSUME NEW s \in Snapshots
  PROVE  s.bars \in Seq(Bars) /\ s.from \in Int /\ s.to \in Int /\ s.from < s.to
BY DEF Snapshots

(* The width and the two spans of days are positive.                       *)
LEMMA WidthFacts == Width \in Nat \ {0} /\ Lookback \in Nat \ {0} /\ MaxLookback \in Nat \ {0}
BY InputsAssumption

(* The latest session of a request that overlaps one.                      *)
LEMMA LatestFacts ==
  ASSUME NEW s \in Snapshots, RequestedLocations(s.from, s.to) # {}
  PROVE  LatestLocation(s) \in RequestedLocations(s.from, s.to)
<1> DEFINE ls == RequestedLocations(s.from, s.to)
           T == {l.opens : l \in ls}
           lo == DateOf(s.from) * DayLength
<1>1. s.from \in Int /\ s.to \in Int
  BY SnapshotFacts
<1>2. T # {} /\ T \in SUBSET (lo .. s.to)
  BY <1>1, RequestedFacts
<1>3. lo \in Int
  BY <1>1, CalendarAssumption DEF DateOf
<1>4. \E x \in T : \A y \in T : y <= x
  <2> HIDE DEF T, lo
  <2> QED BY <1>1, <1>2, <1>3, ExtremeElements
<1>5. \E l \in ls : \A m \in ls : m.opens <= l.opens
  BY <1>4
<1> HIDE DEF ls
<1>6. (CHOOSE l \in ls : \A m \in ls : m.opens <= l.opens) \in ls
  BY <1>5
<1> QED
  BY <1>6 DEF LatestLocation, ls

(* The previous trading days of a day.                                     *)
LEMMA DaysFacts ==
  ASSUME NEW day
  PROVE  /\ PreviousTradingDates(day) \in SUBSET (day - MaxLookback .. day - 1)
         /\ PreviousTradingDates(day) \in SUBSET DOMAIN Sessions
BY DEF PreviousTradingDates, SessionsFor

(* Each result of the first step is one, and none of them a ratio.         *)
LEMMA CurrentResults ==
  ASSUME NEW s
  PROVE  CurrentResult(s) \in RatioResults \ {"available"}
<1> DEFINE last == LET day == LatestLocation(s).day IN
                   IF Cardinality(PreviousTradingDates(day)) # Lookback
                   THEN "calendar_lookback_unavailable"
                   ELSE IF TwoOnOneDay(HistoryBefore(day)) THEN "raised" ELSE "none"
<1>1. last \in RatioResults \ {"available"}
  BY DEF RatioResults
<1>2. \/ CurrentResult(s) = last
      \/ CurrentResult(s) \in
           {"snapshot_not_actionable", "current_request_market_closed",
            "invalid_current_source_bars", "incomplete_current_source_coverage",
            "missing_current_bar"}
  BY DEF CurrentResult
<1> HIDE DEF last
<1> QED
  BY <1>1, <1>2 DEF RatioResults

(* What the first step has made sure of when it goes on to the history.    *)
LEMMA CurrentFacts ==
  ASSUME NEW s, CurrentResult(s) = "none"
  PROVE  /\ s.actionable /\ RequestedLocations(s.from, s.to) # {}
         /\ CanAggregate(s.bars, Width) /\ CoverageGap(s.bars, s.from, s.to) = "none"
         /\ Aggregate(s.bars, Width) # {} /\ Targets(s) # {}
         /\ Cardinality(PreviousTradingDates(LatestLocation(s).day)) = Lookback
BY DEF CurrentResult

(* What is found on a day of the history.                                  *)
LEMMA Classifications ==
  ASSUME NEW d
  PROVE  Classify(d) \in Gathered \cup
           {"reference", "history_request_market_closed", "incomplete_history_source_coverage"}
<1>1. ASSUME NEW s
      PROVE  ClassifySnapshot(s, d) \in Gathered \cup
               {"reference", "history_request_market_closed", "incomplete_history_source_coverage"}
  BY DEF ClassifySnapshot, Gathered
<1> QED
  BY <1>1 DEF Classify, Gathered

(* A reference is a full window of the day's snapshot, with the offsets    *)
(* from the open of its session that the current window has.               *)
LEMMA ReferenceFacts ==
  ASSUME NEW d, Classify(d) = "reference"
  PROVE  \E s \in HistoryOf(d) :
           /\ CanAggregate(s.bars, Width)
           /\ \A i \in DOMAIN s.bars : DateOf(s.bars[i].from) = d
           /\ \E w \in Aggregate(s.bars, Width) :
                SameGeometry(w) /\ ReferenceVolume(d) = w.volume
<1> DEFINE s == CHOOSE x \in HistoryOf(d) : TRUE
           w == CHOOSE v \in Aggregate(s.bars, Width) : SameGeometry(v)
<1>1. HistoryOf(d) # {} /\ ClassifySnapshot(s, d) = "reference"
  BY DEF Classify
<1>2. s \in HistoryOf(d)
  BY <1>1
<1>3. ReferenceVolume(d) = w.volume
  BY DEF ReferenceVolume
<1> HIDE DEF s
<1>4. /\ CanAggregate(s.bars, Width)
      /\ \A i \in DOMAIN s.bars : DateOf(s.bars[i].from) = d
      /\ \E v \in Aggregate(s.bars, Width) : SameGeometry(v)
  BY <1>1 DEF ClassifySnapshot
<1>5. w \in Aggregate(s.bars, Width) /\ SameGeometry(w)
  BY <1>4
<1> HIDE DEF w
<1> QED
  BY <1>2, <1>3, <1>4, <1>5

(* Where the current window is supported by a day's reference.             *)
LEMMA ReferenceSupports ==
  ASSUME input \in Inputs, CurrentResult(Snapshot) = "none", current \in Targets(Snapshot),
         NEW d, Classify(d) = "reference"
  PROVE  \E s \in HistoryOf(d) :
            /\ \A t \in Instants(Offsets(current).from, Offsets(current).to) :
                 Traded(s.bars, SessionsFor(d)[Locate(current).segment].opens + t)
            /\ \E w \in Aggregate(s.bars, Width) :
                 /\ w.to - w.from = current.to - current.from
                 /\ w.from = SessionsFor(d)[Locate(current).segment].opens + Offsets(current).from
                 /\ ReferenceVolume(d) = w.volume
<1>1. PICK s \in HistoryOf(d) :
           /\ CanAggregate(s.bars, Width)
           /\ \A i \in DOMAIN s.bars : DateOf(s.bars[i].from) = d
           /\ \E w \in Aggregate(s.bars, Width) :
                SameGeometry(w) /\ ReferenceVolume(d) = w.volume
  BY ReferenceFacts
<1>2. PICK w \in Aggregate(s.bars, Width) : SameGeometry(w) /\ ReferenceVolume(d) = w.volume
  BY <1>1
<1>3. Snapshot \in Snapshots /\ s \in Snapshots
  <2>1. Snapshot \in Snapshots /\ input.history \in Seq(Snapshots)
    BY InputsAssumption DEF Snapshot
  <2>2. \A i \in DOMAIN input.history : input.history[i] \in Snapshots
    <3> DEFINE h == input.history
    <3>1. h \in Seq(Snapshots)
      BY <2>1
    <3> HIDE DEF h
    <3>2. \A i \in DOMAIN h : h[i] \in Snapshots
      BY <3>1, ElementOfSeq, LenProperties
    <3> QED BY <3>2 DEF h
  <2> QED BY <2>1, <2>2 DEF HistoryOf, HistoryBefore
<1>4. current \in Aggregate(Snapshot.bars, Width) /\ CanAggregate(Snapshot.bars, Width)
  BY CurrentFacts DEF Targets
<1> DEFINE m == Locate(current)
           l == Locate(w)
<1>5. /\ current.from \in Int /\ current.to \in Int /\ m.opens \in Int
  <2>1. PICK i \in DOMAIN Snapshot.bars : m \in LocationsOn(DateOf(Snapshot.bars[i].from))
    BY <1>3, <1>4, SnapshotFacts, WidthFacts, AggregateFacts
  <2>2. current.from \in Int /\ current.to \in Int
    BY <1>3, <1>4, SnapshotFacts, WidthFacts, AggregateFacts
  <2> QED BY <2>1, <2>2, LocationFacts
<1>6. /\ w.from \in Int /\ w.to \in Int /\ l \in LocationsOn(d)
      /\ \A t \in Instants(w.from, w.to) : Traded(s.bars, t)
  BY <1>1, <1>2, <1>3, SnapshotFacts, WidthFacts, AggregateFacts
<1>7. l.opens \in Int /\ l.opens = SessionsFor(d)[l.segment].opens
  BY <1>6, LocationFacts
<1> DEFINE o == SessionsFor(d)[m.segment].opens
           from == Offsets(current).from
           to == Offsets(current).to
<1>8. /\ from = current.from - m.opens /\ to = current.to - m.opens
      /\ w.from - l.opens = from /\ w.to - l.opens = to /\ l.opens = o
  BY <1>2, <1>7 DEF SameGeometry, SameSlot, Offsets
<1> HIDE DEF m, l, o, from, to
<1>9. /\ o \in Int /\ from \in Int /\ to \in Int
      /\ w.from = o + from /\ w.to = o + to /\ w.to - w.from = current.to - current.from
  BY <1>5, <1>6, <1>7, <1>8
<1>10. ASSUME NEW t \in Instants(from, to) PROVE Traded(s.bars, o + t)
  <2>1. o + t \in Instants(w.from, w.to)
    BY <1>9 DEF Instants
  <2> QED BY <1>6, <2>1
<1> QED
  BY <1>1, <1>2, <1>9, <1>10 DEF o, m, from, to

(* A covered request that reaches back to the open of its latest session   *)
(* has a VWAP, unless nothing was traded.                                  *)
LEMMA CoveredHasVwap ==
  ASSUME NEW s \in Snapshots, CurrentResult(s) = "none", s.from <= LatestLocation(s).opens
  PROVE  VwapResult(s) \in {"available", "zero_volume"}
<1> DEFINE l == LatestLocation(s)
           gap(m) == SessionGap(s.bars, BarsIn(s.bars, m), Later(m.opens, s.from),
                                Earlier(m.closes, s.to))
<1>1. s.actionable /\ ValidBars(s.bars) /\ RequestedLocations(s.from, s.to) # {}
  BY CurrentFacts DEF CanAggregate
<1>2. s.bars \in Seq(Bars) /\ s.from \in Int /\ s.to \in Int
  BY SnapshotFacts
<1>3. l \in RequestedLocations(s.from, s.to)
  BY <1>1, LatestFacts
<1>4. \A m \in RequestedLocations(s.from, s.to) : gap(m) = "none"
  <2>1. CoverageGap(s.bars, s.from, s.to) = "none"
    BY CurrentFacts
  <2> QED BY <1>2, <2>1, NoCoverageGap
<1>5. Later(l.opens, s.from) = l.opens
  <2>1. l.opens \in Int
    BY <1>2, <1>3, RequestedFacts
  <2>2. s.from <= l.opens
    OBVIOUS
  <2> HIDE DEF l
  <2> QED BY <1>2, <2>1, <2>2 DEF Later
<1>6. gap(l) = "none"
  BY <1>3, <1>4
<1>7. SessionGap(s.bars, Active(s), l.opens, RequiredEnd(s)) = "none"
  BY <1>5, <1>6 DEF Active, RequiredEnd
<1>8. VwapGap(s) = "none"
  BY <1>7 DEF VwapGap
<1>9. s.bars # <<>>
  <2>1. Aggregate(s.bars, Width) # {}
    BY CurrentFacts
  <2>2. DOMAIN s.bars # {}
    BY <2>1 DEF Aggregate, Windows
  <2> QED BY <2>2, EmptySeq
<1> HIDE DEF l, gap
<1> QED
  BY <1>1, <1>8, <1>9 DEF VwapResult

-----------------------------------------------------------------------------
(* What the reading of the history keeps: the current window is one of the *)
(* snapshot's, each of the days is yet to be read or found out about, and  *)
(* the volume of a day is that of its reference window.                    *)
Days == PreviousTradingDates(LatestLocation(Snapshot).day)
Reading ==
  /\ CurrentResult(Snapshot) = "none" /\ current \in Targets(Snapshot)
  /\ dates \subseteq Days
  /\ \A k \in Gathered : gathered[k] \subseteq Days
  /\ Days = DOMAIN volumes \cup dates \cup UNION {gathered[k] : k \in Gathered}
  /\ \A d \in DOMAIN volumes : Classify(d) = "reference" /\ volumes[d] = ReferenceVolume(d)
Concluded == Reading /\ dates = {} /\ \A k \in Gathered : gathered[k] = {}

IndicatorInv ==
  /\ input \in Inputs
  /\ DOMAIN gathered = Gathered /\ \A k \in Gathered : gathered[k] \subseteq DOMAIN Sessions
  /\ step \in {"current", "history", "done"} /\ ratio \in RatioResults
  /\ step = "current" => volumes = <<>> /\ \A k \in Gathered : gathered[k] = {}
  /\ step = "history" => Reading
  /\ ratio = "available" => step = "done" /\ Concluded
  /\ vwap \in {"none", VwapResult(Snapshot)}

(* One of several sets grows by one element, and so does their union.      *)
LEMMA AddedToOne ==
  ASSUME NEW K, NEW k \in K, NEW x, NEW g, NEW h,
         \A j \in K : h[j] = IF j = k THEN g[j] \cup {x} ELSE g[j]
  PROVE  UNION {h[j] : j \in K} = (UNION {g[j] : j \in K}) \cup {x}
<1>1. \A j \in K : \A e : e \in h[j] <=> e \in g[j] \/ (j = k /\ e = x)
  OBVIOUS
<1> QED
  BY <1>1

(* What is known of the snapshot and the history does not change.          *)
LEMMA SameInput ==
  ASSUME input' = input
  PROVE  /\ Days' = Days /\ CurrentResult(Snapshot)' = CurrentResult(Snapshot)
         /\ Targets(Snapshot)' = Targets(Snapshot) /\ VwapResult(Snapshot)' = VwapResult(Snapshot)
<1>1. Snapshot' = Snapshot
  BY DEF Snapshot
<1>2. Days' = Days
  BY <1>1 DEF Days
<1>3. \A day : TwoOnOneDay(HistoryBefore(day))' = TwoOnOneDay(HistoryBefore(day))
  <2> TAKE day
  <2>1. HistoryBefore(day)' = HistoryBefore(day)
    BY DEF HistoryBefore
  <2> DEFINE P == HistoryBefore(day)
  <2>2. TwoOnOneDay(HistoryBefore(day))' <=>
          \E i, j \in P' : i # j /\ DateOf(input.history[i].from) = DateOf(input.history[j].from)
    BY DEF TwoOnOneDay
  <2> QED BY <2>1, <2>2 DEF TwoOnOneDay
<1>4. CurrentResult(Snapshot)' = CurrentResult(Snapshot)
  BY <1>1, <1>3 DEF CurrentResult
<1>5. Targets(Snapshot)' = Targets(Snapshot)
  BY <1>1
<1>6. VwapResult(Snapshot)' = VwapResult(Snapshot)
  BY <1>1
<1> QED
  BY <1>2, <1>4, <1>5, <1>6

(* Nor does what is found on a day, once the window is chosen.             *)
LEMMA SameWindow ==
  ASSUME input' = input, current' = current, NEW d
  PROVE  Classify(d)' = Classify(d) /\ ReferenceVolume(d)' = ReferenceVolume(d)
<1>1. HistoryOf(d)' = HistoryOf(d)
  BY DEF HistoryOf, HistoryBefore
<1>2. \A w : SameGeometry(w)' = SameGeometry(w) /\ SameSlot(w)' = SameSlot(w)
  BY DEF SameGeometry, SameSlot, Offsets
<1>3. \A s : ClassifySnapshot(s, d)' = ClassifySnapshot(s, d)
  BY <1>2 DEF ClassifySnapshot
<1>4. Classify(d)' = Classify(d)
  BY <1>1, <1>3 DEF Classify
<1>5. ReferenceVolume(d)' = ReferenceVolume(d)
  BY <1>1, <1>2 DEF ReferenceVolume
<1> QED
  BY <1>4, <1>5

(* The invariant holds before anything is read.                            *)
LEMMA IndicatorInvInitially == IndicatorsInit => IndicatorInv
<1> SUFFICES ASSUME IndicatorsInit PROVE IndicatorInv
  OBVIOUS
<1>1. DOMAIN gathered = Gathered /\ \A k \in Gathered : gathered[k] = {}
  BY DEF IndicatorsInit
<1> QED
  BY <1>1 DEF IndicatorsInit, IndicatorInv, RatioResults

(* Reading the current snapshot either refuses or fixes the days to read.  *)
LEMMA ReadCurrentKeeps == IndicatorInv /\ ReadCurrent => IndicatorInv'
<1> SUFFICES ASSUME IndicatorInv, ReadCurrent PROVE IndicatorInv'
  OBVIOUS
<1>1. /\ step = "current" /\ ratio' = CurrentResult(Snapshot)
      /\ input' = input /\ gathered' = gathered /\ volumes' = volumes /\ vwap' = vwap
  BY DEF ReadCurrent
<1>2. ratio' \in RatioResults \ {"available"}
  BY <1>1, CurrentResults
<1>3. /\ input \in Inputs /\ DOMAIN gathered = Gathered
      /\ \A k \in Gathered : gathered[k] = {} /\ gathered[k] \subseteq DOMAIN Sessions
      /\ volumes = <<>> /\ vwap \in {"none", VwapResult(Snapshot)}
  BY <1>1 DEF IndicatorInv
<1>4. /\ Days' = Days /\ CurrentResult(Snapshot)' = CurrentResult(Snapshot)
      /\ Targets(Snapshot)' = Targets(Snapshot) /\ VwapResult(Snapshot)' = VwapResult(Snapshot)
  BY <1>1, SameInput
<1>5. CASE ratio' # "none"
  <2>1. step' = "done"
    BY <1>5 DEF ReadCurrent
  <2> QED BY <1>1, <1>2, <1>3, <1>4, <2>1 DEF IndicatorInv
<1>6. CASE ratio' = "none"
  <2>1. step' = "history" /\ dates' = Days /\ current' = CHOOSE w \in Targets(Snapshot) : TRUE
    BY <1>6 DEF ReadCurrent, Days
  <2>2. CurrentResult(Snapshot) = "none" /\ current' \in Targets(Snapshot)
    BY <1>1, <1>6, <2>1, CurrentFacts
  <2>3. DOMAIN volumes = {}
    BY <1>3, EmptySeq
  <2>4. UNION {gathered[k] : k \in Gathered} = {}
    BY <1>3
  <2>5. /\ dates' \subseteq Days' /\ \A k \in Gathered : gathered'[k] \subseteq Days'
        /\ Days' = DOMAIN volumes' \cup dates' \cup UNION {gathered'[k] : k \in Gathered}
    BY <1>1, <1>3, <1>4, <2>1, <2>3, <2>4
  <2>6. Reading'
    BY <1>1, <1>4, <2>2, <2>3, <2>5 DEF Reading
  <2> QED BY <1>1, <1>2, <1>3, <1>4, <2>1, <2>6 DEF IndicatorInv
<1> QED
  BY <1>5, <1>6

(* Each day read is put with the volumes, with the days that rule a ratio  *)
(* out, or ends the reading.                                               *)
LEMMA ReadHistoryKeeps == IndicatorInv /\ ReadHistory => IndicatorInv'
<1> SUFFICES ASSUME IndicatorInv, ReadHistory PROVE IndicatorInv'
  OBVIOUS
<1> DEFINE day == Max(dates)
           found == Classify(day)
<1>1. /\ step = "history" /\ dates # {}
      /\ input' = input /\ current' = current /\ vwap' = vwap
  BY DEF ReadHistory
<1>2. /\ input \in Inputs /\ DOMAIN gathered = Gathered
      /\ \A k \in Gathered : gathered[k] \subseteq DOMAIN Sessions
      /\ ratio \in RatioResults /\ ratio # "available"
      /\ vwap \in {"none", VwapResult(Snapshot)} /\ Reading
  BY <1>1 DEF IndicatorInv
<1>3. /\ Days' = Days /\ CurrentResult(Snapshot)' = CurrentResult(Snapshot)
      /\ Targets(Snapshot)' = Targets(Snapshot) /\ VwapResult(Snapshot)' = VwapResult(Snapshot)
  BY <1>1, SameInput
<1>4. \A d : Classify(d)' = Classify(d) /\ ReferenceVolume(d)' = ReferenceVolume(d)
  BY <1>1, SameWindow
<1>5. /\ CurrentResult(Snapshot) = "none" /\ current \in Targets(Snapshot)
      /\ dates \subseteq Days /\ \A k \in Gathered : gathered[k] \subseteq Days
      /\ Days = DOMAIN volumes \cup dates \cup UNION {gathered[k] : k \in Gathered}
      /\ \A d \in DOMAIN volumes : Classify(d) = "reference" /\ volumes[d] = ReferenceVolume(d)
  BY <1>2 DEF Reading
<1>6. day \in dates
  <2>1. Snapshot \in Snapshots
    BY <1>2, InputsAssumption DEF Snapshot
  <2>2. LatestLocation(Snapshot) \in RequestedLocations(Snapshot.from, Snapshot.to)
    BY <1>5, <2>1, CurrentFacts, LatestFacts
  <2>3. LatestLocation(Snapshot).day \in Int
    BY <2>1, <2>2, SnapshotFacts, RequestedFacts, LocationFacts
  <2> DEFINE a == LatestLocation(Snapshot).day - MaxLookback
             b == LatestLocation(Snapshot).day - 1
  <2>4. a \in Int /\ b \in Int
    BY <2>3, WidthFacts
  <2>5. dates \in SUBSET (a .. b)
    BY <1>5, DaysFacts DEF Days
  <2> HIDE DEF a, b
  <2> QED BY <1>1, <2>4, <2>5, MaxAndMin
<1>7. day \in Days /\ day \in DOMAIN Sessions
  BY <1>5, <1>6, DaysFacts DEF Days
<1>8. \/ /\ found = "reference"
         /\ volumes' = [d \in DOMAIN volumes \cup {day} |->
                             IF d = day THEN ReferenceVolume(day) ELSE volumes[d]]
         /\ dates' = dates \ {day} /\ step' = step /\ gathered' = gathered /\ ratio' = ratio
      \/ /\ found \in Gathered
         /\ gathered' = [gathered EXCEPT ![found] = @ \cup {day}]
         /\ dates' = dates \ {day} /\ step' = step /\ volumes' = volumes /\ ratio' = ratio
      \/ /\ found \notin Gathered \cup {"reference"}
         /\ ratio' = found /\ step' = "done" /\ gathered' = gathered
  <2>1. "reference" \notin Gathered
    BY DEF Gathered
  <2> QED BY <2>1 DEF ReadHistory
<1> HIDE DEF day, found
<1>9. CASE /\ found = "reference"
           /\ volumes' = [d \in DOMAIN volumes \cup {day} |->
                             IF d = day THEN ReferenceVolume(day) ELSE volumes[d]]
           /\ dates' = dates \ {day} /\ step' = step /\ gathered' = gathered /\ ratio' = ratio
  <2>1. DOMAIN volumes' = DOMAIN volumes \cup {day}
    BY <1>9
  <2>2. ASSUME NEW d \in DOMAIN volumes'
        PROVE  Classify(d) = "reference" /\ volumes'[d] = ReferenceVolume(d)
    <3>1. CASE d = day
      BY <1>9, <3>1 DEF found
    <3>2. CASE d # day
      <4>1. d \in DOMAIN volumes /\ volumes'[d] = volumes[d]
        BY <1>9, <2>1, <3>2
      <4> QED BY <1>5, <4>1
    <3> QED BY <3>1, <3>2
  <2>3. Days = DOMAIN volumes' \cup dates' \cup UNION {gathered'[k] : k \in Gathered}
    BY <1>5, <1>6, <1>9, <2>1
  <2>4. Reading'
    BY <1>1, <1>3, <1>4, <1>5, <1>9, <2>2, <2>3 DEF Reading
  <2> QED BY <1>1, <1>2, <1>3, <1>9, <2>4 DEF IndicatorInv
<1>10. CASE /\ found \in Gathered
            /\ gathered' = [gathered EXCEPT ![found] = @ \cup {day}]
            /\ dates' = dates \ {day} /\ step' = step /\ volumes' = volumes /\ ratio' = ratio
  <2>1. /\ DOMAIN gathered' = Gathered
        /\ \A k \in Gathered :
             gathered'[k] = IF k = found THEN gathered[k] \cup {day} ELSE gathered[k]
    BY <1>2, <1>10
  <2>2. /\ \A k \in Gathered : gathered'[k] \subseteq DOMAIN Sessions
        /\ \A k \in Gathered : gathered'[k] \subseteq Days
    BY <1>2, <1>5, <1>7, <2>1
  <2>3. UNION {gathered'[k] : k \in Gathered} = (UNION {gathered[k] : k \in Gathered}) \cup {day}
    BY <1>10, <2>1, AddedToOne
  <2> DEFINE before == UNION {gathered[k] : k \in Gathered}
             after == UNION {gathered'[k] : k \in Gathered}
  <2>4. Days = DOMAIN volumes' \cup dates' \cup UNION {gathered'[k] : k \in Gathered}
    <3>1. Days = DOMAIN volumes \cup dates \cup before
      BY <1>5
    <3>2. dates' = dates \ {day} /\ volumes' = volumes /\ after = before \cup {day}
      BY <1>10, <2>3
    <3> HIDE DEF before, after
    <3>3. Days = DOMAIN volumes' \cup dates' \cup after
      BY <1>6, <3>1, <3>2
    <3> QED BY <3>3 DEF after
  <2>5. Reading'
    BY <1>1, <1>3, <1>4, <1>5, <1>10, <2>2, <2>4 DEF Reading
  <2> QED BY <1>1, <1>2, <1>3, <1>10, <2>1, <2>2, <2>5 DEF IndicatorInv
<1>11. CASE /\ found \notin Gathered \cup {"reference"}
            /\ ratio' = found /\ step' = "done" /\ gathered' = gathered
  <2>1. ratio' \in RatioResults \ {"available"}
    <3>1. found \in {"history_request_market_closed", "incomplete_history_source_coverage"}
      BY <1>11, Classifications DEF found
    <3> QED BY <1>11, <3>1 DEF RatioResults
  <2> QED BY <1>1, <1>2, <1>3, <1>11, <2>1 DEF IndicatorInv
<1> QED
  BY <1>8, <1>9, <1>10, <1>11

(* A ratio is available when no day rules it out.                          *)
LEMMA ConcludeKeeps == IndicatorInv /\ Conclude => IndicatorInv'
<1> SUFFICES ASSUME IndicatorInv, Conclude PROVE IndicatorInv'
  OBVIOUS
<1>1. /\ step = "history" /\ dates = {} /\ ratio' = Conclusion /\ step' = "done"
      /\ input' = input /\ current' = current /\ dates' = dates /\ gathered' = gathered
      /\ volumes' = volumes /\ vwap' = vwap
  BY DEF Conclude
<1>2. Reading /\ DOMAIN gathered = Gathered
  BY <1>1 DEF IndicatorInv
<1>3. /\ Days' = Days /\ CurrentResult(Snapshot)' = CurrentResult(Snapshot)
      /\ Targets(Snapshot)' = Targets(Snapshot) /\ VwapResult(Snapshot)' = VwapResult(Snapshot)
  BY <1>1, SameInput
<1>4. \A d : Classify(d)' = Classify(d) /\ ReferenceVolume(d)' = ReferenceVolume(d)
  BY <1>1, SameWindow
<1>5. Reading'
  BY <1>1, <1>2, <1>3, <1>4 DEF Reading
<1>6. ratio' \in RatioResults
  BY <1>1 DEF Conclusion, RatioResults
<1>7. ratio' = "available" => \A k \in Gathered : gathered[k] = {}
  BY <1>1 DEF Conclusion, Gathered
<1>8. ratio' = "available" => Concluded'
  BY <1>1, <1>5, <1>7 DEF Concluded
<1> QED
  BY <1>1, <1>3, <1>6, <1>8 DEF IndicatorInv

(* The VWAP is calculated from the same snapshot.                          *)
LEMMA CalculateVwapKeeps ==
  IndicatorInv /\ (CalculateVwap \/ UNCHANGED indicatorVars) => IndicatorInv'
<1> SUFFICES ASSUME IndicatorInv, CalculateVwap \/ UNCHANGED indicatorVars PROVE IndicatorInv'
  OBVIOUS
<1>1. /\ input' = input /\ step' = step /\ current' = current /\ dates' = dates
      /\ gathered' = gathered /\ volumes' = volumes /\ ratio' = ratio
      /\ vwap' = vwap \/ vwap' = VwapResult(Snapshot)
  BY DEF CalculateVwap, indicatorVars
<1>2. /\ Days' = Days /\ CurrentResult(Snapshot)' = CurrentResult(Snapshot)
      /\ Targets(Snapshot)' = Targets(Snapshot) /\ VwapResult(Snapshot)' = VwapResult(Snapshot)
  BY <1>1, SameInput
<1>3. \A d : Classify(d)' = Classify(d) /\ ReferenceVolume(d)' = ReferenceVolume(d)
  BY <1>1, SameWindow
<1>4. Reading => Reading'
  BY <1>1, <1>2, <1>3 DEF Reading
<1>5. Concluded => Concluded'
  BY <1>1, <1>4 DEF Concluded
<1> QED
  BY <1>1, <1>2, <1>4, <1>5 DEF IndicatorInv

(* A step of the indicators keeps their invariant.                         *)
LEMMA IndicatorInvNext == IndicatorInv /\ [IndicatorsNext]_indicatorVars => IndicatorInv'
BY ReadCurrentKeeps, ReadHistoryKeeps, ConcludeKeeps, CalculateVwapKeeps DEF IndicatorsNext

(* The invariant of the indicators.                                        *)
THEOREM IndicatorsKeep == IndicatorsSpec => []IndicatorInv
BY IndicatorInvInitially, IndicatorInvNext, PTL DEF IndicatorsSpec

(* The invariant of the indicators has their types in it.                  *)
LEMMA ReadingsAreTyped == IndicatorInv => SessionIndicatorsTypeOK
<1>1. VwapResult(Snapshot) \in VwapResults
  BY DEF VwapResult, VwapResults
<1> QED
  BY <1>1 DEF IndicatorInv, SessionIndicatorsTypeOK, VwapResults

(* Each result is one the code can give, on days of the calendar.          *)
THEOREM IndicatorsTypes == IndicatorsSpec => []SessionIndicatorsTypeOK
BY IndicatorsKeep, ReadingsAreTyped, PTL

(* The coverage check finds a gap exactly where an instant is not traded,  *)
(* or one outside of the request is, for any bars that pass validation.    *)
THEOREM IndicatorsCoverageIsExact == IndicatorsSpec => []CoverageIsExact
<1>1. IndicatorInv => CoverageIsExact
  <2> SUFFICES ASSUME input \in Inputs, ValidBars(Snapshot.bars)
               PROVE  GapsAreReal(Snapshot.bars, Snapshot.from, Snapshot.to)
    BY DEF IndicatorInv, CoverageIsExact
  <2>1. Snapshot \in Snapshots
    BY InputsAssumption DEF Snapshot
  <2> QED BY <2>1, SnapshotFacts, CoverageGapsAreReal
<1> QED
  BY IndicatorsKeep, <1>1, PTL

(* The windows of any bars that can be aggregated are those of which each  *)
(* instant is traded.                                                      *)
THEOREM IndicatorsAggregationIsExact == IndicatorsSpec => []AggregationIsExact
<1>1. IndicatorInv => AggregationIsExact
  <2> SUFFICES ASSUME input \in Inputs PROVE WindowsAreWhole(Snapshot.bars, Width)
    BY DEF IndicatorInv, AggregationIsExact
  <2>1. Snapshot \in Snapshots
    BY InputsAssumption DEF Snapshot
  <2> QED BY <2>1, SnapshotFacts, WidthFacts, FullWindows
<1> QED
  BY IndicatorsKeep, <1>1, PTL

(* An available ratio rests on the same full window of each of the last    *)
(* trading days.                                                           *)
THEOREM IndicatorsRatioIsSupported == IndicatorsSpec => []RatioIsSupported
<1>1. IndicatorInv => RatioIsSupported
  <2> SUFFICES ASSUME IndicatorInv, ratio = "available"
               PROVE  LET days == PreviousTradingDates(Locate(current).day)
                          opens(d) == SessionsFor(d)[Locate(current).segment].opens
                      IN /\ \A t \in Instants(current.from, current.to) : Traded(Snapshot.bars, t)
                         /\ Cardinality(days) = Lookback /\ DOMAIN volumes = days
                         /\ \A d \in days : \E s \in HistoryOf(d) :
                              /\ \A t \in Instants(Offsets(current).from, Offsets(current).to) :
                                   Traded(s.bars, opens(d) + t)
                              /\ \E w \in Aggregate(s.bars, Width) :
                                   /\ w.to - w.from = current.to - current.from
                                   /\ w.from = opens(d) + Offsets(current).from
                                   /\ volumes[d] = w.volume
    BY DEF RatioIsSupported
  <2>1. /\ input \in Inputs /\ CurrentResult(Snapshot) = "none" /\ current \in Targets(Snapshot)
        /\ \A d \in DOMAIN volumes : Classify(d) = "reference" /\ volumes[d] = ReferenceVolume(d)
    BY DEF IndicatorInv, Concluded, Reading
  <2>2. DOMAIN volumes = Days
    BY DEF IndicatorInv, Concluded, Reading
  <2>3. /\ Snapshot \in Snapshots /\ CanAggregate(Snapshot.bars, Width)
        /\ Cardinality(Days) = Lookback
    BY <2>1, CurrentFacts, InputsAssumption DEF Snapshot, Days
  <2>4. /\ current \in Aggregate(Snapshot.bars, Width)
        /\ PreviousTradingDates(Locate(current).day) = Days
    BY <2>1 DEF Targets, Days
  <2>5. \A t \in Instants(current.from, current.to) : Traded(Snapshot.bars, t)
    BY <2>3, <2>4, SnapshotFacts, WidthFacts, AggregateFacts
  <2>6. ASSUME NEW d \in Days
        PROVE  \E s \in HistoryOf(d) :
                 /\ \A t \in Instants(Offsets(current).from, Offsets(current).to) :
                      Traded(s.bars, SessionsFor(d)[Locate(current).segment].opens + t)
                 /\ \E w \in Aggregate(s.bars, Width) :
                      /\ w.to - w.from = current.to - current.from
                      /\ w.from = SessionsFor(d)[Locate(current).segment].opens
                                    + Offsets(current).from
                      /\ volumes[d] = w.volume
    <3>1. Classify(d) = "reference" /\ volumes[d] = ReferenceVolume(d)
      BY <2>1, <2>2
    <3> QED BY <2>1, <3>1, ReferenceSupports
  <2> QED BY <2>2, <2>3, <2>4, <2>5, <2>6
<1> QED
  BY IndicatorsKeep, <1>1, PTL

(* Where the ratio is available and the request reaches back to the open   *)
(* of its latest session, the VWAP is not refused for its bars.            *)
THEOREM IndicatorsAgree == IndicatorsSpec => []IndicatorsAgreeOnCoverage
<1>1. IndicatorInv => IndicatorsAgreeOnCoverage
  <2> SUFFICES ASSUME IndicatorInv, ratio = "available", vwap # "none",
                      Snapshot.from <= LatestLocation(Snapshot).opens
               PROVE  vwap \in {"available", "zero_volume"}
    BY DEF IndicatorsAgreeOnCoverage
  <2>1. input \in Inputs /\ CurrentResult(Snapshot) = "none" /\ vwap = VwapResult(Snapshot)
    BY DEF IndicatorInv, Concluded, Reading
  <2>2. Snapshot \in Snapshots
    BY <2>1, InputsAssumption DEF Snapshot
  <2> QED BY <2>1, <2>2, CoveredHasVwap
<1> QED
  BY IndicatorsKeep, <1>1, PTL

-----------------------------------------------------------------------------
(* Of the three components one runs, and the others are idle.              *)
EvaluationInv ==
  /\ asked # Idle => RulesInv
  /\ scoring # Idle => AnswerInv
  /\ input # Idle => IndicatorInv

(* A behaviour begins with two components idle.                            *)
LEMMA EvaluationInvInitially == Init => EvaluationInv
BY RulesInitially, AnswerInvInitially, IndicatorInvInitially
   DEF Init, EvaluationInv, RulesIdle, ScoringIdle, IndicatorsIdle

(* The component that runs keeps its invariant, the others their state.    *)
LEMMA EvaluationInvNext ==
  EvaluationInv /\ [Next]_<<ruleVars, scoringVars, indicatorVars>> => EvaluationInv'
<1> SUFFICES ASSUME EvaluationInv, [Next]_<<ruleVars, scoringVars, indicatorVars>>
             PROVE  EvaluationInv'
  OBVIOUS
<1>1. UNCHANGED ruleVars => asked' = asked
  BY DEF ruleVars
<1>2. UNCHANGED scoringVars => scoring' = scoring
  BY DEF scoringVars
<1>3. UNCHANGED indicatorVars => input' = input
  BY DEF indicatorVars
<1>4. (asked # Idle => RulesInv)'
  BY <1>1, RulesKeep DEF EvaluationInv, Next
<1>5. (scoring # Idle => AnswerInv)'
  BY <1>2, AnswerInvNext DEF EvaluationInv, Next
<1>6. (input # Idle => IndicatorInv)'
  <2>1. IndicatorInv /\ [IndicatorsNext]_indicatorVars => IndicatorInv'
    BY IndicatorInvNext
  <2> QED BY <1>3, <2>1 DEF EvaluationInv, Next
<1> QED BY <1>4, <1>5, <1>6 DEF EvaluationInv

(* The state of the component that runs has its type: statuses, scores and *)
(* results are ones its code can give, for the inputs it was asked about.  *)
THEOREM EvaluationTypes == Spec => []TypeOK
<1>1. EvaluationInv => TypeOK
  BY AnswersAreTyped, ReadingsAreTyped DEF EvaluationInv, RulesInv, TypeOK
<1>2. Spec => []EvaluationInv
  BY EvaluationInvInitially, EvaluationInvNext, PTL DEF Spec
<1> QED
  BY <1>1, <1>2, PTL
=============================================================================
