----------------------------- MODULE MathFacts ------------------------------
(***************************************************************************)
(* Facts about numbers, finite sets and sums that the proofs of several    *)
(* components need. The prover cannot instantiate the library's induction  *)
(* rules with a predicate; they are restated here with the set of the      *)
(* values that have the property, and proved from the well-foundedness of  *)
(* the order of the naturals.                                              *)
(***************************************************************************)
EXTENDS Integers, Functions, FiniteSetTheorems, TLAPS

(* Quotient and remainder.                                                 *)
LEMMA Division ==
  ASSUME NEW m \in Int, NEW d \in Nat \ {0}
  PROVE  /\ m \div d \in Int /\ m % d \in 0 .. d - 1
         /\ m = d * (m \div d) + (m % d)
OBVIOUS

(* The multiples of a width part the integers.                             *)
LEMMA MultiplesApart ==
  ASSUME NEW w \in Nat \ {0}, NEW p \in Int, NEW q \in Int, NEW x \in Int,
         p * w <= x, x < p * w + w, q * w <= x, x < q * w + w
  PROVE  p = q
<1>1. ASSUME NEW a \in Int, NEW b \in Int, a < b, b * w <= x, x < a * w + w PROVE FALSE
  <2>1. b - a - 1 \in Nat /\ b = a + 1 + (b - a - 1)
    BY <1>1
  <2> DEFINE k == b - a - 1
  <2>2. k \in Nat /\ b = a + 1 + k
    BY <2>1
  <2> HIDE DEF k
  <2>3. b * w = a * w + w + k * w /\ k * w \in Nat /\ a * w \in Int /\ b * w \in Int
    BY <2>2
  <2> DEFINE aw == a * w
             bw == b * w
             kw == k * w
  <2>4. bw = aw + w + kw /\ kw \in Nat /\ aw \in Int /\ bw \in Int /\ bw <= x /\ x < aw + w
    BY <1>1, <2>3
  <2> HIDE DEF aw, bw, kw
  <2> QED BY <2>4
<1>2. ~ (p < q) /\ ~ (q < p)
  BY <1>1
<1> QED BY <1>2

(* A larger dividend has a larger quotient, or the same one and no smaller *)
(* a remainder.                                                            *)
LEMMA DivisionGrows ==
  ASSUME NEW m \in Int, NEW n \in Int, m <= n, NEW d \in Nat \ {0}
  PROVE  /\ m \div d <= n \div d
         /\ m \div d = n \div d => m % d <= n % d
<1>1. /\ m \div d \in Int /\ m % d \in 0 .. d - 1 /\ m = d * (m \div d) + (m % d)
      /\ n \div d \in Int /\ n % d \in 0 .. d - 1 /\ n = d * (n \div d) + (n % d)
  OBVIOUS
<1>2. ASSUME NEW q \in Int, NEW p \in Int, NEW r \in 0 .. d - 1, NEW s \in 0 .. d - 1,
             d * q + r <= d * p + s
      PROVE  q <= p /\ (q = p => r <= s)
  <2>1. ASSUME p < q PROVE FALSE
    <3>1. PICK k \in Nat : q = p + 1 + k
      <4>1. q - p - 1 \in Nat /\ q = p + 1 + (q - p - 1)
        BY <2>1
      <4> QED BY <4>1
    <3>2. d * q = d * p + d + d * k /\ d * k \in Nat
      BY <3>1
    <3>3. d * p \in Int /\ d * q \in Int
      OBVIOUS
    <3> HIDE <3>1
    <3> QED BY <1>2, <3>2, <3>3
  <2> QED BY <1>2, <2>1
<1> DEFINE mq == m \div d
           nq == n \div d
           mr == m % d
           nr == n % d
<1>3. mq \in Int /\ nq \in Int /\ mr \in 0 .. d - 1 /\ nr \in 0 .. d - 1
      /\ d * mq + mr <= d * nq + nr
  BY <1>1
<1> HIDE DEF mq, nq, mr, nr
<1>4. mq <= nq /\ (mq = nq => mr <= nr)
  BY <1>2, <1>3
<1> QED
  BY <1>4 DEF mq, nq, mr, nr

(* Products keep the order.                                                *)
LEMMA ProductGrows ==
  ASSUME NEW m \in Nat, NEW n \in Nat, m <= n, NEW k \in Nat
  PROVE  m * k \in Nat /\ n * k \in Nat /\ m * k <= n * k
OBVIOUS

-----------------------------------------------------------------------------
(* A set of naturals that is not empty has a least element.                *)
LEMMA LeastElement ==
  ASSUME NEW T \in SUBSET Nat, T # {}
  PROVE  \E m \in T : \A n \in T : m <= n
<1> DEFINE R == OpToRel(<, Nat)
<1>1. IsWellFoundedOn(R, Nat)
  BY NatLessThanWellFounded
<1>2. \A a, b \in Nat : a < b => <<a, b>> \in R
  BY DEF OpToRel
<1> HIDE DEF R
<1>3. \E m \in T : \A n \in T : ~ (<<n, m>> \in R)
  BY <1>1, WFMin
<1>4. PICK m \in T : \A n \in T : ~ (<<n, m>> \in R)
  BY <1>3
<1>5. ASSUME NEW n \in T PROVE m <= n
  <2>1. m \in Nat /\ n \in Nat /\ ~ (n < m)
    BY <1>2, <1>4
  <2> QED
    BY <2>1
<1> QED
  BY <1>5

(* Induction, with the set of the numbers that have the property.          *)
LEMMA InductionOverNat ==
  ASSUME NEW T \in SUBSET Nat, 0 \in T, \A n \in T : n + 1 \in T
  PROVE  T = Nat
<1> SUFFICES ASSUME T # Nat PROVE FALSE
  OBVIOUS
<1>1. PICK m \in Nat \ T : \A n \in Nat \ T : m <= n
  BY LeastElement
<1>2. m # 0 /\ m - 1 \in Nat
  BY <1>1
<1>3. m - 1 \in T
  BY <1>1, <1>2
<1> QED
  BY <1>1, <1>3

(* A bounded set of integers that is not empty has a least and a greatest  *)
(* element.                                                                *)
LEMMA ExtremeElements ==
  ASSUME NEW a \in Int, NEW b \in Int, NEW T \in SUBSET (a .. b), T # {}
  PROVE  /\ \E m \in T : \A n \in T : m <= n
         /\ \E m \in T : \A n \in T : n <= m
<1> DEFINE U == {k \in Nat : a + k \in T}
           V == {k \in Nat : b - k \in T}
<1>1. U # {} /\ V # {}
  <2>1. PICK x \in T : TRUE
    OBVIOUS
  <2>2. x - a \in Nat /\ a + (x - a) = x /\ b - x \in Nat /\ b - (b - x) = x
    BY <2>1
  <2>3. x - a \in U /\ b - x \in V
    BY <2>1, <2>2
  <2> QED BY <2>3
<1>2. U \in SUBSET Nat /\ V \in SUBSET Nat
  OBVIOUS
<1>3. \E m \in U : \A n \in U : m <= n
  <2> HIDE DEF U
  <2> QED BY <1>1, <1>2, LeastElement
<1>4. \E m \in V : \A n \in V : m <= n
  <2> HIDE DEF V
  <2> QED BY <1>1, <1>2, LeastElement
<1>5. PICK u \in U : \A n \in U : u <= n
  BY <1>3
<1>6. PICK v \in V : \A n \in V : v <= n
  BY <1>4
<1>7. ASSUME NEW n \in T PROVE a + u <= n /\ n <= b - v
  <2>1. n \in Int /\ n - a \in Nat /\ b - n \in Nat /\ a + (n - a) = n /\ b - (b - n) = n
    OBVIOUS
  <2>2. n - a \in U /\ b - n \in V
    BY <2>1
  <2>3. u <= n - a /\ v <= b - n /\ u \in Nat /\ v \in Nat
    BY <1>5, <1>6, <2>2
  <2> QED BY <2>1, <2>3
<1> QED
  BY <1>5, <1>6, <1>7

(* Intervals that follow one another are in order at any distance.         *)
LEMMA IntervalsInOrder ==
  ASSUME NEW n \in Nat, NEW a, NEW b,
         \A i \in 1 .. n : a[i] \in Int /\ b[i] \in Int /\ a[i] < b[i],
         \A i \in 1 .. n - 1 : b[i] <= a[i + 1],
         NEW i \in 1 .. n, NEW j \in 1 .. n, i < j
  PROVE  b[i] <= a[j]
<1> DEFINE T == {k \in Nat : i + 1 + k <= n => b[i] <= a[i + 1 + k]}
<1>1. 0 \in T
  <2>1. i + 1 <= n => b[i] <= a[i + 1]
    OBVIOUS
  <2>2. i + 1 + 0 = i + 1
    OBVIOUS
  <2> QED BY <2>1, <2>2
<1>2. ASSUME NEW k \in T PROVE k + 1 \in T
  <2> SUFFICES ASSUME i + 1 + (k + 1) <= n PROVE b[i] <= a[i + 1 + (k + 1)]
    OBVIOUS
  <2> DEFINE m == i + 1 + k
  <2>1. m \in 1 .. n - 1 /\ m + 1 \in 1 .. n /\ i + 1 + (k + 1) = m + 1 /\ m <= n
    OBVIOUS
  <2>2. b[i] <= a[m]
    BY <2>1
  <2> HIDE DEF m
  <2>3. /\ m \in 1 .. n
        /\ b[i] \in Int /\ a[m] \in Int /\ b[m] \in Int /\ a[m] < b[m]
    BY <2>1
  <2>4. b[m] <= a[m + 1] /\ a[m + 1] \in Int
    BY <2>1
  <2>5. b[i] <= a[m + 1]
    BY <2>2, <2>3, <2>4
  <2> QED BY <2>1, <2>5
<1>3. T = Nat
  <2>1. T \in SUBSET Nat
    OBVIOUS
  <2> HIDE DEF T
  <2> QED BY <1>1, <1>2, <2>1, InductionOverNat
<1>4. j - i - 1 \in Nat /\ i + 1 + (j - i - 1) = j
  OBVIOUS
<1>5. j - i - 1 \in T
  BY <1>3, <1>4
<1> QED
  BY <1>4, <1>5

(* Induction up to a number.                                               *)
LEMMA InductionUpTo ==
  ASSUME NEW n \in Nat, NEW P \in SUBSET (0 .. n), 0 \in P,
         \A k \in 1 .. n : k - 1 \in P => k \in P
  PROVE  P = 0 .. n
<1> DEFINE T == {k \in Nat : k <= n => k \in P}
<1>1. 0 \in T
  OBVIOUS
<1>2. ASSUME NEW k \in T PROVE k + 1 \in T
  <2>1. k \in Nat /\ k + 1 \in Nat
    OBVIOUS
  <2>2. ASSUME k + 1 <= n PROVE k + 1 \in P
    <3>1. k + 1 \in 1 .. n /\ k + 1 - 1 = k /\ k \in P
      BY <2>1, <2>2
    <3> QED BY <3>1
  <2> QED BY <2>1, <2>2
<1>3. T = Nat
  <2>1. T \in SUBSET Nat
    OBVIOUS
  <2> HIDE DEF T
  <2> QED BY <1>1, <1>2, <2>1, InductionOverNat
<1>4. ASSUME NEW k \in 0 .. n PROVE k \in P
  <2>1. k \in T /\ k <= n
    BY <1>3
  <2> QED BY <2>1
<1> QED
  BY <1>4

-----------------------------------------------------------------------------
(* Induction over a set whose elements have heights: an element has the    *)
(* property when all those below it have it.                               *)
LEMMA HeightInduction ==
  ASSUME NEW S, NEW h \in [S -> Nat], NEW P \in SUBSET S,
         \A e \in S : (\A x \in S : h[x] < h[e] => x \in P) => e \in P
  PROVE  P = S
<1> DEFINE T == {n \in Nat : \A e \in S : h[e] < n => e \in P}
<1>1. 0 \in T
  OBVIOUS
<1>2. ASSUME NEW n \in T PROVE n + 1 \in T
  <2>1. ASSUME NEW e \in S, h[e] < n + 1 PROVE e \in P
    <3>1. \A x \in S : h[x] < h[e] => h[x] < n
      BY <2>1
    <3> QED BY <3>1
  <2> QED BY <2>1
<1>3. T = Nat
  <2>1. T \in SUBSET Nat
    OBVIOUS
  <2> HIDE DEF T
  <2> QED BY <1>1, <1>2, <2>1, InductionOverNat
<1>4. ASSUME NEW e \in S PROVE e \in P
  <2>1. h[e] + 1 \in T /\ h[e] < h[e] + 1
    BY <1>3
  <2> QED BY <2>1
<1> QED
  BY <1>4

(* What G makes of an element depends on the values of lower ones alone.   *)
IsRecursion(S, h, T, G) ==
  /\ h \in [S -> Nat] /\ T # {} /\ G \in [S \X [S -> T] -> T]
  /\ \A e \in S : \A f, g \in [S -> T] :
       (\A x \in S : h[x] < h[e] => f[x] = g[x]) => G[<<e, f>>] = G[<<e, g>>]

(* Such a G defines a function.                                            *)
LEMMA HeightRecursion ==
  ASSUME NEW S, NEW h, NEW T, NEW G, IsRecursion(S, h, T, G)
  PROVE  \E f \in [S -> T] : \A e \in S : f[e] = G[<<e, f>>]
<1>0. /\ h \in [S -> Nat] /\ T # {} /\ G \in [S \X [S -> T] -> T]
      /\ \A e \in S : \A f, g \in [S -> T] :
           (\A x \in S : h[x] < h[e] => f[x] = g[x]) => G[<<e, f>>] = G[<<e, g>>]
  BY DEF IsRecursion
<1> USE <1>0
<1> DEFINE Solves(f, n) == \A e \in S : h[e] < n => f[e] = G[<<e, f>>]
           U == {n \in Nat : \E f \in [S -> T] : Solves(f, n)}
<1>1. PICK t \in T : TRUE
  OBVIOUS
<1>2. 0 \in U
  <2>1. [e \in S |-> t] \in [S -> T] /\ Solves([e \in S |-> t], 0)
    OBVIOUS
  <2> QED BY <2>1
<1>3. ASSUME NEW n \in U PROVE n + 1 \in U
  <2>1. PICK f \in [S -> T] : Solves(f, n)
    OBVIOUS
  <2> DEFINE g == [e \in S |-> IF h[e] < n THEN f[e] ELSE G[<<e, f>>]]
  <2>2. g \in [S -> T]
    OBVIOUS
  <2>3. \A x \in S : h[x] < n => g[x] = f[x]
    OBVIOUS
  <2>4. \A e \in S : g[e] = G[<<e, f>>]
    BY <2>1
  <2> HIDE DEF g
  <2>5. ASSUME NEW e \in S, h[e] < n + 1 PROVE g[e] = G[<<e, g>>]
    <3>1. \A x \in S : h[x] < h[e] => f[x] = g[x]
      BY <2>3, <2>5
    <3>2. G[<<e, f>>] = G[<<e, g>>]
      BY <2>2, <3>1
    <3> QED BY <2>4, <3>2
  <2>6. Solves(g, n + 1)
    BY <2>5
  <2>7. n + 1 \in Nat
    OBVIOUS
  <2> HIDE DEF Solves
  <2> QED BY <2>2, <2>6, <2>7
<1>4. U = Nat
  <2>1. U \in SUBSET Nat
    OBVIOUS
  <2> HIDE DEF U
  <2> QED BY <1>2, <1>3, <2>1, InductionOverNat
<1>5. \A n \in Nat : \E f \in [S -> T] : Solves(f, n)
  BY <1>4
(* Two solutions agree as far as both go.                                  *)
<1>6. ASSUME NEW m \in Nat, NEW n \in Nat, m <= n,
             NEW f \in [S -> T], NEW g \in [S -> T], Solves(f, m), Solves(g, n)
      PROVE  \A e \in S : h[e] < m => f[e] = g[e]
  <2> DEFINE P == {e \in S : h[e] < m => f[e] = g[e]}
  <2>1. ASSUME NEW e \in S, \A x \in S : h[x] < h[e] => x \in P PROVE e \in P
    <3> SUFFICES ASSUME h[e] < m PROVE f[e] = g[e]
      OBVIOUS
    <3>1. \A x \in S : h[x] < h[e] => f[x] = g[x]
      BY <2>1
    <3>2. G[<<e, f>>] = G[<<e, g>>]
      BY <3>1
    <3>3. f[e] = G[<<e, f>>] /\ g[e] = G[<<e, g>>]
      BY <1>6
    <3> QED BY <3>2, <3>3
  <2>2. P \in SUBSET S
    OBVIOUS
  <2> HIDE DEF P
  <2>3. P = S
    BY <2>1, <2>2, HeightInduction
  <2> QED BY <2>3 DEF P
<1> DEFINE sol(n) == CHOOSE f \in [S -> T] : Solves(f, n)
           F == [e \in S |-> sol(h[e] + 1)[e]]
<1> HIDE DEF Solves
<1>7. \A n \in Nat : sol(n) \in [S -> T] /\ Solves(sol(n), n)
  BY <1>5
<1> HIDE DEF sol
<1>8. F \in [S -> T]
  <2>1. \A e \in S : sol(h[e] + 1) \in [S -> T]
    BY <1>7
  <2> QED BY <2>1
<1>9. ASSUME NEW e \in S PROVE F[e] = G[<<e, F>>]
  <2> DEFINE f == sol(h[e] + 1)
  <2>1. h[e] + 1 \in Nat /\ h[e] < h[e] + 1
    OBVIOUS
  <2>2. f \in [S -> T] /\ Solves(f, h[e] + 1)
    BY <1>7, <2>1
  <2>3. ASSUME NEW x \in S, h[x] < h[e] PROVE F[x] = f[x]
    <3>1. h[x] + 1 \in Nat /\ h[x] + 1 <= h[e] + 1 /\ h[x] < h[x] + 1
      BY <2>3
    <3>2. sol(h[x] + 1) \in [S -> T] /\ Solves(sol(h[x] + 1), h[x] + 1)
      BY <1>7, <3>1
    <3>3. sol(h[x] + 1)[x] = f[x]
      BY <1>6, <2>1, <2>2, <3>1, <3>2
    <3> QED BY <3>3
  <2>4. F[e] = f[e]
    OBVIOUS
  <2>5. f[e] = G[<<e, f>>]
    BY <2>1, <2>2 DEF Solves
  <2> HIDE DEF F, f
  <2>6. G[<<e, F>>] = G[<<e, f>>]
    BY <1>8, <2>2, <2>3
  <2> QED BY <2>4, <2>5, <2>6
<1> QED
  BY <1>8, <1>9

-----------------------------------------------------------------------------
(* The element by which a sum takes a set apart.                           *)
Pick(s) == CHOOSE x \in s : TRUE

(* Induction over the subsets of a finite set, one picked element a step.  *)
LEMMA InductionOverSubsets ==
  ASSUME NEW S, IsFiniteSet(S), NEW C \in SUBSET (SUBSET S), {} \in C,
         \A s \in SUBSET S : s # {} /\ s \ {Pick(s)} \in C => s \in C
  PROVE  C = SUBSET S
<1> DEFINE T == {n \in Nat : \A s \in SUBSET S : Cardinality(s) = n => s \in C}
<1>1. \A s \in SUBSET S : IsFiniteSet(s) /\ Cardinality(s) \in Nat
  BY FS_Subset, FS_CardinalityType
<1>2. 0 \in T
  BY <1>1, FS_EmptySet
<1>3. ASSUME NEW n \in T, NEW s \in SUBSET S, Cardinality(s) = n + 1
      PROVE  s \in C
  <2>1. s # {}
    BY <1>3, FS_EmptySet
  <2>2. Pick(s) \in s
    BY <2>1 DEF Pick
  <2>3. Cardinality(s \ {Pick(s)}) = n
    BY <1>1, <1>3, <2>2, FS_RemoveElement
  <2>4. s \ {Pick(s)} \in C
    BY <2>3
  <2> QED
    BY <2>1, <2>4
<1>4. T = Nat
  <2>1. T \in SUBSET Nat /\ \A n \in T : n + 1 \in T
    BY <1>3
  <2> HIDE DEF T
  <2> QED BY <1>2, <2>1, InductionOverNat
<1> QED
  BY <1>1, <1>4

(* The equation of SumFunctionOnSet.                                       *)
SumStep(f, S, h) ==
  [s \in SUBSET S |-> IF s = {} THEN 0 ELSE f[Pick(s)] + h[s \ {Pick(s)}]]
Sums(f, S) == CHOOSE h : h = SumStep(f, S, h)

(* SumFunctionOnSet reads its result off the function that satisfies it.   *)
LEMMA SumIsFixpoint ==
  ASSUME NEW f, NEW S
  PROVE  SumFunctionOnSet(f, S) = Sums(f, S)[S]
BY DEF SumFunctionOnSet, FoldFunctionOnSet, MapThenFoldSet, Sums, SumStep, Pick

(* There is such a function.                                               *)
LEMMA SumsExist ==
  ASSUME NEW S, IsFiniteSet(S), NEW f, \A x \in S : f[x] \in Int
  PROVE  Sums(f, S) = SumStep(f, S, Sums(f, S))
<1> DEFINE Small(n) == {s \in SUBSET S : Cardinality(s) <= n}
           Solves(h, n) == \A s \in Small(n) :
                             h[s] = IF s = {} THEN 0 ELSE f[Pick(s)] + h[s \ {Pick(s)}]
           T == {n \in Nat : \E h : h = [s \in Small(n) |-> h[s]] /\ Solves(h, n)}
<1>1. \A s \in SUBSET S : IsFiniteSet(s) /\ Cardinality(s) \in Nat
  BY FS_Subset, FS_CardinalityType
<1>2. ASSUME NEW n \in Nat, NEW s \in Small(n + 1), s # {}
      PROVE  s \ {Pick(s)} \in Small(n)
  <2>1. Pick(s) \in s
    BY <1>2 DEF Pick
  <2> QED
    BY <1>1, <2>1, FS_RemoveElement
<1>3. 0 \in T
  <2> DEFINE h == [s \in Small(0) |-> 0]
  <2>1. \A s \in Small(0) : s = {}
    BY <1>1, FS_EmptySet
  <2>2. h = [s \in Small(0) |-> h[s]] /\ Solves(h, 0)
    BY <2>1
  <2> QED
    BY <2>2
<1>4. ASSUME NEW n \in T PROVE n + 1 \in T
  <2>1. PICK h : h = [s \in Small(n) |-> h[s]] /\ Solves(h, n)
    OBVIOUS
  <2> DEFINE g == [s \in Small(n + 1) |->
                     IF s = {} THEN 0 ELSE f[Pick(s)] + h[s \ {Pick(s)}]]
  <2>2. ASSUME NEW s \in Small(n)
        PROVE  s \in Small(n + 1) /\ g[s] = h[s]
    <3>1. s \in Small(n + 1)
      BY <1>1
    <3>2. h[s] = IF s = {} THEN 0 ELSE f[Pick(s)] + h[s \ {Pick(s)}]
      BY <2>1
    <3> QED
      BY <3>1, <3>2
  <2>3. ASSUME NEW s \in Small(n + 1), s # {}
        PROVE  g[s \ {Pick(s)}] = h[s \ {Pick(s)}]
    BY <1>2, <2>2, <2>3
  <2>4. Solves(g, n + 1)
    BY <2>3
  <2>5. g = [s \in Small(n + 1) |-> g[s]]
    OBVIOUS
  <2>6. n + 1 \in Nat
    OBVIOUS
  <2> HIDE DEF g, Solves
  <2>7. \E k : k = [s \in Small(n + 1) |-> k[s]] /\ Solves(k, n + 1)
    BY <2>4, <2>5
  <2> QED
    BY <2>6, <2>7
<1>5. T = Nat
  <2>1. T \in SUBSET Nat
    OBVIOUS
  <2> HIDE DEF T
  <2> QED BY <1>3, <1>4, <2>1, InductionOverNat
<1>6. Cardinality(S) \in T
  BY <1>1, <1>5
<1>7. Small(Cardinality(S)) = SUBSET S
  BY FS_Subset
<1>8. PICK h : h = [s \in SUBSET S |-> h[s]] /\ Solves(h, Cardinality(S))
  BY <1>6, <1>7
<1>9. h = SumStep(f, S, h)
  BY <1>7, <1>8 DEF SumStep
<1> QED
  BY <1>9 DEF Sums

(* A sum of integers is an integer, of naturals a natural, and it grows    *)
(* with its summands.                                                      *)
LEMMA SumGrows ==
  ASSUME NEW S, IsFiniteSet(S), NEW f, NEW g,
         \A x \in S : f[x] \in Int /\ g[x] \in Int /\ f[x] <= g[x]
  PROVE  /\ SumFunctionOnSet(f, S) \in Int /\ SumFunctionOnSet(g, S) \in Int
         /\ SumFunctionOnSet(f, S) <= SumFunctionOnSet(g, S)
<1> DEFINE F == Sums(f, S)
           G == Sums(g, S)
           C == {s \in SUBSET S : F[s] \in Int /\ G[s] \in Int /\ F[s] <= G[s]}
<1>1. \A s \in SUBSET S :
        /\ F[s] = IF s = {} THEN 0 ELSE f[Pick(s)] + F[s \ {Pick(s)}]
        /\ G[s] = IF s = {} THEN 0 ELSE g[Pick(s)] + G[s \ {Pick(s)}]
  <2>1. F = SumStep(f, S, F) /\ G = SumStep(g, S, G)
    BY SumsExist
  <2> HIDE DEF F, G
  <2> QED BY <2>1 DEF SumStep
<1> HIDE DEF F, G
<1>2. {} \in C
  <2>1. {} \in SUBSET S /\ F[{}] = 0 /\ G[{}] = 0
    BY <1>1
  <2> QED BY <2>1
<1>3. ASSUME NEW s \in SUBSET S, s # {}, s \ {Pick(s)} \in C
      PROVE  s \in C
  <2>1. Pick(s) \in S
    BY <1>3 DEF Pick
  <2>2. /\ f[Pick(s)] \in Int /\ g[Pick(s)] \in Int
        /\ f[Pick(s)] <= g[Pick(s)]
    BY <2>1
  <2> DEFINE t == s \ {Pick(s)}
  <2>3. F[t] \in Int /\ G[t] \in Int /\ F[t] <= G[t]
    BY <1>3
  <2>4. F[s] = f[Pick(s)] + F[t] /\ G[s] = g[Pick(s)] + G[t]
    BY <1>1, <1>3
  <2> HIDE DEF t
  <2> QED
    BY <2>2, <2>3, <2>4
<1>4. C = SUBSET S
  <2>1. C \in SUBSET (SUBSET S)
    OBVIOUS
  <2> HIDE DEF C
  <2> QED BY <1>2, <1>3, <2>1, InductionOverSubsets
<1>5. SumFunctionOnSet(f, S) = F[S] /\ SumFunctionOnSet(g, S) = G[S]
  BY SumIsFixpoint DEF F, G
<1> QED
  BY <1>4, <1>5

(* A sum of a multiple is the multiple of the sum; in particular a sum of  *)
(* zeros is zero.                                                          *)
LEMMA SumScales ==
  ASSUME NEW S, IsFiniteSet(S), NEW k \in Int, NEW f, NEW g,
         \A x \in S : f[x] \in Int /\ g[x] = k * f[x]
  PROVE  SumFunctionOnSet(g, S) = k * SumFunctionOnSet(f, S)
<1> DEFINE F == Sums(f, S)
           G == Sums(g, S)
           C == {s \in SUBSET S : F[s] \in Int /\ G[s] = k * F[s]}
<1>1. \A s \in SUBSET S :
        /\ F[s] = IF s = {} THEN 0 ELSE f[Pick(s)] + F[s \ {Pick(s)}]
        /\ G[s] = IF s = {} THEN 0 ELSE g[Pick(s)] + G[s \ {Pick(s)}]
  <2>1. \A x \in S : f[x] \in Int /\ g[x] \in Int
    OBVIOUS
  <2>2. F = SumStep(f, S, F) /\ G = SumStep(g, S, G)
    BY <2>1, SumsExist
  <2> HIDE DEF F, G
  <2> QED BY <2>2 DEF SumStep
<1> HIDE DEF F, G
<1>2. {} \in C
  <2>1. {} \in SUBSET S /\ F[{}] = 0 /\ G[{}] = 0
    BY <1>1
  <2>2. k * 0 = 0
    OBVIOUS
  <2> QED BY <2>1, <2>2
<1>3. ASSUME NEW s \in SUBSET S, s # {}, s \ {Pick(s)} \in C
      PROVE  s \in C
  <2>1. Pick(s) \in S
    BY <1>3 DEF Pick
  <2> DEFINE t == s \ {Pick(s)}
             a == f[Pick(s)]
             b == g[Pick(s)]
  <2>2. a \in Int /\ b = k * a
    BY <2>1
  <2>3. F[t] \in Int /\ G[t] = k * F[t]
    BY <1>3
  <2>4. F[s] = a + F[t] /\ G[s] = b + G[t]
    BY <1>1, <1>3
  <2> HIDE DEF t, a, b
  <2>5. \A x, y \in Int : k * x + k * y = k * (x + y)
    OBVIOUS
  <2> QED
    BY <2>2, <2>3, <2>4, <2>5
<1>4. C = SUBSET S
  <2>1. C \in SUBSET (SUBSET S)
    OBVIOUS
  <2> HIDE DEF C
  <2> QED BY <1>2, <1>3, <2>1, InductionOverSubsets
<1>5. SumFunctionOnSet(f, S) = F[S] /\ SumFunctionOnSet(g, S) = G[S]
  BY SumIsFixpoint DEF F, G
<1> QED
  BY <1>4, <1>5

(* The same for all the values of a function.                              *)
LEMMA SumFunctionGrows ==
  ASSUME NEW f, NEW g, DOMAIN f = DOMAIN g, IsFiniteSet(DOMAIN f),
         \A x \in DOMAIN f : f[x] \in Int /\ g[x] \in Int /\ f[x] <= g[x]
  PROVE  /\ SumFunction(f) \in Int /\ SumFunction(g) \in Int
         /\ SumFunction(f) <= SumFunction(g)
BY SumGrows DEF SumFunction

(* A sum is the sum of what it goes over, in whatever order.               *)
LEMMA SumsOfSubsets ==
  ASSUME NEW S, IsFiniteSet(S), NEW f, \A x \in S : f[x] \in Int, NEW R \in SUBSET S
  PROVE  SumFunctionOnSet(f, R) = Sums(f, S)[R]
<1> DEFINE F == Sums(f, S)
           G == Sums(f, R)
           C == {s \in SUBSET R : F[s] = G[s]}
<1>1. IsFiniteSet(R)
  BY FS_Subset
<1>2. /\ \A s \in SUBSET S : F[s] = IF s = {} THEN 0 ELSE f[Pick(s)] + F[s \ {Pick(s)}]
      /\ \A s \in SUBSET R : G[s] = IF s = {} THEN 0 ELSE f[Pick(s)] + G[s \ {Pick(s)}]
  <2>1. F = SumStep(f, S, F)
    BY SumsExist
  <2>2. G = SumStep(f, R, G)
    BY <1>1, SumsExist
  <2> HIDE DEF F, G
  <2> QED BY <2>1, <2>2 DEF SumStep
<1> HIDE DEF F, G
<1>3. {} \in C
  BY <1>2
<1>4. ASSUME NEW s \in SUBSET R, s # {}, s \ {Pick(s)} \in C PROVE s \in C
  <2>1. s \in SUBSET S
    OBVIOUS
  <2> QED BY <1>2, <1>4, <2>1
<1>5. C = SUBSET R
  <2>1. C \in SUBSET (SUBSET R)
    OBVIOUS
  <2> HIDE DEF C
  <2> QED BY <1>1, <1>3, <1>4, <2>1, InductionOverSubsets
<1>6. F[R] = G[R]
  BY <1>5
<1> QED
  BY <1>6, SumIsFixpoint DEF F, G

(* A sum, without one of its summands.                                     *)
LEMMA SumTakesApart ==
  ASSUME NEW S, IsFiniteSet(S), NEW f, \A x \in S : f[x] \in Int
  PROVE  /\ SumFunctionOnSet(f, {}) = 0
         /\ \A x \in S : /\ SumFunctionOnSet(f, S \ {x}) \in Int
                         /\ SumFunctionOnSet(f, S) = f[x] + SumFunctionOnSet(f, S \ {x})
<1> DEFINE F == Sums(f, S)
           C == {s \in SUBSET S : F[s] \in Int /\ \A x \in s : F[s \ {x}] \in Int /\ F[s] = f[x] + F[s \ {x}]}
           T == {n \in Nat : \A s \in SUBSET S : Cardinality(s) <= n => s \in C}
<1>1. \A s \in SUBSET S : IsFiniteSet(s) /\ Cardinality(s) \in Nat
  BY FS_Subset, FS_CardinalityType
<1>2. \A s \in SUBSET S : F[s] = IF s = {} THEN 0 ELSE f[Pick(s)] + F[s \ {Pick(s)}]
  <2>1. F = SumStep(f, S, F)
    BY SumsExist
  <2> HIDE DEF F
  <2> QED BY <2>1 DEF SumStep
<1>3. \A s \in SUBSET S : SumFunctionOnSet(f, s) = F[s]
  BY SumsOfSubsets
<1> HIDE DEF F
<1>4. {} \in C
  <2>1. {} \in SUBSET S /\ F[{}] = 0
    BY <1>2
  <2> QED BY <2>1
<1>5. 0 \in T
  <2>1. \A s \in SUBSET S : Cardinality(s) <= 0 => s = {}
    BY <1>1, FS_EmptySet
  <2> QED BY <1>4, <2>1
<1>6. ASSUME NEW n \in T PROVE n + 1 \in T
  <2>1. ASSUME NEW s \in SUBSET S, Cardinality(s) = n + 1 PROVE s \in C
    <3> DEFINE p == Pick(s)
    <3>1. s # {}
      <4>1. n + 1 # 0
        OBVIOUS
      <4> QED BY <2>1, <4>1, FS_EmptySet
    <3>2. p \in s
      BY <3>1 DEF Pick
    <3> HIDE DEF p
    <3>3. \A x \in s : s \ {x} \in SUBSET S /\ Cardinality(s \ {x}) <= n
      BY <1>1, <2>1, FS_RemoveElement
    <3>4. \A x \in s : s \ {x} \in C
      BY <3>3
    <3>5. F[s] = f[p] + F[s \ {p}]
      BY <1>2, <3>1 DEF p
    <3>6. F[s] \in Int
      <4>1. f[p] \in Int /\ F[s \ {p}] \in Int
        BY <3>2, <3>4
      <4> QED BY <3>5, <4>1
    <3>7. ASSUME NEW x \in s, x # p PROVE F[s] = f[x] + F[s \ {x}]
      <4>1. (s \ {p}) \ {x} = (s \ {x}) \ {p} /\ x \in s \ {p} /\ p \in s \ {x}
        BY <3>2, <3>7
      <4>2. F[s \ {p}] = f[x] + F[(s \ {p}) \ {x}] /\ F[(s \ {p}) \ {x}] \in Int
        BY <3>2, <3>4, <4>1
      <4>3. F[s \ {x}] = f[p] + F[(s \ {x}) \ {p}]
        BY <3>4, <4>1
      <4>4. f[x] \in Int /\ f[p] \in Int
        BY <3>2
      <4> DEFINE a == F[(s \ {p}) \ {x}]
      <4>5. a \in Int /\ F[s] = f[p] + (f[x] + a) /\ F[s \ {x}] = f[p] + a
        BY <3>5, <4>1, <4>2, <4>3
      <4> HIDE DEF a
      <4> QED BY <4>4, <4>5
    <3>8. \A x \in s : F[s \ {x}] \in Int
      BY <3>4
    <3> QED BY <3>5, <3>6, <3>7, <3>8
  <2>2. ASSUME NEW s \in SUBSET S, Cardinality(s) <= n + 1 PROVE s \in C
    <3>1. Cardinality(s) = n + 1 \/ Cardinality(s) <= n
      BY <1>1, <2>2
    <3> QED BY <2>1, <3>1
  <2>3. n + 1 \in Nat
    OBVIOUS
  <2> HIDE DEF C
  <2> QED BY <2>2, <2>3
<1>7. T = Nat
  <2>1. T \in SUBSET Nat
    OBVIOUS
  <2> HIDE DEF T
  <2> QED BY <1>5, <1>6, <2>1, InductionOverNat
<1>8. S \in C /\ F[{}] = 0
  <2>1. Cardinality(S) \in Nat
    BY <1>1
  <2>2. F[{}] = 0
    BY <1>2
  <2> HIDE DEF C
  <2> QED BY <1>1, <1>7, <2>1, <2>2
<1>9. {} \in SUBSET S /\ S \in SUBSET S /\ \A x \in S : S \ {x} \in SUBSET S
  OBVIOUS
<1> QED
  BY <1>3, <1>8, <1>9

(* One function is the sum of two others.                                  *)
AddUp(S, f, g, k) == \A x \in S : f[x] \in Int /\ g[x] \in Int /\ k[x] = f[x] + g[x]

(* Two sums over the same set add up.                                      *)
LEMMA SumsAdd ==
  ASSUME NEW S, IsFiniteSet(S), NEW f, NEW g, NEW k, AddUp(S, f, g, k)
  PROVE  SumFunctionOnSet(k, S) = SumFunctionOnSet(f, S) + SumFunctionOnSet(g, S)
<1> USE DEF AddUp
<1> DEFINE F == Sums(f, S)
           G == Sums(g, S)
           K == Sums(k, S)
           C == {s \in SUBSET S : F[s] \in Int /\ G[s] \in Int /\ K[s] = F[s] + G[s]}
<1>1. \A s \in SUBSET S :
        /\ F[s] = IF s = {} THEN 0 ELSE f[Pick(s)] + F[s \ {Pick(s)}]
        /\ G[s] = IF s = {} THEN 0 ELSE g[Pick(s)] + G[s \ {Pick(s)}]
        /\ K[s] = IF s = {} THEN 0 ELSE k[Pick(s)] + K[s \ {Pick(s)}]
  <2>1. F = SumStep(f, S, F) /\ G = SumStep(g, S, G)
    BY SumsExist
  <2>2. \A x \in S : k[x] \in Int
    OBVIOUS
  <2>3. K = SumStep(k, S, K)
    BY <2>2, SumsExist
  <2> HIDE DEF F, G, K
  <2> QED BY <2>1, <2>3 DEF SumStep
<1> HIDE DEF F, G, K
<1>2. {} \in C
  <2>1. {} \in SUBSET S /\ F[{}] = 0 /\ G[{}] = 0 /\ K[{}] = 0
    BY <1>1
  <2> QED BY <2>1
<1>3. ASSUME NEW s \in SUBSET S, s # {}, s \ {Pick(s)} \in C PROVE s \in C
  <2> DEFINE t == s \ {Pick(s)}
             a == f[Pick(s)]
             b == g[Pick(s)]
  <2>1. Pick(s) \in S
    BY <1>3 DEF Pick
  <2>2. a \in Int /\ b \in Int /\ k[Pick(s)] = a + b
    BY <2>1
  <2>3. F[t] \in Int /\ G[t] \in Int /\ K[t] = F[t] + G[t]
    BY <1>3
  <2>4. F[s] = a + F[t] /\ G[s] = b + G[t] /\ K[s] = k[Pick(s)] + K[t]
    BY <1>1, <1>3
  <2> HIDE DEF t, a, b
  <2> QED BY <2>2, <2>3, <2>4
<1>4. C = SUBSET S
  <2>1. C \in SUBSET (SUBSET S)
    OBVIOUS
  <2> HIDE DEF C
  <2> QED BY <1>2, <1>3, <2>1, InductionOverSubsets
<1>5. SumFunctionOnSet(f, S) = F[S] /\ SumFunctionOnSet(g, S) = G[S] /\ SumFunctionOnSet(k, S) = K[S]
  BY SumIsFixpoint DEF F, G, K
<1> QED
  BY <1>4, <1>5
(* A sum of naturals is one.                                               *)
LEMMA SumOfNaturals ==
  ASSUME NEW S, IsFiniteSet(S), NEW f, \A x \in S : f[x] \in Nat
  PROVE  SumFunctionOnSet(f, S) \in Nat
<1> DEFINE z == [x \in S |-> 0]
<1>1. \A x \in S : z[x] \in Int /\ f[x] \in Int /\ z[x] <= f[x]
  OBVIOUS
<1>2. \A x \in S : z[x] \in Int /\ z[x] = 0 * z[x]
  OBVIOUS
<1> HIDE DEF z
<1>3. /\ SumFunctionOnSet(z, S) \in Int /\ SumFunctionOnSet(f, S) \in Int
      /\ SumFunctionOnSet(z, S) <= SumFunctionOnSet(f, S)
  BY <1>1, SumGrows
<1>4. SumFunctionOnSet(z, S) = 0 * SumFunctionOnSet(z, S)
  BY <1>2, SumScales
<1> QED
  BY <1>3, <1>4

(* The sums of the first of a sequence of numbers.                         *)
SumUpTo(c, k) == SumFunctionOnSet(c, 1 .. k)

(* The sums of the prefixes of a sequence of naturals.                     *)
LEMMA PrefixSums ==
  ASSUME NEW n \in Nat, NEW c, \A i \in 1 .. n : c[i] \in Nat
  PROVE  /\ SumUpTo(c, 0) = 0
         /\ \A k \in 1 .. n : SumUpTo(c, k) = SumUpTo(c, k - 1) + c[k]
         /\ \A k \in 0 .. n : SumUpTo(c, k) \in Nat /\ SumUpTo(c, k) <= SumUpTo(c, n)
<1>1. ASSUME NEW k \in 0 .. n PROVE IsFiniteSet(1 .. k) /\ \A i \in 1 .. k : c[i] \in Nat /\ c[i] \in Int
  <2>1. 1 \in Int /\ k \in Int
    OBVIOUS
  <2> QED BY <2>1, FS_Interval
<1>2. SumUpTo(c, 0) = 0
  <2>1. 1 .. 0 = {} /\ IsFiniteSet(1 .. n) /\ \A i \in 1 .. n : c[i] \in Int
    BY <1>1
  <2> QED BY <2>1, SumTakesApart DEF SumUpTo
<1>3. ASSUME NEW k \in 0 .. n PROVE SumUpTo(c, k) \in Nat
  BY <1>1, SumOfNaturals DEF SumUpTo
<1>4. ASSUME NEW k \in 1 .. n PROVE SumUpTo(c, k) = SumUpTo(c, k - 1) + c[k]
  <2>1. (1 .. k) \ {k} = 1 .. (k - 1) /\ k \in 0 .. n /\ k \in 1 .. k /\ k - 1 \in 0 .. n
    OBVIOUS
  <2>2. SumFunctionOnSet(c, 1 .. k) = c[k] + SumFunctionOnSet(c, (1 .. k) \ {k})
    BY <1>1, <2>1, SumTakesApart
  <2>3. SumUpTo(c, k) = c[k] + SumUpTo(c, k - 1)
    BY <2>1, <2>2 DEF SumUpTo
  <2> QED BY <1>3, <2>1, <2>3
<1> DEFINE P == {j \in 0 .. n : \A k \in 0 .. j : SumUpTo(c, k) <= SumUpTo(c, j)}
<1>5. 0 \in P
  BY <1>2
<1>6. ASSUME NEW j \in 1 .. n, j - 1 \in P PROVE j \in P
  <2>1. ASSUME NEW k \in 0 .. j PROVE SumUpTo(c, k) <= SumUpTo(c, j)
    <3>1. CASE k = j
      <4>1. j \in 0 .. n
        OBVIOUS
      <4> QED BY <1>3, <3>1, <4>1
    <3>2. CASE k # j
      <4>1. k \in 0 .. (j - 1) /\ k \in 0 .. n /\ j - 1 \in 0 .. n /\ j \in 0 .. n
        BY <3>2
      <4>2. SumUpTo(c, k) <= SumUpTo(c, j - 1)
        BY <1>6, <4>1
      <4>3. SumUpTo(c, k) \in Nat /\ SumUpTo(c, j - 1) \in Nat /\ SumUpTo(c, j) \in Nat /\ c[j] \in Nat
        BY <1>3, <4>1
      <4> QED BY <1>4, <4>2, <4>3
    <3> QED BY <3>1, <3>2
  <2> QED BY <2>1
<1>7. P = 0 .. n
  <2>1. P \in SUBSET (0 .. n)
    OBVIOUS
  <2> HIDE DEF P
  <2> QED BY <1>5, <1>6, <2>1, InductionUpTo
<1>8. n \in P
  BY <1>7
<1> QED
  BY <1>2, <1>3, <1>4, <1>8

-----------------------------------------------------------------------------
(* Where a strict order puts the elements of a finite set: behind those    *)
(* that come before.                                                       *)
PlaceIn(D, R, i) == 1 + Cardinality({j \in D : <<j, i>> \in R})

(* Each element has a place of its own, and each place its element, in     *)
(* order.                                                                  *)
LEMMA PlacesAreBijective ==
  ASSUME NEW D, IsFiniteSet(D), NEW R,
         \A i \in D : <<i, i>> \notin R,
         \A i, j, k \in D : <<i, j>> \in R /\ <<j, k>> \in R => <<i, k>> \in R,
         \A i, j \in D : i # j => <<i, j>> \in R \/ <<j, i>> \in R
  PROVE  /\ \A i \in D : PlaceIn(D, R, i) \in 1 .. Cardinality(D)
         /\ \A i, j \in D : PlaceIn(D, R, i) = PlaceIn(D, R, j) => i = j
         /\ \A k \in 1 .. Cardinality(D) : \E i \in D : PlaceIn(D, R, i) = k
         /\ \A i, j \in D : <<i, j>> \in R => PlaceIn(D, R, i) < PlaceIn(D, R, j)
<1> DEFINE before(i) == {j \in D : <<j, i>> \in R}
           n == Cardinality(D)
           p == [i \in D |-> PlaceIn(D, R, i)]
<1>1. n \in Nat
  BY FS_CardinalityType
<1>2. \A i \in D : IsFiniteSet(before(i)) /\ Cardinality(before(i)) \in Nat
  <2>1. \A i \in D : before(i) \in SUBSET D
    OBVIOUS
  <2> HIDE DEF before
  <2> QED BY <2>1, FS_Subset, FS_CardinalityType
<1>3. ASSUME NEW i \in D PROVE Cardinality(before(i)) + 1 <= n
  <2>1. before(i) \in SUBSET D /\ before(i) # D
    OBVIOUS
  <2> HIDE DEF before
  <2>2. Cardinality(before(i)) <= n /\ Cardinality(before(i)) # n
    BY <2>1, FS_Subset
  <2> QED BY <1>1, <1>2, <2>2
<1>4. ASSUME NEW i \in D, NEW j \in D, <<i, j>> \in R
      PROVE  Cardinality(before(i)) < Cardinality(before(j))
  <2>1. before(i) \in SUBSET before(j) /\ before(i) # before(j)
    BY <1>4
  <2>2. IsFiniteSet(before(j))
    BY <1>2
  <2> HIDE DEF before
  <2>3. Cardinality(before(i)) <= Cardinality(before(j)) /\ Cardinality(before(i)) # Cardinality(before(j))
    BY <2>1, <2>2, FS_Subset
  <2> QED BY <1>2, <2>3
<1>5. \A i \in D : p[i] = 1 + Cardinality(before(i)) /\ p[i] = PlaceIn(D, R, i)
  BY DEF PlaceIn
<1> HIDE DEF p, before
<1>6. \A i \in D : p[i] \in 1 .. n
  BY <1>1, <1>2, <1>3, <1>5
<1>7. \A i, j \in D : p[i] = p[j] => i = j
  <2> SUFFICES ASSUME NEW i \in D, NEW j \in D, i # j PROVE p[i] # p[j]
    OBVIOUS
  <2>1. \/ Cardinality(before(i)) < Cardinality(before(j))
        \/ Cardinality(before(j)) < Cardinality(before(i))
    BY <1>4
  <2> QED BY <1>2, <1>5, <2>1
<1>8. \A k \in 1 .. n : \E i \in D : p[i] = k
  <2>1. p \in [D -> 1 .. n]
    BY <1>6 DEF p
  <2>2. p \in Injection(D, 1 .. n)
    BY <1>7, <2>1 DEF Injection, IsInjective
  <2>3. IsFiniteSet(1 .. n) /\ Cardinality(1 .. n) = n
    <3>1. 1 \in Int /\ n \in Int
      BY <1>1
    <3>2. IsFiniteSet(1 .. n) /\ Cardinality(1 .. n) = IF 1 > n THEN 0 ELSE n - 1 + 1
      BY <3>1, FS_Interval
    <3> QED BY <1>1, <3>2
  <2>4. p \in Surjection(D, 1 .. n)
    BY <2>2, <2>3, FS_Injection DEF n
  <2> QED BY <2>4 DEF Surjection
<1>9. ASSUME NEW i \in D, NEW j \in D, <<i, j>> \in R PROVE p[i] < p[j]
  <2>1. Cardinality(before(i)) < Cardinality(before(j))
    BY <1>4, <1>9
  <2> QED BY <1>2, <1>5, <2>1
<1> QED
  BY <1>5, <1>6, <1>7, <1>8, <1>9

-----------------------------------------------------------------------------
(* Powers of two, which count the subsets of an interval.                  *)
LEMMA PowerCountsSubsets ==
  ASSUME NEW n \in Nat
  PROVE  IsFiniteSet(SUBSET (1 .. n)) /\ Cardinality(SUBSET (1 .. n)) = 2 ^ n
<1>1. 1 \in Int /\ n \in Int
  OBVIOUS
<1>2. IsFiniteSet(1 .. n) /\ Cardinality(1 .. n) = IF 1 > n THEN 0 ELSE n - 1 + 1
  BY <1>1, FS_Interval
<1>3. Cardinality(1 .. n) = n
  BY <1>2
<1>4. IsFiniteSet(SUBSET (1 .. n)) /\ Cardinality(SUBSET (1 .. n)) = 2 ^ Cardinality(1 .. n)
  BY <1>2, FS_SUBSET
<1> QED
  BY <1>3, <1>4

(* They double.                                                            *)
LEMMA PowersOfTwo ==
  /\ 2 ^ 0 = 1
  /\ \A n \in Nat : 2 ^ n \in Nat \ {0} /\ 2 ^ (n + 1) = 2 * 2 ^ n
<1>1. 2 ^ 0 = 1
  OBVIOUS
<1>2. ASSUME NEW n \in Nat PROVE 2 ^ n \in Nat \ {0}
  <2>1. SUBSET (1 .. n) # {}
    OBVIOUS
  <2>2. Cardinality(SUBSET (1 .. n)) \in Nat /\ Cardinality(SUBSET (1 .. n)) # 0
    BY <2>1, PowerCountsSubsets, FS_CardinalityType, FS_EmptySet
  <2> QED
    BY <2>2, PowerCountsSubsets
<1>3. ASSUME NEW n \in Nat PROVE 2 ^ (n + 1) = 2 * 2 ^ n
  <2> DEFINE A == SUBSET (1 .. n)
             B == {s \in SUBSET (1 .. n + 1) : n + 1 \in s}
             f == [s \in A |-> s \cup {n + 1}]
  <2>1. A \cup B = SUBSET (1 .. n + 1) /\ A \cap B = {}
    <3>1. 1 .. n + 1 = (1 .. n) \cup {n + 1} /\ n + 1 \notin 1 .. n
      OBVIOUS
    <3> QED BY <3>1
  <2>2. f \in Bijection(A, B)
    <3>1. \A s \in A : f[s] \in B
      OBVIOUS
    <3>2. \A s, t \in A : f[s] = f[t] => s = t
      <4>1. \A s \in A : s = f[s] \ {n + 1}
        OBVIOUS
      <4> HIDE DEF f
      <4> QED BY <4>1
    <3>3. \A s \in B : s \ {n + 1} \in A /\ f[s \ {n + 1}] = s
      OBVIOUS
    <3>4. f \in [A -> B]
      BY <3>1
    <3> HIDE DEF f, A, B
    <3>5. f \in Injection(A, B)
      BY <3>2, <3>4 DEF Injection, IsInjective
    <3>6. f \in Surjection(A, B)
      BY <3>3, <3>4 DEF Surjection
    <3> QED BY <3>5, <3>6 DEF Bijection
  <2>3. n + 1 \in Nat
    OBVIOUS
  <2>4. IsFiniteSet(A) /\ Cardinality(A) = 2 ^ n /\ Cardinality(SUBSET (1 .. n + 1)) = 2 ^ (n + 1)
    BY <2>3, PowerCountsSubsets
  <2>5. IsFiniteSet(B) /\ Cardinality(B) = Cardinality(A)
    <3> HIDE DEF A, B, f
    <3> QED BY <2>2, <2>4, FS_Bijection DEF ExistsBijection
  <2>6. Cardinality(A \cup B) = Cardinality(A) + Cardinality(B) - Cardinality(A \cap B)
    <3> HIDE DEF A, B, f
    <3> QED BY <2>4, <2>5, FS_Union
  <2>7. Cardinality(A \cap B) = 0
    BY <2>1, FS_EmptySet
  <2>8. 2 ^ (n + 1) = 2 ^ n + 2 ^ n - 0
    <3> HIDE DEF A, B, f
    <3> QED BY <2>1, <2>4, <2>5, <2>6, <2>7
  <2>9. 2 ^ n \in Nat
    BY <1>2
  <2>10. \A k, m \in Nat : m = k + k - 0 => m = 2 * k
    OBVIOUS
  <2> QED
    BY <1>2, <2>3, <2>8, <2>9, <2>10
<1> QED
  BY <1>1, <1>2, <1>3
=============================================================================
