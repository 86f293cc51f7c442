----------------------------- MODULE RuleProofs -----------------------------
(***************************************************************************)
(* The rule engine on any expressions, any evidence and any limits.        *)
(*                                                                         *)
(* An expression is higher than its operands, so that what is defined by   *)
(* recursion on expressions exists and satisfies its equation. From the    *)
(* equations of KindOf, CountNodes and the evaluator it follows for every  *)
(* accepted expression that its value has the kind the parser gave, that   *)
(* its nodes pay for its evaluation, and that more evidence leaves a value *)
(* without missing parts as it was. RulesInv carries this along a ruleset. *)
(***************************************************************************)
EXTENDS RuleEvaluation, SequenceTheorems, MathFacts, TLAPS

AnyKind == Kinds \cup {"refused"}

(* The operands of an operation are expressions, and lower.                *)
LEMMA OperandsAreLower ==
  ASSUME NEW e \in Expressions, e.node = "operation"
  PROVE  /\ e.operands \in Seq(Expressions)
         /\ Len(e.operands) \in Nat /\ DOMAIN e.operands = 1 .. Len(e.operands)
         /\ \A i \in DOMAIN e.operands :
              e.operands[i] \in Expressions /\ Height[e.operands[i]] < Height[e]
<1>1. WellFormed(e)
  BY ExpressionsAssumption
<1>2. e.operands \in Seq(Expressions) /\ \A i \in DOMAIN e.operands : Height[e.operands[i]] < Height[e]
  BY <1>1 DEF WellFormed
<1> QED
  BY <1>2

(* An expression is a literal, a path or an operation.                     *)
LEMMA NodeCases ==
  ASSUME NEW e \in Expressions
  PROVE  \/ e.node = "literal" /\ e.kind \in Kinds /\ e.value \in Int
         \/ e.node = "path"
         \/ e.node = "operation"
BY ExpressionsAssumption DEF WellFormed

-----------------------------------------------------------------------------
(* The kind of an expression, from those of its operands.                  *)
KindFrom(e, kind) ==
  IF e.node = "literal" THEN e.kind
  ELSE IF e.node = "path" THEN IF e.path \in DOMAIN Registry THEN Registry[e.path] ELSE "refused"
  ELSE KindOfOperation(e, [i \in DOMAIN e.operands |-> kind[e.operands[i]]])

(* The kind of an operation is one, or the parser's refusal.               *)
LEMMA KindOfOperationType ==
  ASSUME NEW e, NEW n \in Nat, NEW kinds \in [1 .. n -> AnyKind]
  PROVE  KindOfOperation(e, kinds) \in AnyKind
<1>1. "decimal" \in AnyKind /\ "boolean" \in AnyKind /\ "refused" \in AnyKind
  BY DEF AnyKind, Kinds
<1>2. ASSUME AcceptsOperands(e.operator, kinds, e.operands), e.operator = "if"
      PROVE  BranchKind(kinds) \in AnyKind
  <2>1. Len(kinds) = 3
    BY <1>2 DEF AcceptsOperands
  <2>2. 2 \in 1 .. n
    BY <2>1
  <2>3. kinds[2] \in AnyKind
    BY <2>2
  <2> QED BY <1>1, <2>3 DEF BranchKind
<1> QED
  BY <1>1, <1>2 DEF KindOfOperation

(* Every expression has a kind, and KindOf satisfies its equation.         *)
LEMMA KindsAreDefined ==
  /\ KindOf \in [Expressions -> AnyKind]
  /\ \A e \in Expressions : KindOf[e] = KindFrom(e, KindOf)
<1>1. ASSUME NEW e \in Expressions, NEW kind,
             \A x \in Expressions : Height[x] < Height[e] => kind[x] \in AnyKind
      PROVE  KindFrom(e, kind) \in AnyKind
  <2>1. CASE e.node = "literal"
    <3>1. e.kind \in Kinds
      BY <2>1, NodeCases
    <3> QED BY <2>1, <3>1 DEF KindFrom, AnyKind
  <2>2. CASE e.node = "path"
    BY <2>2, RegistryAssumption DEF KindFrom, AnyKind
  <2>3. CASE e.node = "operation"
    <3> DEFINE ks == [i \in DOMAIN e.operands |-> kind[e.operands[i]]]
    <3>1. Len(e.operands) \in Nat /\ DOMAIN e.operands = 1 .. Len(e.operands)
      BY <2>3, OperandsAreLower
    <3>2. ks \in [1 .. Len(e.operands) -> AnyKind]
      BY <1>1, <2>3, <3>1, OperandsAreLower
    <3>3. KindFrom(e, kind) = KindOfOperation(e, ks)
      BY <2>3 DEF KindFrom
    <3> HIDE DEF ks
    <3> QED BY <3>1, <3>2, <3>3, KindOfOperationType
  <2> QED BY <2>1, <2>2, <2>3, NodeCases
<1>2. ASSUME NEW e \in Expressions, NEW f, NEW g,
             \A x \in Expressions : Height[x] < Height[e] => f[x] = g[x]
      PROVE  KindFrom(e, f) = KindFrom(e, g)
  <2>1. CASE e.node = "operation"
    <3>1. [i \in DOMAIN e.operands |-> f[e.operands[i]]] = [i \in DOMAIN e.operands |-> g[e.operands[i]]]
      BY <1>2, <2>1, OperandsAreLower
    <3> QED BY <2>1, <3>1 DEF KindFrom
  <2>2. CASE e.node # "operation"
    <3>1. e.node = "literal" \/ e.node = "path"
      BY <2>2, NodeCases
    <3> QED BY <3>1 DEF KindFrom
  <2> QED BY <2>1, <2>2
<1>3. \E f \in [Expressions -> AnyKind] : \A e \in Expressions : f[e] = KindFrom(e, f)
  <2> DEFINE G == [x \in Expressions \X [Expressions -> AnyKind] |-> KindFrom(x[1], x[2])]
  <2>1. \A e \in Expressions, f \in [Expressions -> AnyKind] : G[<<e, f>>] = KindFrom(e, f)
    OBVIOUS
  <2>2. ASSUME NEW x \in Expressions \X [Expressions -> AnyKind] PROVE KindFrom(x[1], x[2]) \in AnyKind
    <3>1. x[1] \in Expressions /\ x[2] \in [Expressions -> AnyKind]
      OBVIOUS
    <3>2. \A y \in Expressions : x[2][y] \in AnyKind
      BY <3>1
    <3> QED BY <1>1, <3>1, <3>2
  <2>3. G \in [Expressions \X [Expressions -> AnyKind] -> AnyKind]
    BY <2>2
  <2> HIDE DEF G
  <2>4. \A e \in Expressions : \A f, g \in [Expressions -> AnyKind] :
          (\A x \in Expressions : Height[x] < Height[e] => f[x] = g[x]) => G[<<e, f>>] = G[<<e, g>>]
    BY <1>2, <2>1
  <2>5. IsRecursion(Expressions, Height, AnyKind, G)
    BY <2>3, <2>4, ExpressionsAssumption DEF AnyKind, IsRecursion
  <2>6. \E f \in [Expressions -> AnyKind] : \A e \in Expressions : f[e] = G[<<e, f>>]
    BY <2>5, HeightRecursion
  <2> QED BY <2>1, <2>6
<1>4. KindOf = [e \in Expressions |-> KindFrom(e, KindOf)]
  <2>1. PICK f \in [Expressions -> AnyKind] : \A e \in Expressions : f[e] = KindFrom(e, f)
    BY <1>3
  <2>2. f = [e \in Expressions |-> KindFrom(e, f)]
    BY <2>1
  <2>3. KindOf = CHOOSE g : g = [e \in Expressions |-> KindFrom(e, g)]
    BY DEF KindOf, KindFrom
  <2> QED BY <2>2, <2>3
<1>5. \A e \in Expressions : KindOf[e] = KindFrom(e, KindOf)
  BY <1>4
<1> DEFINE P == {e \in Expressions : KindOf[e] \in AnyKind}
<1>6. P = Expressions
  <2>1. \A e \in Expressions : (\A x \in Expressions : Height[x] < Height[e] => x \in P) => e \in P
    BY <1>1, <1>5
  <2>2. P \in SUBSET Expressions
    OBVIOUS
  <2> HIDE DEF P
  <2> QED BY <2>1, <2>2, ExpressionsAssumption, HeightInduction
<1> QED
  BY <1>4, <1>5, <1>6

-----------------------------------------------------------------------------
(* The nodes of an expression, from those of its operands.                 *)
NodesFrom(e, count) ==
  IF e.node # "operation" THEN 1
  ELSE 1 + Total([i \in DOMAIN e.operands |-> count[e.operands[i]]])

(* A total is the sum over the places of its summands.                     *)
LEMMA TotalOfNaturals ==
  ASSUME NEW n \in Nat, NEW s \in [1 .. n -> Nat]
  PROVE  Total(s) = SumFunctionOnSet(s, 1 .. n) /\ Total(s) \in Nat
<1>1. IsFiniteSet(1 .. n)
  BY FS_Interval
<1>2. \A x \in 1 .. n : s[x] \in Nat
  OBVIOUS
<1>3. DOMAIN s = 1 .. n
  OBVIOUS
<1>4. Total(s) = SumFunctionOnSet(s, 1 .. n)
  BY <1>3 DEF Total, SumFunction
<1> QED
  BY <1>1, <1>2, <1>4, SumOfNaturals

(* Every expression has a number of nodes, and CountNodes satisfies its    *)
(* equation.                                                               *)
LEMMA NodesAreCounted ==
  /\ CountNodes \in [Expressions -> Nat \ {0}]
  /\ \A e \in Expressions : CountNodes[e] = NodesFrom(e, CountNodes)
<1> DEFINE Positive == Nat \ {0}
<1>1. ASSUME NEW e \in Expressions, NEW count,
             \A x \in Expressions : Height[x] < Height[e] => count[x] \in Positive
      PROVE  NodesFrom(e, count) \in Positive
  <2>1. CASE e.node # "operation"
    BY <2>1 DEF NodesFrom
  <2>2. CASE e.node = "operation"
    <3> DEFINE s == [i \in DOMAIN e.operands |-> count[e.operands[i]]]
    <3>1. Len(e.operands) \in Nat /\ s \in [1 .. Len(e.operands) -> Nat]
      BY <1>1, <2>2, OperandsAreLower
    <3>2. NodesFrom(e, count) = 1 + Total(s)
      BY <2>2 DEF NodesFrom
    <3> HIDE DEF s
    <3>3. Total(s) \in Nat
      BY <3>1, TotalOfNaturals
    <3> QED BY <3>2, <3>3
  <2> QED BY <2>1, <2>2
<1>2. ASSUME NEW e \in Expressions, NEW f, NEW g,
             \A x \in Expressions : Height[x] < Height[e] => f[x] = g[x]
      PROVE  NodesFrom(e, f) = NodesFrom(e, g)
  <2>1. CASE e.node = "operation"
    <3>1. [i \in DOMAIN e.operands |-> f[e.operands[i]]] = [i \in DOMAIN e.operands |-> g[e.operands[i]]]
      BY <1>2, <2>1, OperandsAreLower
    <3> QED BY <2>1, <3>1 DEF NodesFrom
  <2> QED BY <2>1 DEF NodesFrom
<1> HIDE DEF Positive
<1>3. \E f \in [Expressions -> Positive] : \A e \in Expressions : f[e] = NodesFrom(e, f)
  <2> DEFINE G == [x \in Expressions \X [Expressions -> Positive] |-> NodesFrom(x[1], x[2])]
  <2>1. \A e \in Expressions, f \in [Expressions -> Positive] : G[<<e, f>>] = NodesFrom(e, f)
    OBVIOUS
  <2>2. ASSUME NEW x \in Expressions \X [Expressions -> Positive] PROVE NodesFrom(x[1], x[2]) \in Positive
    <3>1. x[1] \in Expressions /\ x[2] \in [Expressions -> Positive]
      OBVIOUS
    <3>2. \A y \in Expressions : x[2][y] \in Positive
      BY <3>1
    <3> QED BY <1>1, <3>1, <3>2
  <2>3. G \in [Expressions \X [Expressions -> Positive] -> Positive]
    BY <2>2
  <2> HIDE DEF G
  <2>4. \A e \in Expressions : \A f, g \in [Expressions -> Positive] :
          (\A x \in Expressions : Height[x] < Height[e] => f[x] = g[x]) => G[<<e, f>>] = G[<<e, g>>]
    BY <1>2, <2>1
  <2>5. Positive # {}
    BY DEF Positive
  <2>6. IsRecursion(Expressions, Height, Positive, G)
    BY <2>3, <2>4, <2>5, ExpressionsAssumption DEF IsRecursion
  <2>7. \E f \in [Expressions -> Positive] : \A e \in Expressions : f[e] = G[<<e, f>>]
    BY <2>6, HeightRecursion
  <2> QED BY <2>1, <2>7
<1>4. CountNodes = [e \in Expressions |-> NodesFrom(e, CountNodes)]
  <2>1. PICK f \in [Expressions -> Positive] : \A e \in Expressions : f[e] = NodesFrom(e, f)
    BY <1>3
  <2>2. f = [e \in Expressions |-> NodesFrom(e, f)]
    BY <2>1
  <2>3. CountNodes = CHOOSE g : g = [e \in Expressions |-> NodesFrom(e, g)]
    BY DEF CountNodes, NodesFrom
  <2> QED BY <2>2, <2>3
<1>5. \A e \in Expressions : CountNodes[e] = NodesFrom(e, CountNodes)
  BY <1>4
<1> DEFINE P == {e \in Expressions : CountNodes[e] \in Positive}
<1>6. P = Expressions
  <2>1. \A e \in Expressions : (\A x \in Expressions : Height[x] < Height[e] => x \in P) => e \in P
    BY <1>1, <1>5
  <2>2. P \in SUBSET Expressions
    OBVIOUS
  <2> HIDE DEF P
  <2> QED BY <2>1, <2>2, ExpressionsAssumption, HeightInduction
<1> QED
  BY <1>4, <1>5, <1>6 DEF Positive

-----------------------------------------------------------------------------
(* The parts of an expression, from those of its operands.                 *)
PartsFrom(e, parts) ==
  {e} \cup UNION (IF e.node = "operation" THEN {parts[e.operands[i]] : i \in DOMAIN e.operands} ELSE {})

(* Parts satisfies its equation.                                           *)
LEMMA PartsAreDefined ==
  \A e \in Expressions : Parts[e] = PartsFrom(e, Parts)
<1> DEFINE T == SUBSET Expressions
<1>1. ASSUME NEW e \in Expressions, NEW f \in [Expressions -> T]
      PROVE  PartsFrom(e, f) \in T
  <2>1. e.node = "operation" => \A i \in DOMAIN e.operands : f[e.operands[i]] \in SUBSET Expressions
    BY OperandsAreLower
  <2> QED BY <2>1 DEF PartsFrom
<1>2. ASSUME NEW e \in Expressions, NEW f, NEW g,
             \A x \in Expressions : Height[x] < Height[e] => f[x] = g[x]
      PROVE  PartsFrom(e, f) = PartsFrom(e, g)
  <2>1. CASE e.node = "operation"
    <3>1. {f[e.operands[i]] : i \in DOMAIN e.operands} = {g[e.operands[i]] : i \in DOMAIN e.operands}
      <4>1. \A i \in DOMAIN e.operands : f[e.operands[i]] = g[e.operands[i]]
        BY <1>2, <2>1, OperandsAreLower
      <4> QED BY <4>1
    <3> QED BY <2>1, <3>1 DEF PartsFrom
  <2> QED BY <2>1 DEF PartsFrom
<1> HIDE DEF T
<1>3. \E f \in [Expressions -> T] : \A e \in Expressions : f[e] = PartsFrom(e, f)
  <2> DEFINE G == [x \in Expressions \X [Expressions -> T] |-> PartsFrom(x[1], x[2])]
  <2>1. \A e \in Expressions, f \in [Expressions -> T] : G[<<e, f>>] = PartsFrom(e, f)
    OBVIOUS
  <2>2. ASSUME NEW x \in Expressions \X [Expressions -> T] PROVE PartsFrom(x[1], x[2]) \in T
    <3>1. x[1] \in Expressions /\ x[2] \in [Expressions -> T]
      OBVIOUS
    <3> QED BY <1>1, <3>1
  <2>3. G \in [Expressions \X [Expressions -> T] -> T]
    BY <2>2
  <2> HIDE DEF G
  <2>4. \A e \in Expressions : \A f, g \in [Expressions -> T] :
          (\A x \in Expressions : Height[x] < Height[e] => f[x] = g[x]) => G[<<e, f>>] = G[<<e, g>>]
    BY <1>2, <2>1
  <2>5. T # {}
    BY DEF T
  <2>6. IsRecursion(Expressions, Height, T, G)
    BY <2>3, <2>4, <2>5, ExpressionsAssumption DEF IsRecursion
  <2>7. \E f \in [Expressions -> T] : \A e \in Expressions : f[e] = G[<<e, f>>]
    BY <2>6, HeightRecursion
  <2> QED BY <2>1, <2>7
<1>4. Parts = [e \in Expressions |-> PartsFrom(e, Parts)]
  <2>1. PICK f \in [Expressions -> T] : \A e \in Expressions : f[e] = PartsFrom(e, f)
    BY <1>3
  <2>2. f = [e \in Expressions |-> PartsFrom(e, f)]
    BY <2>1
  <2>3. Parts = CHOOSE g : g = [e \in Expressions |-> PartsFrom(e, g)]
    BY DEF Parts, PartsFrom
  <2> QED BY <2>2, <2>3
<1> QED
  BY <1>4

(* What does not ask for existence is no "exists", nor are its operands.   *)
LEMMA NothingAsksWithin ==
  ASSUME NEW e \in Expressions, e.node = "operation", ~ AsksExistence(e)
  PROVE  /\ e.operator # "exists"
         /\ \A i \in DOMAIN e.operands : ~ AsksExistence(e.operands[i])
<1>1. Parts[e] = {e} \cup UNION {Parts[e.operands[i]] : i \in DOMAIN e.operands}
  BY PartsAreDefined DEF PartsFrom
<1>2. e \in Parts[e] /\ \A i \in DOMAIN e.operands : Parts[e.operands[i]] \subseteq Parts[e]
  BY <1>1
<1> QED
  BY <1>2 DEF AsksExistence

(* A product of integers is one.                                           *)
LEMMA ProductType ==
  ASSUME NEW n \in Nat, NEW xs \in [1 .. n -> Int], Len(xs) = n
  PROVE  Product(xs) \in Int
<1> DEFINE S == 0 .. n
           h == [k \in S |-> k]
           From(k, f) == IF k = 0 THEN 1 ELSE f[k - 1] * xs[k]
           G == [x \in S \X [S -> Int] |-> From(x[1], x[2])]
<1>1. ASSUME NEW k \in S, NEW f, k # 0 => f[k - 1] \in Int PROVE From(k, f) \in Int
  <2>1. CASE k # 0
    <3>1. xs[k] \in Int /\ f[k - 1] \in Int
      BY <1>1, <2>1
    <3> QED BY <2>1, <3>1
  <2> QED BY <2>1
<1>2. \A k \in S : k # 0 => k - 1 \in S /\ h[k - 1] < h[k]
  OBVIOUS
<1>3. \A k \in S, f \in [S -> Int] : G[<<k, f>>] = From(k, f)
  OBVIOUS
<1>4. G \in [S \X [S -> Int] -> Int]
  <2>1. ASSUME NEW x \in S \X [S -> Int] PROVE From(x[1], x[2]) \in Int
    <3>1. x[1] \in S /\ x[2] \in [S -> Int]
      OBVIOUS
    <3>2. x[1] # 0 => x[2][x[1] - 1] \in Int
      BY <1>2, <3>1
    <3> HIDE DEF From
    <3> QED BY <1>1, <3>1, <3>2
  <2> HIDE DEF From
  <2> QED BY <2>1
<1>5. \A k \in S : \A f, g \in [S -> Int] :
        (\A x \in S : h[x] < h[k] => f[x] = g[x]) => From(k, f) = From(k, g)
  BY <1>2
<1>6. h \in [S -> Nat] /\ Int # {}
  OBVIOUS
<1>7. PICK f \in [S -> Int] : \A k \in S : f[k] = From(k, f)
  <2> HIDE DEF G, h, S, From
  <2>1. \A k \in S : \A f, g \in [S -> Int] :
          (\A x \in S : h[x] < h[k] => f[x] = g[x]) => G[<<k, f>>] = G[<<k, g>>]
    BY <1>3, <1>5
  <2>2. IsRecursion(S, h, Int, G)
    BY <1>4, <1>6, <2>1 DEF IsRecursion
  <2>3. \E f \in [S -> Int] : \A k \in S : f[k] = G[<<k, f>>]
    BY <2>2, HeightRecursion
  <2> QED BY <1>3, <2>3
<1> DEFINE p == CHOOSE g : g = [k \in 0 .. Len(xs) |-> IF k = 0 THEN 1 ELSE g[k - 1] * xs[k]]
<1>8. Product(xs) = p[Len(xs)]
  BY DEF Product
<1>9. p = [k \in 0 .. Len(xs) |-> IF k = 0 THEN 1 ELSE p[k - 1] * xs[k]]
  <2>1. f = [k \in 0 .. Len(xs) |-> IF k = 0 THEN 1 ELSE f[k - 1] * xs[k]]
    BY <1>7
  <2> QED BY <2>1
<1> HIDE DEF p
<1> DEFINE T == {k \in Nat : k <= n => p[k] \in Int}
<1>10. 0 \in T
  BY <1>9
<1>11. ASSUME NEW k \in T PROVE k + 1 \in T
  <2> SUFFICES ASSUME k + 1 <= n PROVE p[k + 1] \in Int
    OBVIOUS
  <2>1. p[k] \in Int /\ xs[k + 1] \in Int
    OBVIOUS
  <2>2. k + 1 \in 0 .. Len(xs) /\ k + 1 # 0 /\ k + 1 - 1 = k
    OBVIOUS
  <2>3. p[k + 1] = p[k] * xs[k + 1]
    BY <1>9, <2>2
  <2> QED BY <2>1, <2>3
<1>12. T = Nat
  <2>1. T \in SUBSET Nat
    OBVIOUS
  <2> HIDE DEF T
  <2> QED BY <1>10, <1>11, <2>1, InductionOverNat
<1> QED
  BY <1>8, <1>12

-----------------------------------------------------------------------------
Budgets == 0 .. MaxSteps
RuleErrors == Errors \cup {"none"}
EvidenceValues == [kind: Kinds, missing: BOOLEAN, value: Int]
Results == [value: EvidenceValues, left: Budgets, error: RuleErrors]

(* The steps that can be left are naturals.                                *)
LEMMA BudgetsType == MaxSteps \in Nat /\ Budgets \subseteq Nat /\ 0 \in Budgets
BY LimitsAssumption DEF Budgets

(* The results that the constructors make.                                 *)
LEMMA StopType ==
  ASSUME NEW error \in Errors
  PROVE  /\ Stop(error) \in Results
         /\ Stop(error).error = error /\ Stop(error).left = 0
BY BudgetsType DEF Stop, Value, Results, EvidenceValues, RuleErrors, Kinds

(* A value that was got, without an error.                                 *)
LEMMA GotType ==
  ASSUME NEW v \in EvidenceValues, NEW steps \in Budgets
  PROVE  /\ Got(v, steps) \in Results
         /\ Got(v, steps).error = "none" /\ Got(v, steps).value = v /\ Got(v, steps).left = steps
BY DEF Got, Results, RuleErrors

(* A value that is there.                                                  *)
LEMMA ValueType ==
  ASSUME NEW kind \in Kinds, NEW v \in Int
  PROVE  /\ Value(kind, v) \in EvidenceValues
         /\ Value(kind, v).kind = kind /\ ~ Value(kind, v).missing /\ Value(kind, v).value = v
BY DEF Value, EvidenceValues

(* A missing value has a kind, or is an error.                             *)
LEMMA GotMissingType ==
  ASSUME NEW kind \in Kinds, NEW steps \in Budgets
  PROVE  /\ GotMissing(kind, steps) \in Results
         /\ GotMissing(kind, steps).error \in {"none", "untyped_missing"}
         /\ GotMissing(kind, steps).error = "none" =>
              /\ GotMissing(kind, steps).value.missing
              /\ GotMissing(kind, steps).value.kind = kind
              /\ GotMissing(kind, steps).left = steps
<1> DEFINE v == [kind |-> kind, missing |-> TRUE, value |-> 0]
<1>1. v \in EvidenceValues /\ v.missing /\ v.kind = kind
  BY DEF EvidenceValues
<1>2. "untyped_missing" \in Errors /\ "untyped_missing" # "none"
  BY DEF Errors
<1>3. GotMissing(kind, steps) = IF kind = "null" THEN Stop("untyped_missing") ELSE Got(v, steps)
  BY DEF GotMissing
<1> HIDE DEF v
<1> QED
  BY <1>1, <1>2, <1>3, StopType, GotType

(* Arithmetic on integers.                                                 *)
LEMMA ArithmeticType ==
  ASSUME NEW n \in Nat, NEW xs \in [1 .. n -> Int], Len(xs) = n,
         NEW operator \in {"add", "subtract", "multiply", "divide"},
         operator \in {"subtract", "divide"} => n = 2,
         operator = "divide" => xs[2] # 0
  PROVE  Arithmetic(operator, xs) \in Int
<1>1. CASE operator = "add"
  <2>1. IsFiniteSet(1 .. n) /\ \A i \in 1 .. n : xs[i] \in Int
    BY FS_Interval
  <2>2. SumFunctionOnSet(xs, 1 .. n) \in Int
    BY <2>1, SumGrows
  <2>3. Total(xs) = SumFunctionOnSet(xs, 1 .. n)
    BY DEF Total, SumFunction
  <2> QED BY <1>1, <2>2, <2>3 DEF Arithmetic
<1>2. CASE operator = "multiply"
  BY <1>2, ProductType DEF Arithmetic
<1>3. CASE operator = "subtract"
  <2>1. xs[1] \in Int /\ xs[2] \in Int
    BY <1>3
  <2> QED BY <1>3, <2>1 DEF Arithmetic
<1>4. CASE operator = "divide"
  <2>1. xs[1] \in Int /\ xs[2] \in Int /\ xs[2] # 0
    BY <1>4
  <2>2. ASSUME NEW x \in Int, NEW y \in Int, y # 0 PROVE Quotient(x, y) \in Int
    <3>1. CASE y > 0
      <4>1. y \in Nat \ {0}
        BY <3>1
      <4> QED BY <3>1, <4>1, Division DEF Quotient
    <3>2. CASE ~ (y > 0)
      <4>1. -y \in Nat \ {0} /\ -x \in Int
        BY <2>2, <3>2
      <4> QED BY <3>2, <4>1, Division DEF Quotient
    <3> QED BY <3>1, <3>2
  <2> QED BY <1>4, <2>1, <2>2 DEF Arithmetic
<1> QED
  BY <1>1, <1>2, <1>3, <1>4

ArithmeticOperators == {"add", "subtract", "multiply", "divide"}
BinaryOperators == {"eq", "ne", "lt", "lte", "gt", "gte", "in", "subtract", "divide"}
PresentOperators == {"and", "or", "not"} \cup BinaryOperators \cup ArithmeticOperators

OperandKinds(e) == [i \in DOMAIN e.operands |-> KindOf[e.operands[i]]]

(* What an accepted operation is made of.                                  *)
LEMMA AcceptedOperation ==
  ASSUME NEW e \in Accepted, e.node = "operation"
  PROVE  /\ e \in Expressions /\ KindOf[e] \in Kinds
         /\ Len(e.operands) \in Nat /\ DOMAIN e.operands = 1 .. Len(e.operands)
         /\ \A i \in 1 .. Len(e.operands) :
              /\ e.operands[i] \in Accepted /\ Height[e.operands[i]] < Height[e]
              /\ KindOf[e.operands[i]] \in Kinds
         /\ OperandKinds(e) \in [1 .. Len(e.operands) -> Kinds]
         /\ AcceptsOperands(e.operator, OperandKinds(e), e.operands)
         /\ KindOf[e] = IF e.operator = "if" THEN BranchKind(OperandKinds(e))
                        ELSE IF e.operator \in ArithmeticOperators THEN "decimal" ELSE "boolean"
<1>1. e \in Expressions /\ KindOf[e] # "refused"
  BY DEF Accepted
<1>2. /\ Len(e.operands) \in Nat /\ DOMAIN e.operands = 1 .. Len(e.operands)
      /\ \A i \in 1 .. Len(e.operands) :
           e.operands[i] \in Expressions /\ Height[e.operands[i]] < Height[e]
  BY <1>1, OperandsAreLower
<1>3. KindOf[e] \in AnyKind /\ KindOf[e] = KindOfOperation(e, OperandKinds(e))
  BY <1>1, KindsAreDefined DEF KindFrom, OperandKinds
<1>4. "refused" \notin Range(OperandKinds(e)) /\ AcceptsOperands(e.operator, OperandKinds(e), e.operands)
  BY <1>1, <1>3 DEF KindOfOperation
<1>5. KindOf[e] = IF e.operator = "if" THEN BranchKind(OperandKinds(e))
                  ELSE IF e.operator \in ArithmeticOperators THEN "decimal" ELSE "boolean"
  BY <1>3, <1>4 DEF KindOfOperation, ArithmeticOperators
<1>6. \A i \in 1 .. Len(e.operands) :
        OperandKinds(e)[i] = KindOf[e.operands[i]] /\ OperandKinds(e)[i] # "refused"
  <2>1. DOMAIN OperandKinds(e) = 1 .. Len(e.operands)
    BY <1>2 DEF OperandKinds
  <2> QED BY <1>2, <1>4, <2>1 DEF OperandKinds, Range
<1>7. \A i \in 1 .. Len(e.operands) : KindOf[e.operands[i]] \in AnyKind
  BY <1>2, KindsAreDefined
<1>8. \A i \in 1 .. Len(e.operands) : e.operands[i] \in Accepted /\ KindOf[e.operands[i]] \in Kinds
  BY <1>2, <1>6, <1>7 DEF Accepted, AnyKind
<1>9. OperandKinds(e) \in [1 .. Len(e.operands) -> Kinds]
  BY <1>2, <1>8 DEF OperandKinds
<1> QED
  BY <1>1, <1>2, <1>3, <1>4, <1>5, <1>8, <1>9 DEF AnyKind

(* How many operands an operator takes, and of which kinds.                *)
LEMMA AcceptedOperands ==
  ASSUME NEW e \in Accepted, e.node = "operation"
  PROVE  LET n == Len(e.operands)
             every(kind) == \A i \in 1 .. n : KindOf[e.operands[i]] = kind
         IN /\ e.operator \in PresentOperators \cup {"exists", "if"}
            /\ e.operator \in {"and", "or"} => n >= 1 /\ every("boolean")
            /\ e.operator = "not" => n = 1 /\ every("boolean")
            /\ e.operator \in BinaryOperators => n = 2
            /\ e.operator \in {"lt", "lte", "gt", "gte"} => every("decimal") \/ every("datetime")
            /\ e.operator \in ArithmeticOperators => every("decimal")
            /\ e.operator = "in" => every("string")
            /\ e.operator = "exists" => n = 1
            /\ e.operator = "if" =>
                 /\ n = 3 /\ KindOf[e.operands[1]] = "boolean"
                 /\ KindOf[e.operands[2]] = KindOf[e] /\ KindOf[e.operands[3]] = KindOf[e]
<1> DEFINE n == Len(e.operands)
           ks == OperandKinds(e)
<1>1. /\ n \in Nat /\ ks \in [1 .. n -> Kinds]
      /\ AcceptsOperands(e.operator, ks, e.operands)
      /\ KindOf[e] \in Kinds
      /\ e.operator = "if" => KindOf[e] = BranchKind(ks)
  BY AcceptedOperation
<1>2. \A i \in 1 .. n : ks[i] = KindOf[e.operands[i]]
  BY AcceptedOperation DEF OperandKinds
<1>3. Len(ks) = n /\ DOMAIN ks = 1 .. n
  BY <1>1
<1> HIDE DEF ks
<1>4. e.operator \in PresentOperators \cup {"exists", "if"}
  BY <1>1 DEF AcceptsOperands, PresentOperators, BinaryOperators, ArithmeticOperators
<1>5. CASE e.operator \in {"and", "or", "not"}
  BY <1>1, <1>2, <1>3, <1>5 DEF AcceptsOperands, All, PresentOperators, BinaryOperators, ArithmeticOperators
<1>6. CASE e.operator \in {"eq", "ne"}
  BY <1>1, <1>2, <1>3, <1>6 DEF AcceptsOperands, PresentOperators, BinaryOperators, ArithmeticOperators
<1>7. CASE e.operator \in {"lt", "lte", "gt", "gte"}
  <2>1. n = 2 /\ ks[1] = ks[2] /\ ks[1] \in {"decimal", "datetime"}
    BY <1>1, <1>3, <1>7 DEF AcceptsOperands
  <2>2. \A i \in 1 .. n : i = 1 \/ i = 2
    BY <2>1
  <2> QED BY <1>2, <1>7, <2>1, <2>2 DEF PresentOperators, BinaryOperators, ArithmeticOperators
<1>8. CASE e.operator \in ArithmeticOperators
  <2>1. \A i \in 1 .. n : ks[i] = "decimal"
    BY <1>1, <1>3, <1>8 DEF AcceptsOperands, All, ArithmeticOperators
  <2>2. e.operator \in {"subtract", "divide"} => n = 2
    BY <1>1, <1>3, <1>8 DEF AcceptsOperands, All, ArithmeticOperators
  <2> QED BY <1>2, <1>8, <2>1, <2>2 DEF PresentOperators, BinaryOperators, ArithmeticOperators
<1>9. CASE e.operator = "in"
  BY <1>1, <1>2, <1>3, <1>9 DEF AcceptsOperands, All, PresentOperators, BinaryOperators, ArithmeticOperators
<1>10. CASE e.operator = "exists"
  BY <1>1, <1>2, <1>3, <1>10 DEF AcceptsOperands, All, PresentOperators, BinaryOperators, ArithmeticOperators
<1>11. CASE e.operator = "if"
  <2>1. n = 3 /\ ks[1] = "boolean"
    BY <1>1, <1>3, <1>11 DEF AcceptsOperands
  <2>2. ks[2] = ks[3] /\ KindOf[e] = ks[2]
    BY <1>1, <1>11 DEF BranchKind, Kinds
  <2> QED BY <1>2, <1>11, <2>1, <2>2 DEF BinaryOperators, ArithmeticOperators
<1>12. \/ e.operator \in {"and", "or", "not"} \/ e.operator \in {"eq", "ne"}
       \/ e.operator \in {"lt", "lte", "gt", "gte"} \/ e.operator \in ArithmeticOperators
       \/ e.operator = "in" \/ e.operator = "exists" \/ e.operator = "if"
  BY <1>4 DEF PresentOperators, BinaryOperators, ArithmeticOperators
<1> QED
  BY <1>4, <1>5, <1>6, <1>7, <1>8, <1>9, <1>10, <1>11, <1>12

-----------------------------------------------------------------------------
(* An operator applied to values that are all there.                       *)
LEMMA ApplyPresentCases ==
  ASSUME NEW n \in Nat, NEW xs \in [1 .. n -> Int], Len(xs) = n,
         NEW operator \in PresentOperators,
         operator = "not" => n = 1, operator \in BinaryOperators => n = 2
  PROVE  \/ \A s \in Budgets : ApplyPresent(operator, xs, s) = Stop("zero_denominator")
         \/ \E v \in EvidenceValues :
              /\ ~ v.missing
              /\ v.kind = IF operator \in ArithmeticOperators THEN "decimal" ELSE "boolean"
              /\ \A s \in Budgets : ApplyPresent(operator, xs, s) = Got(v, s)
<1>1. ASSUME NEW kind \in Kinds, NEW x \in Int,
             kind = IF operator \in ArithmeticOperators THEN "decimal" ELSE "boolean",
             \A s \in Budgets : ApplyPresent(operator, xs, s) = Got(Value(kind, x), s)
      PROVE  \E v \in EvidenceValues :
              /\ ~ v.missing
              /\ v.kind = IF operator \in ArithmeticOperators THEN "decimal" ELSE "boolean"
              /\ \A s \in Budgets : ApplyPresent(operator, xs, s) = Got(v, s)
  BY <1>1, ValueType
<1>2. \A b \in BOOLEAN : Truth(b) \in Int
  BY DEF Truth
<1>3. "boolean" \in Kinds /\ "decimal" \in Kinds
  BY DEF Kinds
<1>4. CASE operator = "and"
  <2>1. \A s : ApplyPresent(operator, xs, s) = Got(Value("boolean", Truth(\A i \in DOMAIN xs : xs[i] = 1)), s)
    BY <1>4 DEF ApplyPresent
  <2> QED BY <1>1, <1>2, <1>3, <1>4, <2>1 DEF ArithmeticOperators
<1>5. CASE operator = "or"
  <2>1. \A s : ApplyPresent(operator, xs, s) = Got(Value("boolean", Truth(\E i \in DOMAIN xs : xs[i] = 1)), s)
    BY <1>5 DEF ApplyPresent
  <2> QED BY <1>1, <1>2, <1>3, <1>5, <2>1 DEF ArithmeticOperators
<1>6. CASE operator = "not"
  <2>1. \A s : ApplyPresent(operator, xs, s) = Got(Value("boolean", 1 - xs[1]), s)
    BY <1>6 DEF ApplyPresent
  <2>2. 1 - xs[1] \in Int
    BY <1>6
  <2> QED BY <1>1, <1>3, <1>6, <2>1, <2>2 DEF ArithmeticOperators
<1>7. CASE operator \in ArithmeticOperators /\ (operator = "divide" => xs[2] # 0)
  <2>1. \A s : ApplyPresent(operator, xs, s) = Got(Value("decimal", Arithmetic(operator, xs)), s)
    BY <1>7 DEF ApplyPresent, ArithmeticOperators
  <2>2. Arithmetic(operator, xs) \in Int
    BY <1>7, ArithmeticType DEF ArithmeticOperators, BinaryOperators
  <2> QED BY <1>1, <1>3, <1>7, <2>1, <2>2
<1>8. CASE operator = "divide" /\ xs[2] = 0
  <2>1. \A s : ApplyPresent(operator, xs, s) = Stop("zero_denominator")
    BY <1>8 DEF ApplyPresent
  <2> QED BY <2>1
<1>9. CASE operator \in {"eq", "ne", "lt", "lte", "gt", "gte", "in"}
  <2>1. \A s : ApplyPresent(operator, xs, s) = Got(Value("boolean", Truth(Compared(operator, xs[1], xs[2]))), s)
    BY <1>9 DEF ApplyPresent
  <2>2. Truth(Compared(operator, xs[1], xs[2])) \in Int
    BY DEF Truth
  <2> QED BY <1>1, <1>3, <1>9, <2>1, <2>2 DEF ArithmeticOperators
<1> QED
  BY <1>4, <1>5, <1>6, <1>7, <1>8, <1>9 DEF PresentOperators, BinaryOperators, ArithmeticOperators

(* What applying an accepted operator comes to, whatever steps are left.   *)
LEMMA ApplyCases ==
  ASSUME NEW e \in Accepted, e.node = "operation", e.operator # "if",
         NEW vs \in Seq(EvidenceValues), Len(vs) = Len(e.operands)
  PROVE  \/ /\ e.operator = "exists"
            /\ \E v \in EvidenceValues :
                 v.kind = KindOf[e] /\ \A s \in Budgets : Apply(e, vs, s) = Got(v, s)
         \/ /\ e.operator # "exists" /\ AnyMissing(vs)
            /\ \A s \in Budgets : Apply(e, vs, s) = GotMissing(KindOf[e], s)
         \/ /\ e.operator # "exists" /\ ~ AnyMissing(vs)
            /\ \A s \in Budgets : Apply(e, vs, s) = Stop("zero_denominator")
         \/ /\ e.operator # "exists" /\ ~ AnyMissing(vs)
            /\ \E v \in EvidenceValues :
                 /\ ~ v.missing /\ v.kind = KindOf[e]
                 /\ \A s \in Budgets : Apply(e, vs, s) = Got(v, s)
         \/ /\ \A s \in Budgets : Apply(e, vs, s) = Stop("type")
            /\ \E i \in 1 .. Len(vs) : vs[i].kind # KindOf[e.operands[i]]
<1> DEFINE n == Len(vs)
           xs == [i \in DOMAIN vs |-> vs[i].value]
<1>1. /\ n \in Nat /\ DOMAIN vs = 1 .. n /\ xs \in [1 .. n -> Int] /\ Len(xs) = n
  <2>1. n \in Nat /\ DOMAIN vs = 1 .. n /\ \A i \in 1 .. n : vs[i] \in EvidenceValues
    OBVIOUS
  <2>2. xs \in [1 .. n -> Int]
    BY <2>1 DEF EvidenceValues
  <2> QED BY <2>1, <2>2
<1>2. /\ e.operator \in PresentOperators \cup {"exists"}
      /\ e.operator = "not" => n = 1
      /\ e.operator \in BinaryOperators => n = 2
      /\ e.operator = "exists" => n = 1
  BY AcceptedOperands
<1>3. /\ KindOf[e] \in Kinds
      /\ KindOf[e] = IF e.operator \in ArithmeticOperators THEN "decimal" ELSE "boolean"
  BY AcceptedOperation
<1>4. CASE e.operator = "exists"
  <2> DEFINE v == Value("boolean", Truth(~ vs[1].missing))
  <2>1. Truth(~ vs[1].missing) \in Int /\ "boolean" \in Kinds
    BY DEF Truth, Kinds
  <2>2. v \in EvidenceValues /\ v.kind = "boolean"
    BY <2>1, ValueType
  <2>3. \A s : Apply(e, vs, s) = Got(v, s)
    BY <1>4 DEF Apply
  <2>4. KindOf[e] = "boolean"
    BY <1>3, <1>4 DEF ArithmeticOperators
  <2> HIDE DEF v
  <2> QED BY <1>4, <2>2, <2>3, <2>4
<1>5. CASE e.operator # "exists" /\ AnyMissing(vs)
  BY <1>5 DEF Apply
<1>6. CASE e.operator # "exists" /\ ~ AnyMissing(vs) /\ Applicable(e.operator, vs)
  <2>1. \A s : Apply(e, vs, s) = ApplyPresent(e.operator, xs, s)
    BY <1>6 DEF Apply
  <2>2. e.operator \in PresentOperators
    BY <1>2, <1>6
  <2> HIDE DEF xs, n
  <2>3. \/ \A s \in Budgets : ApplyPresent(e.operator, xs, s) = Stop("zero_denominator")
        \/ \E v \in EvidenceValues :
             /\ ~ v.missing
             /\ v.kind = IF e.operator \in ArithmeticOperators THEN "decimal" ELSE "boolean"
             /\ \A s \in Budgets : ApplyPresent(e.operator, xs, s) = Got(v, s)
    BY <1>1, <1>2, <2>2, ApplyPresentCases
  <2> QED BY <1>3, <1>6, <2>1, <2>3
<1>7. CASE e.operator # "exists" /\ ~ AnyMissing(vs) /\ ~ Applicable(e.operator, vs)
  <2>1. \A s : Apply(e, vs, s) = Stop("type")
    BY <1>7 DEF Apply
  <2>2. ASSUME \A i \in 1 .. n : vs[i].kind = KindOf[e.operands[i]] PROVE FALSE
    <3> DEFINE every(kind) == \A i \in DOMAIN vs : vs[i].kind = kind
    <3>1. /\ e.operator \in {"and", "or", "not"} => every("boolean")
          /\ e.operator \in {"lt", "lte", "gt", "gte"} => every("decimal") \/ every("datetime")
          /\ e.operator \in ArithmeticOperators => every("decimal")
          /\ e.operator = "in" => every("string")
      BY <1>1, <2>2, AcceptedOperands
    <3> QED BY <1>7, <3>1 DEF Applicable, ArithmeticOperators
  <2> QED BY <2>1, <2>2
<1> QED
  BY <1>4, <1>5, <1>6, <1>7

-----------------------------------------------------------------------------
(* The operands evaluated one after another.                               *)
Sofars == [values: Seq(EvidenceValues), left: Budgets, error: RuleErrors]
Continued(sofar, r) ==
  IF sofar.error # "none" THEN sofar
  ELSE [values |-> Append(sofar.values, r.value), left |-> r.left, error |-> r.error]
Started(steps) == [values |-> <<>>, left |-> steps, error |-> "none"]
InTurn(es, ev, steps, k, after) ==
  IF k = 0 THEN Started(steps)
  ELSE Continued(after[k - 1], ev[<<es[k], after[k - 1].left>>])

(* g is what each prefix of the operands comes to.                         *)
Prefixes(es, ev, steps, g) ==
  /\ g[0] = Started(steps)
  /\ \A k \in 1 .. Len(es) : g[k] = Continued(g[k - 1], ev[<<es[k], g[k - 1].left>>])
  /\ \A k \in 0 .. Len(es) : g[k] \in Sofars /\ (g[k].error = "none" => Len(g[k].values) = k)

(* EvaluateAll is what the last of the prefixes comes to.                  *)
LEMMA OperandsInTurn ==
  ASSUME NEW es, Len(es) \in Nat, NEW steps \in Budgets, NEW ev,
         \A i \in 1 .. Len(es), s \in Budgets : ev[<<es[i], s>>] \in Results
  PROVE  \E g : Prefixes(es, ev, steps, g) /\ EvaluateAll(es, ev, steps) = g[Len(es)]
<1> DEFINE n == Len(es)
           S == 0 .. n
           h == [k \in S |-> k]
           G == [x \in S \X [S -> Sofars] |-> InTurn(es, ev, steps, x[1], x[2])]
<1>1. Started(steps) \in Sofars /\ Started(steps).error = "none" /\ Started(steps).values = <<>>
  BY DEF Started, Sofars, RuleErrors
<1>2. ASSUME NEW k \in S, k # 0, NEW sofar \in Sofars
      PROVE  /\ Continued(sofar, ev[<<es[k], sofar.left>>]) \in Sofars
             /\ Continued(sofar, ev[<<es[k], sofar.left>>]).error = "none" =>
                  /\ sofar.error = "none"
                  /\ Len(Continued(sofar, ev[<<es[k], sofar.left>>]).values) = Len(sofar.values) + 1
  <2> DEFINE r == ev[<<es[k], sofar.left>>]
  <2>1. sofar.left \in Budgets /\ k \in 1 .. n
    BY <1>2 DEF Sofars
  <2>2. r \in Results
    BY <2>1
  <2> HIDE DEF r
  <2>3. r.value \in EvidenceValues /\ r.left \in Budgets /\ r.error \in RuleErrors
    BY <2>2 DEF Results
  <2>4. sofar.values \in Seq(EvidenceValues) /\ Len(sofar.values) \in Nat
    BY DEF Sofars
  <2>5. Append(sofar.values, r.value) \in Seq(EvidenceValues)
        /\ Len(Append(sofar.values, r.value)) = Len(sofar.values) + 1
    BY <2>3, <2>4
  <2>6. Continued(sofar, r) \in Sofars
        /\ (Continued(sofar, r).error = "none" =>
              sofar.error = "none" /\ Len(Continued(sofar, r).values) = Len(sofar.values) + 1)
    <3>1. CASE sofar.error # "none"
      BY <3>1 DEF Continued
    <3>2. CASE sofar.error = "none"
      BY <2>3, <2>5, <3>2 DEF Continued, Sofars
    <3> QED BY <3>1, <3>2
  <2> QED BY <2>6 DEF r
<1>3. \A k \in S : k # 0 => k - 1 \in S /\ h[k - 1] < h[k]
  OBVIOUS
<1>4. h \in [S -> Nat] /\ Sofars # {}
  BY <1>1
<1>5. \A k \in S, f \in [S -> Sofars] : G[<<k, f>>] = InTurn(es, ev, steps, k, f)
  OBVIOUS
<1>6. \A k \in S, f \in [S -> Sofars] : InTurn(es, ev, steps, k, f) \in Sofars
  <2> SUFFICES ASSUME NEW k \in S, NEW f \in [S -> Sofars] PROVE InTurn(es, ev, steps, k, f) \in Sofars
    OBVIOUS
  <2>1. k # 0 => f[k - 1] \in Sofars
    BY <1>3
  <2> QED BY <1>1, <1>2, <2>1 DEF InTurn
<1>7. G \in [S \X [S -> Sofars] -> Sofars]
  <2>1. ASSUME NEW x \in S \X [S -> Sofars] PROVE InTurn(es, ev, steps, x[1], x[2]) \in Sofars
    <3>1. x[1] \in S /\ x[2] \in [S -> Sofars]
      OBVIOUS
    <3> HIDE DEF S
    <3> QED BY <1>6, <3>1
  <2> QED BY <2>1
<1>8. \A k \in S : \A f, g \in [S -> Sofars] :
        (\A x \in S : h[x] < h[k] => f[x] = g[x]) => InTurn(es, ev, steps, k, f) = InTurn(es, ev, steps, k, g)
  BY <1>3 DEF InTurn
<1>9. PICK f \in [S -> Sofars] : \A k \in S : f[k] = InTurn(es, ev, steps, k, f)
  <2> HIDE DEF G, h, S
  <2>1. \A k \in S : \A f, g \in [S -> Sofars] :
          (\A x \in S : h[x] < h[k] => f[x] = g[x]) => G[<<k, f>>] = G[<<k, g>>]
    BY <1>5, <1>8
  <2>2. IsRecursion(S, h, Sofars, G)
    BY <1>4, <1>7, <2>1 DEF IsRecursion
  <2>3. \E f \in [S -> Sofars] : \A k \in S : f[k] = G[<<k, f>>]
    BY <2>2, HeightRecursion
  <2> QED BY <1>5, <2>3
<1> DEFINE p == CHOOSE g : g = [k \in 0 .. Len(es) |-> InTurn(es, ev, steps, k, g)]
<1>10. EvaluateAll(es, ev, steps) = p[n]
  BY DEF EvaluateAll, InTurn, Started, Continued
<1>11. p = [k \in 0 .. Len(es) |-> InTurn(es, ev, steps, k, p)]
  <2>1. f = [k \in 0 .. Len(es) |-> InTurn(es, ev, steps, k, f)]
    BY <1>9
  <2> QED BY <2>1
<1> HIDE DEF p
<1>12. p[0] = Started(steps)
  BY <1>11 DEF InTurn
<1>13. \A k \in 1 .. n : p[k] = Continued(p[k - 1], ev[<<es[k], p[k - 1].left>>])
  BY <1>11 DEF InTurn
<1> DEFINE T == {k \in Nat : k <= n => p[k] \in Sofars /\ (p[k].error = "none" => Len(p[k].values) = k)}
<1>14. 0 \in T
  BY <1>1, <1>12
<1>15. ASSUME NEW k \in T PROVE k + 1 \in T
  <2> SUFFICES ASSUME k + 1 <= n
               PROVE  /\ p[k + 1] \in Sofars
                      /\ p[k + 1].error = "none" => Len(p[k + 1].values) = k + 1
    OBVIOUS
  <2>1. k \in Nat /\ k + 1 \in 1 .. n /\ k + 1 \in S /\ k + 1 # 0 /\ k + 1 - 1 = k
    OBVIOUS
  <2>2. p[k] \in Sofars /\ (p[k].error = "none" => Len(p[k].values) = k)
    BY <2>1
  <2>3. p[k + 1] = Continued(p[k], ev[<<es[k + 1], p[k].left>>])
    BY <1>13, <2>1
  <2> HIDE DEF S, T
  <2> QED BY <1>2, <2>1, <2>2, <2>3
<1>16. T = Nat
  <2>1. T \in SUBSET Nat
    OBVIOUS
  <2> HIDE DEF T
  <2> QED BY <1>14, <1>15, <2>1, InductionOverNat
<1> QED
  BY <1>10, <1>12, <1>13, <1>16 DEF Prefixes

ValidEvidence(evidence) ==
  \A p \in DOMAIN evidence : p \in DOMAIN Registry /\ evidence[p] \in Int

(* Evaluators of lower expressions.                                        *)
TypedBelow(e, ev) ==
  \A x \in Accepted, s \in Budgets : Height[x] < Height[e] => ev[<<x, s>>] \in Results

(* A path is accepted where it is registered.                              *)
LEMMA AcceptedPath ==
  ASSUME NEW e \in Accepted, e.node = "path"
  PROVE  KindOf[e] = Registry[e.path] /\ Registry[e.path] \in Kinds \ {"null"} /\ e.path \in DOMAIN Registry
<1>1. e \in Expressions /\ KindOf[e] # "refused"
  BY DEF Accepted
<1>2. KindOf[e] = IF e.path \in DOMAIN Registry THEN Registry[e.path] ELSE "refused"
  BY <1>1, KindsAreDefined DEF KindFrom
<1> QED
  BY <1>1, <1>2, RegistryAssumption

(* A literal has the kind it says.                                         *)
LEMMA AcceptedLiteral ==
  ASSUME NEW e \in Accepted, e.node = "literal"
  PROVE  KindOf[e] = e.kind /\ e.kind \in Kinds /\ e.value \in Int
<1>1. e \in Expressions
  BY DEF Accepted
<1>2. KindOf[e] = e.kind
  BY <1>1, KindsAreDefined DEF KindFrom
<1> QED
  BY <1>1, <1>2, NodeCases

(* What is accepted is an expression of one of the three forms.            *)
LEMMA AcceptedNode ==
  ASSUME NEW e \in Accepted
  PROVE  e \in Expressions /\ (e.node = "literal" \/ e.node = "path" \/ e.node = "operation")
BY NodeCases DEF Accepted

(* A path evaluates to its evidence, or to a missing value of its kind.    *)
LEMMA PathResult ==
  ASSUME NEW e \in Accepted, e.node = "path", NEW evidence, ValidEvidence(evidence), NEW s \in Budgets
  PROVE  /\ EvaluatePath(e.path, evidence, s) \in Results
         /\ IF e.path \in DOMAIN evidence
            THEN EvaluatePath(e.path, evidence, s) = Got(Value(KindOf[e], evidence[e.path]), s)
            ELSE EvaluatePath(e.path, evidence, s) = GotMissing(KindOf[e], s)
<1>1. KindOf[e] = Registry[e.path] /\ KindOf[e] \in Kinds
  BY AcceptedPath
<1>2. CASE e.path \in DOMAIN evidence
  <2>1. evidence[e.path] \in Int
    BY <1>2 DEF ValidEvidence
  <2>2. Value(KindOf[e], evidence[e.path]) \in EvidenceValues
    BY <1>1, <2>1, ValueType
  <2> QED BY <1>1, <1>2, <2>2, GotType DEF EvaluatePath
<1>3. CASE e.path \notin DOMAIN evidence
  BY <1>1, <1>3, GotMissingType DEF EvaluatePath
<1> QED
  BY <1>2, <1>3

(* The result of an expression is one when those of its operands are.      *)
LEMMA ExpressionType ==
  ASSUME NEW e \in Accepted, NEW steps \in Budgets, NEW evidence, ValidEvidence(evidence),
         NEW ev, TypedBelow(e, ev)
  PROVE  EvaluateExpression(e, evidence, ev, steps) \in Results
<1>1. CASE steps = 0
  <2>1. "budget" \in Errors
    BY DEF Errors
  <2> QED BY <1>1, <2>1, StopType DEF EvaluateExpression
<1>2. CASE steps # 0 /\ e.node = "literal"
  <2>1. steps - 1 \in Budgets
    BY <1>2, LimitsAssumption DEF Budgets
  <2>2. Value(e.kind, e.value) \in EvidenceValues
    BY <1>2, AcceptedLiteral, ValueType
  <2> QED BY <1>2, <2>1, <2>2, GotType DEF EvaluateExpression
<1>3. CASE steps # 0 /\ e.node = "path"
  <2>1. steps - 1 \in Budgets
    BY <1>3, LimitsAssumption DEF Budgets
  <2> QED BY <1>3, <2>1, PathResult DEF EvaluateExpression
<1>4. CASE steps # 0 /\ e.node = "operation"
  <2>1. steps - 1 \in Budgets
    BY <1>4, LimitsAssumption DEF Budgets
  <2>2. KindOf[e] \in Kinds /\ Len(e.operands) \in Nat
    BY <1>4, AcceptedOperation
  <2>3. \A i \in 1 .. Len(e.operands), s \in Budgets : ev[<<e.operands[i], s>>] \in Results
    BY <1>4, AcceptedOperation DEF TypedBelow
  <2>4. CASE e.operator = "if"
    <3> DEFINE c == ev[<<e.operands[1], steps - 1>>]
               b == e.operands[IF c.value.value = 1 THEN 2 ELSE 3]
    <3>1. Len(e.operands) = 3
      BY <1>4, <2>4, AcceptedOperands
    <3>2. c \in Results
      BY <2>1, <2>3, <3>1
    <3>3. c.left \in Budgets
      BY <3>2 DEF Results
    <3>4. ev[<<b, c.left>>] \in Results
      BY <2>3, <3>1, <3>3
    <3>5. EvaluateExpression(e, evidence, ev, steps) =
            IF c.error # "none" THEN c
            ELSE IF c.value.missing THEN GotMissing(KindOf[e], c.left)
            ELSE IF c.value.kind # "boolean" THEN Stop("type") ELSE ev[<<b, c.left>>]
      BY <1>4, <2>4 DEF EvaluateExpression, EvaluateIf
    <3>6. "type" \in Errors
      BY DEF Errors
    <3> HIDE DEF c, b
    <3> QED BY <2>2, <3>2, <3>3, <3>4, <3>5, <3>6, GotMissingType, StopType
  <2>5. CASE e.operator # "if"
    <3>1. PICK g : Prefixes(e.operands, ev, steps - 1, g)
                   /\ EvaluateAll(e.operands, ev, steps - 1) = g[Len(e.operands)]
      BY <2>1, <2>2, <2>3, OperandsInTurn
    <3> DEFINE r == g[Len(e.operands)]
    <3>2. r \in Sofars /\ (r.error = "none" => Len(r.values) = Len(e.operands))
      BY <2>2, <3>1 DEF Prefixes
    <3>3. EvaluateExpression(e, evidence, ev, steps) =
            IF r.error # "none" THEN Stop(r.error) ELSE Apply(e, r.values, r.left)
      BY <1>4, <2>5, <3>1 DEF EvaluateExpression, EvaluateOperation
    <3> HIDE DEF r
    <3>4. r.values \in Seq(EvidenceValues) /\ r.left \in Budgets /\ r.error \in RuleErrors
      BY <3>2 DEF Sofars
    <3>5. CASE r.error # "none"
      BY <3>3, <3>4, <3>5, StopType DEF RuleErrors
    <3>6. CASE r.error = "none"
      <4>1. "zero_denominator" \in Errors /\ "type" \in Errors
        BY DEF Errors
      <4>2. Apply(e, r.values, r.left) \in Results
        BY <1>4, <2>2, <2>5, <3>2, <3>4, <3>6, <4>1, ApplyCases, GotType, GotMissingType, StopType
      <4> QED BY <3>3, <3>6, <4>2
    <3> QED BY <3>5, <3>6
  <2> QED BY <2>4, <2>5
<1> QED
  BY <1>1, <1>2, <1>3, <1>4, AcceptedNode

(* It depends on the results of lower expressions alone.                   *)
LEMMA ExpressionIsLocal ==
  ASSUME NEW e \in Accepted, NEW steps \in Budgets, NEW evidence, NEW f, NEW g, TypedBelow(e, f),
         \A x \in Accepted, s \in Budgets : Height[x] < Height[e] => f[<<x, s>>] = g[<<x, s>>]
  PROVE  EvaluateExpression(e, evidence, f, steps) = EvaluateExpression(e, evidence, g, steps)
<1>1. CASE steps = 0
  BY <1>1 DEF EvaluateExpression
<1>2. CASE steps # 0 /\ (e.node = "literal" \/ e.node = "path")
  BY <1>2 DEF EvaluateExpression
<1>3. CASE steps # 0 /\ e.node = "operation"
  <2>1. steps - 1 \in Budgets
    BY <1>3, LimitsAssumption DEF Budgets
  <2>2. Len(e.operands) \in Nat
    BY <1>3, AcceptedOperation
  <2>3. \A i \in 1 .. Len(e.operands), s \in Budgets : f[<<e.operands[i], s>>] \in Results
    BY <1>3, AcceptedOperation DEF TypedBelow
  <2>4. \A i \in 1 .. Len(e.operands), s \in Budgets : f[<<e.operands[i], s>>] = g[<<e.operands[i], s>>]
    BY <1>3, AcceptedOperation
  <2>5. \A i \in 1 .. Len(e.operands), s \in Budgets : g[<<e.operands[i], s>>] \in Results
    BY <2>3, <2>4
  <2>6. CASE e.operator = "if"
    <3> DEFINE c == f[<<e.operands[1], steps - 1>>]
    <3>1. Len(e.operands) = 3
      BY <1>3, <2>6, AcceptedOperands
    <3>2. c \in Results /\ c = g[<<e.operands[1], steps - 1>>]
      BY <2>1, <2>3, <2>4, <3>1
    <3>3. c.left \in Budgets
      BY <3>2 DEF Results
    <3>4. EvaluateIf(e, f, steps - 1) = EvaluateIf(e, g, steps - 1)
      BY <2>4, <3>1, <3>2, <3>3 DEF EvaluateIf
    <3> QED BY <1>3, <2>6, <3>4 DEF EvaluateExpression
  <2>7. CASE e.operator # "if"
    <3>1. PICK p : Prefixes(e.operands, f, steps - 1, p)
                   /\ EvaluateAll(e.operands, f, steps - 1) = p[Len(e.operands)]
      BY <2>1, <2>2, <2>3, OperandsInTurn
    <3>2. PICK q : Prefixes(e.operands, g, steps - 1, q)
                   /\ EvaluateAll(e.operands, g, steps - 1) = q[Len(e.operands)]
      BY <2>1, <2>2, <2>5, OperandsInTurn
    <3> DEFINE P == {k \in 0 .. Len(e.operands) : p[k] = q[k]}
    <3>3. 0 \in P
      BY <2>2, <3>1, <3>2 DEF Prefixes
    <3>4. ASSUME NEW k \in 1 .. Len(e.operands), k - 1 \in P PROVE k \in P
      <4>1. p[k - 1] = q[k - 1] /\ p[k - 1].left \in Budgets
        BY <3>1, <3>4 DEF Prefixes, Sofars
      <4>2. f[<<e.operands[k], p[k - 1].left>>] = g[<<e.operands[k], q[k - 1].left>>]
        BY <2>4, <4>1
      <4>3. p[k] = q[k]
        BY <3>1, <3>2, <4>1, <4>2 DEF Prefixes
      <4> QED BY <4>3
    <3>5. P = 0 .. Len(e.operands)
      <4>1. P \in SUBSET (0 .. Len(e.operands))
        OBVIOUS
      <4> HIDE DEF P
      <4> QED BY <2>2, <3>3, <3>4, <4>1, InductionUpTo
    <3>6. EvaluateAll(e.operands, f, steps - 1) = EvaluateAll(e.operands, g, steps - 1)
      <4>1. Len(e.operands) \in P
        BY <2>2, <3>5
      <4> QED BY <3>1, <3>2, <4>1
    <3> QED BY <1>3, <2>7, <3>6 DEF EvaluateExpression, EvaluateOperation
  <2> QED BY <2>6, <2>7
<1> QED
  BY <1>1, <1>2, <1>3, AcceptedNode

(* So there is an evaluator of all that is accepted.                       *)
LEMMA EvaluationsAreDefined ==
  ASSUME NEW evidence, ValidEvidence(evidence)
  PROVE  /\ \A e \in Accepted, s \in Budgets : Evaluate(e, evidence, s) \in Results
         /\ \A e \in Accepted, s \in Budgets :
              Evaluate(e, evidence, s) = EvaluateExpression(e, evidence, Evaluations(evidence), s)
<1> DEFINE h == [x \in Calls |-> Height[x[1]]]
           From(x, ev) == EvaluateExpression(x[1], evidence, ev, x[2])
           ev == Evaluations(evidence)
<1>1. \A x \in Calls : x = <<x[1], x[2]>> /\ x[1] \in Accepted /\ x[2] \in Budgets
  BY DEF Calls, Budgets
<1>2. \A e \in Accepted, s \in Budgets : <<e, s>> \in Calls
  BY DEF Calls, Budgets
<1>3. h \in [Calls -> Nat]
  BY <1>1, ExpressionsAssumption DEF Accepted
<1>4. \A x \in Calls : h[x] = Height[x[1]]
  OBVIOUS
<1>5. \A e \in Accepted, s \in Budgets : h[<<e, s>>] = Height[e]
  BY <1>2
<1> HIDE DEF h
<1>6. ASSUME NEW x \in Calls, NEW f, \A y \in Calls : h[y] < h[x] => f[y] \in Results
      PROVE  From(x, f) \in Results /\ TypedBelow(x[1], f)
  <2>1. TypedBelow(x[1], f)
    BY <1>2, <1>4, <1>5, <1>6 DEF TypedBelow
  <2> QED BY <1>1, <2>1, ExpressionType
<1>7. ASSUME NEW x \in Calls, NEW f, NEW g, TypedBelow(x[1], f),
             \A y \in Calls : h[y] < h[x] => f[y] = g[y]
      PROVE  From(x, f) = From(x, g)
  <2>1. \A e \in Accepted, s \in Budgets : Height[e] < Height[x[1]] => f[<<e, s>>] = g[<<e, s>>]
    BY <1>2, <1>4, <1>5, <1>7
  <2> QED BY <1>1, <1>7, <2>1, ExpressionIsLocal
<1> HIDE DEF From
<1>8. \E f \in [Calls -> Results] : \A x \in Calls : f[x] = From(x, f)
  <2> DEFINE G == [y \in Calls \X [Calls -> Results] |-> From(y[1], y[2])]
  <2>1. \A x \in Calls, f \in [Calls -> Results] : G[<<x, f>>] = From(x, f)
    OBVIOUS
  <2>2. ASSUME NEW y \in Calls \X [Calls -> Results] PROVE From(y[1], y[2]) \in Results
    <3>1. y[1] \in Calls /\ y[2] \in [Calls -> Results]
      OBVIOUS
    <3>2. \A x \in Calls : y[2][x] \in Results
      BY <3>1
    <3> QED BY <1>6, <3>1, <3>2
  <2>3. G \in [Calls \X [Calls -> Results] -> Results]
    BY <2>2
  <2> HIDE DEF G
  <2>4. \A x \in Calls : \A f, g \in [Calls -> Results] :
          (\A y \in Calls : h[y] < h[x] => f[y] = g[y]) => G[<<x, f>>] = G[<<x, g>>]
    <3> SUFFICES ASSUME NEW x \in Calls, NEW f \in [Calls -> Results], NEW g \in [Calls -> Results],
                        \A y \in Calls : h[y] < h[x] => f[y] = g[y]
                 PROVE  From(x, f) = From(x, g)
      BY <2>1
    <3>1. TypedBelow(x[1], f)
      BY <1>6
    <3> QED BY <1>7, <3>1
  <2>5. "budget" \in Errors
    BY DEF Errors
  <2>6. Results # {}
    BY <2>5, StopType
  <2>7. IsRecursion(Calls, h, Results, G)
    BY <1>3, <2>3, <2>4, <2>6 DEF IsRecursion
  <2>8. \E f \in [Calls -> Results] : \A x \in Calls : f[x] = G[<<x, f>>]
    BY <2>7, HeightRecursion
  <2> QED BY <2>1, <2>8
<1>9. ev = [x \in Calls |-> From(x, ev)]
  <2>1. PICK f \in [Calls -> Results] : \A x \in Calls : f[x] = From(x, f)
    BY <1>8
  <2>2. f = [x \in Calls |-> From(x, f)]
    BY <2>1
  <2>3. ev = CHOOSE g : g = [x \in Calls |-> From(x, g)]
    BY DEF Evaluations, From
  <2> HIDE DEF ev
  <2> QED BY <2>2, <2>3
<1> HIDE DEF ev
<1>10. \A x \in Calls : ev[x] = From(x, ev)
  BY <1>9
<1> DEFINE P == {x \in Calls : ev[x] \in Results}
<1>11. P = Calls
  <2>1. \A x \in Calls : (\A y \in Calls : h[y] < h[x] => y \in P) => x \in P
    BY <1>6, <1>10
  <2>2. P \in SUBSET Calls
    OBVIOUS
  <2> HIDE DEF P
  <2> QED BY <1>3, <2>1, <2>2, HeightInduction
<1>12. \A e \in Accepted, s \in Budgets : ev[<<e, s>>] \in Results /\ ev[<<e, s>>] = From(<<e, s>>, ev)
  BY <1>2, <1>10, <1>11
<1> QED
  BY <1>12 DEF Evaluate, ev, From

(* An evaluation, unfolded at a node.                                      *)
LEMMA LeafUnfolds ==
  ASSUME NEW e \in Accepted, e.node = "literal" \/ e.node = "path",
         NEW evidence, ValidEvidence(evidence), NEW s \in Budgets
  PROVE  Evaluate(e, evidence, s) =
           IF s = 0 THEN Stop("budget")
           ELSE IF e.node = "literal" THEN Got(Value(e.kind, e.value), s - 1)
           ELSE EvaluatePath(e.path, evidence, s - 1)
BY EvaluationsAreDefined DEF EvaluateExpression

(* An "if" evaluates its condition and one of its branches.                *)
LEMMA IfUnfolds ==
  ASSUME NEW e \in Accepted, e.node = "operation", e.operator = "if",
         NEW evidence, ValidEvidence(evidence), NEW s \in Budgets, s # 0
  PROVE  LET c == Evaluate(e.operands[1], evidence, s - 1)
             b == e.operands[IF c.value.value = 1 THEN 2 ELSE 3]
         IN Evaluate(e, evidence, s) =
              IF c.error # "none" THEN c
              ELSE IF c.value.missing THEN GotMissing(KindOf[e], c.left)
              ELSE IF c.value.kind # "boolean" THEN Stop("type")
              ELSE Evaluate(b, evidence, c.left)
<1>1. Evaluate(e, evidence, s) = EvaluateExpression(e, evidence, Evaluations(evidence), s)
  BY EvaluationsAreDefined
<1> QED
  BY <1>1 DEF EvaluateExpression, EvaluateIf, Evaluate

(* Any other operation evaluates its operands in turn, and is applied.     *)
LEMMA OperationUnfolds ==
  ASSUME NEW e \in Accepted, e.node = "operation", e.operator # "if",
         NEW evidence, ValidEvidence(evidence), NEW s \in Budgets, s # 0
  PROVE  \E p : /\ Prefixes(e.operands, Evaluations(evidence), s - 1, p)
                /\ LET r == p[Len(e.operands)] IN
                   Evaluate(e, evidence, s) =
                     IF r.error # "none" THEN Stop(r.error) ELSE Apply(e, r.values, r.left)
<1>1. Evaluate(e, evidence, s) = EvaluateExpression(e, evidence, Evaluations(evidence), s)
  BY EvaluationsAreDefined
<1>2. /\ Len(e.operands) \in Nat
      /\ \A i \in 1 .. Len(e.operands) : e.operands[i] \in Accepted
  BY AcceptedOperation
<1>3. \A i \in 1 .. Len(e.operands), t \in Budgets : Evaluations(evidence)[<<e.operands[i], t>>] \in Results
  BY <1>2, EvaluationsAreDefined DEF Evaluate
<1>4. s - 1 \in Budgets
  BY LimitsAssumption DEF Budgets
<1>5. PICK p : /\ Prefixes(e.operands, Evaluations(evidence), s - 1, p)
               /\ EvaluateAll(e.operands, Evaluations(evidence), s - 1) = p[Len(e.operands)]
  BY <1>2, <1>3, <1>4, OperandsInTurn
<1> QED
  BY <1>1, <1>5 DEF EvaluateExpression, EvaluateOperation

(* The k-th operand is evaluated, unless one before it failed.             *)
TakesStep(e, evidence, p, k) ==
  LET r == Evaluate(e.operands[k], evidence, p[k - 1].left) IN
  /\ r \in Results /\ r.value \in EvidenceValues
  /\ p[k - 1].error # "none" => p[k] = p[k - 1]
  /\ p[k - 1].error = "none" =>
       /\ p[k].error = r.error /\ p[k].left = r.left
       /\ p[k].values = Append(p[k - 1].values, r.value)

(* A step of the operands in turn, and where they end.                     *)
LEMMA PrefixStep ==
  ASSUME NEW e \in Accepted, e.node = "operation", NEW evidence, ValidEvidence(evidence),
         NEW s \in Budgets, NEW p, Prefixes(e.operands, Evaluations(evidence), s, p)
  PROVE  /\ p[0].error = "none" /\ p[0].values = <<>> /\ p[0].left = s
         /\ \A k \in 0 .. Len(e.operands) :
              /\ p[k].values \in Seq(EvidenceValues) /\ p[k].left \in Budgets /\ p[k].error \in RuleErrors
              /\ p[k].error = "none" => Len(p[k].values) = k
         /\ \A k \in 1 .. Len(e.operands) : TakesStep(e, evidence, p, k)
<1>1. p[0].error = "none" /\ p[0].values = <<>> /\ p[0].left = s
  BY DEF Prefixes, Started
<1>2. \A k \in 0 .. Len(e.operands) : p[k] \in Sofars /\ (p[k].error = "none" => Len(p[k].values) = k)
  BY DEF Prefixes
<1>3. ASSUME NEW k \in 1 .. Len(e.operands)
      PROVE  TakesStep(e, evidence, p, k)
  <2> DEFINE r == Evaluate(e.operands[k], evidence, p[k - 1].left)
  <2>1. k - 1 \in 0 .. Len(e.operands) /\ e.operands[k] \in Accepted
    BY AcceptedOperation
  <2>2. p[k - 1].left \in Budgets
    BY <1>2, <2>1 DEF Sofars
  <2>3. r \in Results
    BY <2>1, <2>2, EvaluationsAreDefined
  <2>4. p[k] = Continued(p[k - 1], r)
    BY DEF Prefixes, Evaluate
  <2> HIDE DEF r
  <2>5. r.value \in EvidenceValues
    BY <2>3 DEF Results
  <2>6. p[k - 1].error # "none" => p[k] = p[k - 1]
    BY <2>4 DEF Continued
  <2>7. p[k - 1].error = "none" =>
          p[k] = [values |-> Append(p[k - 1].values, r.value), left |-> r.left, error |-> r.error]
    BY <2>4 DEF Continued
  <2> QED BY <2>3, <2>5, <2>6, <2>7 DEF r, TakesStep
<1> QED
  BY <1>1, <1>2, <1>3 DEF Sofars

-----------------------------------------------------------------------------
(* No error of kinds, and a value of the kind the parser gave.             *)
Typed(e, evidence) ==
  \A s \in Budgets : LET r == Evaluate(e, evidence, s) IN
    r.error # "type" /\ (r.error = "none" => r.value.kind = KindOf[e])

(* Operands of the kinds the parser gave have them when evaluated in turn. *)
LEMMA OperandsAreTyped ==
  ASSUME NEW e \in Accepted, e.node = "operation", NEW evidence, ValidEvidence(evidence),
         \A i \in 1 .. Len(e.operands) : Typed(e.operands[i], evidence),
         NEW s \in Budgets, NEW p, Prefixes(e.operands, Evaluations(evidence), s, p)
  PROVE  \A k \in 0 .. Len(e.operands) :
           /\ p[k].error # "type"
           /\ p[k].error = "none" => \A i \in 1 .. k : p[k].values[i].kind = KindOf[e.operands[i]]
<1> DEFINE n == Len(e.operands)
           Good(k) == /\ p[k].error # "type"
                      /\ p[k].error = "none" => \A i \in 1 .. k : p[k].values[i].kind = KindOf[e.operands[i]]
           P == {k \in 0 .. n : Good(k)}
<1>1. n \in Nat
  BY AcceptedOperation
<1>2. \A k \in 0 .. n : /\ p[k].left \in Budgets /\ p[k].values \in Seq(EvidenceValues)
                        /\ p[k].error = "none" => Len(p[k].values) = k
  BY PrefixStep
<1>3. 0 \in P
  BY <1>1, PrefixStep
<1>4. ASSUME NEW k \in 1 .. n, k - 1 \in P PROVE k \in P
  <2> DEFINE r == Evaluate(e.operands[k], evidence, p[k - 1].left)
  <2>1. k - 1 \in 0 .. n /\ k \in 0 .. n /\ k \in 1 .. k
    BY <1>1
  <2>2. /\ p[k - 1].left \in Budgets /\ p[k - 1].values \in Seq(EvidenceValues)
        /\ p[k - 1].error = "none" => Len(p[k - 1].values) = k - 1
    BY <1>2, <2>1
  <2>3. r.error # "type" /\ (r.error = "none" => r.value.kind = KindOf[e.operands[k]])
    BY <2>2 DEF Typed
  <2>4. /\ r.value \in EvidenceValues
        /\ p[k - 1].error # "none" => p[k] = p[k - 1]
        /\ p[k - 1].error = "none" =>
             p[k].error = r.error /\ p[k].values = Append(p[k - 1].values, r.value)
    <3>1. TakesStep(e, evidence, p, k)
      BY PrefixStep
    <3> QED BY <3>1 DEF TakesStep
  <2> HIDE DEF r
  <2>5. CASE p[k - 1].error # "none"
    BY <1>4, <2>1, <2>4, <2>5
  <2>6. CASE p[k - 1].error = "none"
    <3>1. \A i \in 1 .. k : Append(p[k - 1].values, r.value)[i] = IF i = k THEN r.value ELSE p[k - 1].values[i]
      BY <2>2, <2>4, <2>6
    <3>2. \A i \in 1 .. k : i # k => i \in 1 .. (k - 1)
      BY <1>1
    <3>3. r.error = "none" => \A i \in 1 .. k : p[k].values[i].kind = KindOf[e.operands[i]]
      BY <1>4, <2>3, <2>4, <2>6, <3>1, <3>2
    <3>4. Good(k)
      BY <2>3, <2>4, <2>6, <3>3
    <3> QED BY <2>1, <3>4
  <2> QED BY <2>5, <2>6
<1>5. P = 0 .. n
  <2>1. P \in SUBSET (0 .. n)
    OBVIOUS
  <2> HIDE DEF P, Good
  <2> QED BY <1>1, <1>3, <1>4, <2>1, InductionUpTo
<1> QED
  BY <1>5

(* The parser types what it accepts well enough for the evaluator.         *)
LEMMA AcceptedIsTyped ==
  ASSUME NEW evidence, ValidEvidence(evidence)
  PROVE  \A e \in Accepted : Typed(e, evidence)
<1> DEFINE h == [e \in Accepted |-> Height[e]]
           P == {e \in Accepted : Typed(e, evidence)}
<1>1. h \in [Accepted -> Nat] /\ \A e \in Accepted : h[e] = Height[e]
  BY ExpressionsAssumption DEF Accepted
<1>2. ASSUME NEW e \in Accepted, \A x \in Accepted : Height[x] < Height[e] => Typed(x, evidence)
      PROVE  Typed(e, evidence)
  <2> SUFFICES ASSUME NEW s \in Budgets
               PROVE  /\ Evaluate(e, evidence, s).error # "type"
                      /\ Evaluate(e, evidence, s).error = "none" => Evaluate(e, evidence, s).value.kind = KindOf[e]
    BY DEF Typed
  <2> DEFINE r == Evaluate(e, evidence, s)
  <2>1. CASE s = 0
    <3>1. r = Stop("budget")
      BY <2>1, EvaluationsAreDefined DEF EvaluateExpression
    <3> QED BY <3>1, StopType DEF Errors
  <2>2. CASE s # 0 /\ e.node = "literal"
    <3>1. r = Got(Value(e.kind, e.value), s - 1) /\ e.kind = KindOf[e]
      BY <2>2, LeafUnfolds, AcceptedLiteral
    <3> QED BY <3>1 DEF Got, Value
  <2>3. CASE s # 0 /\ e.node = "path"
    <3>1. s - 1 \in Budgets /\ r = EvaluatePath(e.path, evidence, s - 1)
      BY <2>3, LeafUnfolds, LimitsAssumption DEF Budgets
    <3>2. KindOf[e] \in Kinds
      BY <2>3, AcceptedPath
    <3>3. CASE e.path \in DOMAIN evidence
      <4>1. r = Got(Value(KindOf[e], evidence[e.path]), s - 1)
        BY <2>3, <3>1, <3>3, PathResult
      <4> QED BY <4>1 DEF Got, Value
    <3>4. CASE e.path \notin DOMAIN evidence
      <4>1. r = GotMissing(KindOf[e], s - 1)
        BY <2>3, <3>1, <3>4, PathResult
      <4> HIDE DEF r
      <4> QED BY <3>1, <3>2, <4>1, GotMissingType DEF r
    <3> QED BY <3>3, <3>4
  <2>4. CASE s # 0 /\ e.node = "operation"
    <3>1. s - 1 \in Budgets
      BY <2>4, LimitsAssumption DEF Budgets
    <3>2. \A i \in 1 .. Len(e.operands) : e.operands[i] \in Accepted /\ Typed(e.operands[i], evidence)
      BY <1>2, <2>4, AcceptedOperation
    <3>3. KindOf[e] \in Kinds
      BY <2>4, AcceptedOperation
    <3>4. CASE e.operator = "if"
      <4> DEFINE c == Evaluate(e.operands[1], evidence, s - 1)
                 b == IF c.value.value = 1 THEN 2 ELSE 3
                 q == Evaluate(e.operands[b], evidence, c.left)
      <4>1. /\ Len(e.operands) = 3 /\ KindOf[e.operands[1]] = "boolean"
            /\ KindOf[e.operands[2]] = KindOf[e] /\ KindOf[e.operands[3]] = KindOf[e]
        BY <2>4, <3>4, AcceptedOperands
      <4>2. c \in Results /\ c.error # "type" /\ (c.error = "none" => c.value.kind = "boolean")
        BY <3>1, <3>2, <4>1, EvaluationsAreDefined DEF Typed
      <4>3. c.left \in Budgets
        BY <4>2 DEF Results
      <4>4. q.error # "type" /\ (q.error = "none" => q.value.kind = KindOf[e])
        BY <3>2, <4>1, <4>3 DEF Typed
      <4>5. r = IF c.error # "none" THEN c
                ELSE IF c.value.missing THEN GotMissing(KindOf[e], c.left)
                ELSE IF c.value.kind # "boolean" THEN Stop("type") ELSE q
        BY <2>4, <3>4, IfUnfolds
      <4> HIDE DEF c, b, q, r
      <4> QED BY <3>3, <4>2, <4>3, <4>4, <4>5, GotMissingType DEF r
    <3>5. CASE e.operator # "if"
      <4>1. PICK p : /\ Prefixes(e.operands, Evaluations(evidence), s - 1, p)
                     /\ r = IF p[Len(e.operands)].error # "none" THEN Stop(p[Len(e.operands)].error)
                            ELSE Apply(e, p[Len(e.operands)].values, p[Len(e.operands)].left)
        BY <2>4, <3>5, OperationUnfolds
      <4> DEFINE q == p[Len(e.operands)]
      <4>2. Len(e.operands) \in 0 .. Len(e.operands)
        BY <2>4, AcceptedOperation
      <4>3. /\ q.values \in Seq(EvidenceValues) /\ q.left \in Budgets /\ q.error \in RuleErrors
            /\ q.error = "none" => Len(q.values) = Len(e.operands)
        BY <2>4, <3>1, <4>1, <4>2, PrefixStep
      <4>4. /\ q.error # "type"
            /\ q.error = "none" => \A i \in 1 .. Len(e.operands) : q.values[i].kind = KindOf[e.operands[i]]
        BY <2>4, <3>1, <3>2, <4>1, <4>2, OperandsAreTyped
      <4>5. r = IF q.error # "none" THEN Stop(q.error) ELSE Apply(e, q.values, q.left)
        BY <4>1
      <4> HIDE DEF q, r
      <4>6. CASE q.error # "none"
        <5>1. q.error \in Errors /\ r = Stop(q.error)
          BY <4>3, <4>5, <4>6 DEF RuleErrors
        <5> QED BY <4>4, <4>6, <5>1, StopType DEF r
      <4>7. CASE q.error = "none"
        <5>1. ~ \E i \in 1 .. Len(q.values) : q.values[i].kind # KindOf[e.operands[i]]
          BY <4>3, <4>4, <4>7
        <5>2. r = Apply(e, q.values, q.left)
          BY <4>5, <4>7
        <5>3. \/ \E v \in EvidenceValues : v.kind = KindOf[e] /\ r = Got(v, q.left)
              \/ r = GotMissing(KindOf[e], q.left)
              \/ r = Stop("zero_denominator")
          BY <2>4, <3>5, <4>3, <4>7, <5>1, <5>2, ApplyCases
        <5>4. "zero_denominator" \in Errors /\ "zero_denominator" # "none" /\ "zero_denominator" # "type"
          BY DEF Errors
        <5> QED BY <3>3, <4>3, <5>3, <5>4, GotType, GotMissingType, StopType DEF r
      <4> QED BY <4>6, <4>7
    <3> QED BY <3>4, <3>5
  <2> QED BY <2>1, <2>2, <2>3, <2>4, AcceptedNode
<1>3. \A e \in Accepted : (\A x \in Accepted : h[x] < h[e] => x \in P) => e \in P
  BY <1>1, <1>2
<1>4. P \in SUBSET Accepted
  OBVIOUS
<1>5. P = Accepted
  <2> HIDE DEF P, h
  <2> QED BY <1>1, <1>3, <1>4, HeightInduction
<1> QED
  BY <1>5

-----------------------------------------------------------------------------
(* The steps of an evaluation are paid for by the nodes.                   *)
Affordable(e, evidence) ==
  \A s \in Budgets : LET r == Evaluate(e, evidence, s) IN
    s >= CountNodes[e] => r.error # "budget" /\ (r.error = "none" => r.left >= s - CountNodes[e])

OperandNodes(e) == [i \in DOMAIN e.operands |-> CountNodes[e.operands[i]]]

(* The nodes of an operation are its own and those of its operands.        *)
LEMMA OperationNodes ==
  ASSUME NEW e \in Accepted, e.node = "operation"
  PROVE  /\ \A i \in 1 .. Len(e.operands) :
              OperandNodes(e)[i] = CountNodes[e.operands[i]] /\ OperandNodes(e)[i] \in Nat \ {0}
         /\ CountNodes[e] = 1 + SumUpTo(OperandNodes(e), Len(e.operands))
<1>1. /\ e \in Expressions /\ Len(e.operands) \in Nat /\ DOMAIN e.operands = 1 .. Len(e.operands)
      /\ \A i \in 1 .. Len(e.operands) : e.operands[i] \in Expressions
  BY AcceptedOperation DEF Accepted
<1>2. \A i \in 1 .. Len(e.operands) :
        OperandNodes(e)[i] = CountNodes[e.operands[i]] /\ OperandNodes(e)[i] \in Nat \ {0}
  BY <1>1, NodesAreCounted DEF OperandNodes
<1>3. OperandNodes(e) \in [1 .. Len(e.operands) -> Nat]
  BY <1>1, NodesAreCounted DEF OperandNodes
<1>4. CountNodes[e] = 1 + Total(OperandNodes(e))
  BY <1>1, NodesAreCounted DEF NodesFrom, OperandNodes
<1>5. Total(OperandNodes(e)) = SumUpTo(OperandNodes(e), Len(e.operands))
  BY <1>1, <1>3, TotalOfNaturals DEF SumUpTo
<1> QED
  BY <1>2, <1>4, <1>5

(* The operands evaluated in turn are paid for by their nodes.             *)
LEMMA OperandsAreAffordable ==
  ASSUME NEW e \in Accepted, e.node = "operation", NEW evidence, ValidEvidence(evidence),
         \A i \in 1 .. Len(e.operands) : Affordable(e.operands[i], evidence),
         NEW s \in Budgets, s >= SumUpTo(OperandNodes(e), Len(e.operands)),
         NEW p, Prefixes(e.operands, Evaluations(evidence), s, p)
  PROVE  \A k \in 0 .. Len(e.operands) :
           /\ p[k].error # "budget"
           /\ p[k].error = "none" => p[k].left >= s - SumUpTo(OperandNodes(e), k)
<1> DEFINE n == Len(e.operands)
           c == OperandNodes(e)
           Good(k) == /\ p[k].error # "budget"
                      /\ p[k].error = "none" => p[k].left >= s - SumUpTo(c, k)
           P == {k \in 0 .. n : Good(k)}
<1>1. n \in Nat
  BY AcceptedOperation
<1>2. \A i \in 1 .. n : c[i] = CountNodes[e.operands[i]] /\ c[i] \in Nat
  BY OperationNodes
<1> HIDE DEF c
<1>3. /\ SumUpTo(c, 0) = 0
      /\ \A k \in 1 .. n : SumUpTo(c, k) = SumUpTo(c, k - 1) + c[k]
      /\ \A k \in 0 .. n : SumUpTo(c, k) \in Nat /\ SumUpTo(c, k) <= SumUpTo(c, n)
  BY <1>1, <1>2, PrefixSums
<1>4. s \in Nat /\ s >= SumUpTo(c, n)
  BY BudgetsType DEF c
<1>5. \A k \in 0 .. n : p[k].left \in Budgets
  BY PrefixStep
<1>6. 0 \in P
  BY <1>1, <1>3, <1>4, PrefixStep
<1>7. ASSUME NEW k \in 1 .. n, k - 1 \in P PROVE k \in P
  <2> DEFINE r == Evaluate(e.operands[k], evidence, p[k - 1].left)
  <2>1. k - 1 \in 0 .. n /\ k \in 0 .. n
    BY <1>1
  <2>2. p[k - 1].left \in Budgets
    BY <1>5, <2>1
  <2>3. p[k - 1].left >= c[k] => r.error # "budget" /\ (r.error = "none" => r.left >= p[k - 1].left - c[k])
    BY <1>2, <2>2 DEF Affordable
  <2>4. /\ r \in Results
        /\ p[k - 1].error # "none" => p[k] = p[k - 1]
        /\ p[k - 1].error = "none" => p[k].error = r.error /\ p[k].left = r.left
    <3>1. TakesStep(e, evidence, p, k)
      BY PrefixStep
    <3> QED BY <3>1 DEF TakesStep
  <2> HIDE DEF r
  <2>5. CASE p[k - 1].error # "none"
    BY <1>7, <2>1, <2>4, <2>5
  <2>6. CASE p[k - 1].error = "none"
    <3>1. /\ SumUpTo(c, k) = SumUpTo(c, k - 1) + c[k] /\ SumUpTo(c, k) <= SumUpTo(c, n)
          /\ SumUpTo(c, k) \in Nat /\ SumUpTo(c, k - 1) \in Nat /\ SumUpTo(c, n) \in Nat /\ c[k] \in Nat
      BY <1>1, <1>2, <1>3, <2>1
    <3>2. p[k - 1].left \in Nat /\ p[k - 1].left >= s - SumUpTo(c, k - 1)
      BY <1>7, <2>2, <2>6, BudgetsType
    <3>3. p[k - 1].left >= c[k]
      BY <1>4, <3>1, <3>2
    <3>4. r.left \in Nat
      BY <2>4, BudgetsType DEF Results
    <3>5. r.error = "none" => r.left >= s - SumUpTo(c, k)
      BY <1>4, <2>3, <3>1, <3>2, <3>3, <3>4
    <3>6. Good(k)
      BY <2>3, <2>4, <2>6, <3>3, <3>5
    <3> QED BY <2>1, <3>6
  <2> QED BY <2>5, <2>6
<1>8. P = 0 .. n
  <2>1. P \in SUBSET (0 .. n)
    OBVIOUS
  <2> HIDE DEF P, Good
  <2> QED BY <1>1, <1>6, <1>7, <2>1, InductionUpTo
<1> QED
  BY <1>8 DEF c

(* An evaluation that is given a step for each node does not run out.      *)
LEMMA AcceptedIsAffordable ==
  ASSUME NEW evidence, ValidEvidence(evidence)
  PROVE  \A e \in Accepted : Affordable(e, evidence)
<1> DEFINE h == [e \in Accepted |-> Height[e]]
           P == {e \in Accepted : Affordable(e, evidence)}
<1>1. h \in [Accepted -> Nat] /\ \A e \in Accepted : h[e] = Height[e]
  BY ExpressionsAssumption DEF Accepted
<1>2. ASSUME NEW e \in Accepted, \A x \in Accepted : Height[x] < Height[e] => Affordable(x, evidence)
      PROVE  Affordable(e, evidence)
  <2> SUFFICES ASSUME NEW s \in Budgets, s >= CountNodes[e]
               PROVE  /\ Evaluate(e, evidence, s).error # "budget"
                      /\ Evaluate(e, evidence, s).error = "none" =>
                           Evaluate(e, evidence, s).left >= s - CountNodes[e]
    BY DEF Affordable
  <2> DEFINE r == Evaluate(e, evidence, s)
  <2>1. /\ CountNodes[e] \in Nat \ {0} /\ s \in Nat /\ s # 0 /\ s - 1 \in Budgets
        /\ s - 1 \in Nat /\ s - 1 >= s - CountNodes[e]
    <3>1. CountNodes[e] \in Nat \ {0}
      BY NodesAreCounted DEF Accepted
    <3> QED BY <3>1, LimitsAssumption DEF Budgets
  <2>2. CASE e.node = "literal"
    <3>1. r = Got(Value(e.kind, e.value), s - 1)
      BY <2>1, <2>2, LeafUnfolds
    <3> QED BY <2>1, <3>1 DEF Got
  <2>3. CASE e.node = "path"
    <3>1. r = EvaluatePath(e.path, evidence, s - 1)
      BY <2>1, <2>3, LeafUnfolds
    <3>2. KindOf[e] \in Kinds
      BY <2>3, AcceptedPath
    <3>3. CASE e.path \in DOMAIN evidence
      <4>1. r = Got(Value(KindOf[e], evidence[e.path]), s - 1)
        BY <2>1, <2>3, <3>1, <3>3, PathResult
      <4> QED BY <2>1, <4>1 DEF Got
    <3>4. CASE e.path \notin DOMAIN evidence
      <4>1. r = GotMissing(KindOf[e], s - 1)
        BY <2>1, <2>3, <3>1, <3>4, PathResult
      <4> HIDE DEF r
      <4>2. r.error \in {"none", "untyped_missing"} /\ (r.error = "none" => r.left = s - 1)
        BY <2>1, <3>2, <4>1, GotMissingType
      <4> QED BY <2>1, <4>2 DEF r
    <3> QED BY <3>3, <3>4
  <2>4. CASE e.node = "operation"
    <3> DEFINE n == Len(e.operands)
               c == OperandNodes(e)
    <3>1. n \in Nat /\ \A i \in 1 .. n : e.operands[i] \in Accepted /\ Affordable(e.operands[i], evidence)
      BY <1>2, <2>4, AcceptedOperation
    <3>2. /\ \A i \in 1 .. n : c[i] = CountNodes[e.operands[i]] /\ c[i] \in Nat
          /\ CountNodes[e] = 1 + SumUpTo(c, n)
      BY <2>4, OperationNodes
    <3>3. KindOf[e] \in Kinds
      BY <2>4, AcceptedOperation
    <3>4. CASE e.operator = "if"
      <4> DEFINE q == Evaluate(e.operands[1], evidence, s - 1)
                 b == IF q.value.value = 1 THEN 2 ELSE 3
                 t == Evaluate(e.operands[b], evidence, q.left)
      <4>1. n = 3
        BY <2>4, <3>4, AcceptedOperands
      <4>2. c[1] \in Nat /\ c[2] \in Nat /\ c[3] \in Nat /\ SumUpTo(c, n) = c[1] + c[2] + c[3]
        <5> HIDE DEF c
        <5>1. /\ SumUpTo(c, 0) = 0
              /\ \A k \in 1 .. n : SumUpTo(c, k) = SumUpTo(c, k - 1) + c[k]
          BY <3>1, <3>2, PrefixSums
        <5>2. SumUpTo(c, 1) = SumUpTo(c, 0) + c[1] /\ SumUpTo(c, 2) = SumUpTo(c, 1) + c[2]
              /\ SumUpTo(c, 3) = SumUpTo(c, 2) + c[3]
          <6>1. 1 \in 1 .. n /\ 2 \in 1 .. n /\ 3 \in 1 .. n /\ 1 - 1 = 0 /\ 2 - 1 = 1 /\ 3 - 1 = 2
            BY <4>1
          <6> HIDE DEF n
          <6> QED BY <5>1, <6>1
        <5>3. c[1] \in Nat /\ c[2] \in Nat /\ c[3] \in Nat
          BY <3>2, <4>1
        <5> QED BY <4>1, <5>1, <5>2, <5>3
      <4>3. /\ s - 1 >= c[1] => q.error # "budget" /\ (q.error = "none" => q.left >= s - 1 - c[1])
            /\ q \in Results
        <5>1. Affordable(e.operands[1], evidence) /\ c[1] = CountNodes[e.operands[1]] /\ e.operands[1] \in Accepted
          BY <3>1, <3>2, <4>1
        <5> QED BY <2>1, <5>1, EvaluationsAreDefined DEF Affordable
      <4>4. q.left \in Budgets /\ q.left \in Nat
        BY <4>3, BudgetsType DEF Results
      <4>5. b \in {2, 3} /\ c[b] \in Nat /\ c[b] <= c[2] + c[3]
        BY <4>2
      <4>6. /\ q.left >= c[b] => t.error # "budget" /\ (t.error = "none" => t.left >= q.left - c[b])
            /\ t.left \in Nat
        <5>1. Affordable(e.operands[b], evidence) /\ c[b] = CountNodes[e.operands[b]] /\ e.operands[b] \in Accepted
          BY <3>1, <3>2, <4>1, <4>5
        <5>2. t \in Results
          BY <4>4, <5>1, EvaluationsAreDefined
        <5> QED BY <4>4, <5>1, <5>2, BudgetsType DEF Affordable, Results
      <4>7. r = IF q.error # "none" THEN q
                ELSE IF q.value.missing THEN GotMissing(KindOf[e], q.left)
                ELSE IF q.value.kind # "boolean" THEN Stop("type") ELSE t
        BY <2>1, <2>4, <3>4, IfUnfolds
      <4>8. CountNodes[e] = 1 + c[1] + c[2] + c[3]
        BY <2>1, <3>2, <4>2
      <4> HIDE DEF q, b, t, r, c, n
      <4>9. q.error # "budget" /\ (q.error = "none" => q.left >= s - 1 - c[1] /\ q.left >= c[2] + c[3])
        BY <2>1, <4>2, <4>3, <4>4, <4>8
      <4>10. CASE q.error # "none"
        BY <4>7, <4>9, <4>10 DEF r
      <4>11. CASE q.error = "none" /\ q.value.missing
        <5>1. r = GotMissing(KindOf[e], q.left)
          BY <4>7, <4>11
        <5>2. r.error \in {"none", "untyped_missing"} /\ (r.error = "none" => r.left = q.left)
          BY <3>3, <4>4, <5>1, GotMissingType
        <5> QED BY <2>1, <4>2, <4>4, <4>8, <4>9, <4>11, <5>2 DEF r
      <4>12. CASE q.error = "none" /\ ~ q.value.missing /\ q.value.kind # "boolean"
        <5>1. r = Stop("type") /\ "type" \in Errors
          BY <4>7, <4>12 DEF Errors
        <5> QED BY <5>1, StopType DEF r
      <4>13. CASE q.error = "none" /\ ~ q.value.missing /\ q.value.kind = "boolean"
        <5>1. r = t
          BY <4>7, <4>13
        <5>2. t.error # "budget" /\ (t.error = "none" => t.left >= q.left - c[b])
          BY <4>2, <4>4, <4>5, <4>6, <4>9, <4>13
        <5>3. t.error = "none" => t.left >= s - CountNodes[e]
          BY <2>1, <4>2, <4>4, <4>5, <4>6, <4>8, <4>9, <4>13, <5>2
        <5> QED BY <5>1, <5>2, <5>3 DEF r
      <4> QED BY <4>10, <4>11, <4>12, <4>13
    <3>5. CASE e.operator # "if"
      <4>1. PICK p : /\ Prefixes(e.operands, Evaluations(evidence), s - 1, p)
                     /\ r = IF p[Len(e.operands)].error # "none" THEN Stop(p[Len(e.operands)].error)
                            ELSE Apply(e, p[Len(e.operands)].values, p[Len(e.operands)].left)
        BY <2>1, <2>4, <3>5, OperationUnfolds
      <4> DEFINE q == p[Len(e.operands)]
      <4>2. n \in 0 .. n
        BY <3>1
      <4>3. /\ q.values \in Seq(EvidenceValues) /\ q.left \in Budgets /\ q.error \in RuleErrors
            /\ q.error = "none" => Len(q.values) = Len(e.operands)
        BY <2>1, <2>4, <4>1, <4>2, PrefixStep
      <4>4. SumUpTo(c, n) \in Nat
        <5> HIDE DEF c
        <5> QED BY <3>1, <3>2, <4>2, PrefixSums
      <4>5. q.error # "budget" /\ (q.error = "none" => q.left >= s - 1 - SumUpTo(c, n))
        <5>1. s - 1 >= SumUpTo(c, n)
          BY <2>1, <3>2, <4>4
        <5> QED BY <2>1, <2>4, <3>1, <4>1, <4>2, <5>1, OperandsAreAffordable
      <4>6. r = IF q.error # "none" THEN Stop(q.error) ELSE Apply(e, q.values, q.left)
        BY <4>1
      <4>7. q.error = "none" => q.left >= s - CountNodes[e]
        BY <2>1, <3>2, <4>4, <4>5
      <4> HIDE DEF q, r
      <4>8. CASE q.error # "none"
        <5>1. q.error \in Errors /\ r = Stop(q.error)
          BY <4>3, <4>6, <4>8 DEF RuleErrors
        <5> QED BY <4>5, <4>8, <5>1, StopType DEF r
      <4>9. CASE q.error = "none"
        <5>1. r = Apply(e, q.values, q.left)
          BY <4>6, <4>9
        <5>2. \/ \E v \in EvidenceValues : r = Got(v, q.left)
              \/ r = GotMissing(KindOf[e], q.left)
              \/ r = Stop("zero_denominator") \/ r = Stop("type")
          BY <2>4, <3>5, <4>3, <4>9, <5>1, ApplyCases
        <5>3. "zero_denominator" \in Errors /\ "type" \in Errors
          BY DEF Errors
        <5>4. r.error # "budget" /\ (r.error = "none" => r.left = q.left)
          BY <3>3, <4>3, <5>2, <5>3, GotType, GotMissingType, StopType
        <5> QED BY <4>7, <4>9, <5>4 DEF r
      <4> QED BY <4>8, <4>9
    <3> QED BY <3>4, <3>5
  <2> QED BY <2>2, <2>3, <2>4, AcceptedNode
<1>3. \A e \in Accepted : (\A x \in Accepted : h[x] < h[e] => x \in P) => e \in P
  BY <1>1, <1>2
<1>4. P \in SUBSET Accepted
  OBVIOUS
<1>5. P = Accepted
  <2> HIDE DEF P, h
  <2> QED BY <1>1, <1>3, <1>4, HeightInduction
<1> QED
  BY <1>5

-----------------------------------------------------------------------------
(* More evidence leaves what was evaluated without missing any as it was.  *)
Extended(evidence, more) ==
  /\ ValidEvidence(evidence) /\ ValidEvidence(more)
  /\ DOMAIN evidence \subseteq DOMAIN more
  /\ \A p \in DOMAIN evidence : more[p] = evidence[p]

Settled(e, evidence, more) ==
  \A s, t \in Budgets :
    LET r == Evaluate(e, evidence, s)
        q == Evaluate(e, more, t)
    IN r.error = "none" /\ ~ r.value.missing => q.error # "none" \/ q.value = r.value

(* Operands that are settled one by one are settled in turn.               *)
LEMMA OperandsAreSettled ==
  ASSUME NEW e \in Accepted, e.node = "operation",
         NEW evidence, NEW more, Extended(evidence, more),
         \A i \in 1 .. Len(e.operands) : Settled(e.operands[i], evidence, more),
         NEW s \in Budgets, NEW p, Prefixes(e.operands, Evaluations(evidence), s, p),
         NEW t \in Budgets, NEW q, Prefixes(e.operands, Evaluations(more), t, q)
  PROVE  \A k \in 0 .. Len(e.operands) :
           p[k].error = "none" /\ ~ AnyMissing(p[k].values) =>
             q[k].error # "none" \/ q[k].values = p[k].values
<1> DEFINE n == Len(e.operands)
           Good(k) == p[k].error = "none" /\ ~ AnyMissing(p[k].values) =>
                        q[k].error # "none" \/ q[k].values = p[k].values
           P == {k \in 0 .. n : Good(k)}
<1>1. n \in Nat /\ ValidEvidence(evidence) /\ ValidEvidence(more)
  BY AcceptedOperation DEF Extended
<1>2. \A k \in 0 .. n : /\ p[k].left \in Budgets /\ p[k].values \in Seq(EvidenceValues)
                        /\ p[k].error = "none" => Len(p[k].values) = k
  BY <1>1, PrefixStep
<1>3. \A k \in 0 .. n : q[k].left \in Budgets
  BY <1>1, PrefixStep
<1>4. 0 \in P
  BY <1>1, PrefixStep
<1>5. ASSUME NEW k \in 1 .. n, k - 1 \in P PROVE k \in P
  <2> DEFINE x == Evaluate(e.operands[k], evidence, p[k - 1].left)
             y == Evaluate(e.operands[k], more, q[k - 1].left)
  <2>1. k - 1 \in 0 .. n /\ k \in 0 .. n
    BY <1>1
  <2>2. p[k - 1].left \in Budgets /\ q[k - 1].left \in Budgets
    BY <1>2, <1>3, <2>1
  <2>3. x.error = "none" /\ ~ x.value.missing => y.error # "none" \/ y.value = x.value
    BY <2>2 DEF Settled
  <2>4. /\ x.value \in EvidenceValues
        /\ p[k - 1].error # "none" => p[k] = p[k - 1]
        /\ p[k - 1].error = "none" => p[k].error = x.error /\ p[k].values = Append(p[k - 1].values, x.value)
    <3>1. TakesStep(e, evidence, p, k)
      BY <1>1, PrefixStep
    <3> QED BY <3>1 DEF TakesStep
  <2>5. /\ q[k - 1].error # "none" => q[k] = q[k - 1]
        /\ q[k - 1].error = "none" => q[k].error = y.error /\ q[k].values = Append(q[k - 1].values, y.value)
    <3>1. TakesStep(e, more, q, k)
      BY <1>1, PrefixStep
    <3> QED BY <3>1 DEF TakesStep
  <2> HIDE DEF x, y
  <2>6. Good(k)
    <3> SUFFICES ASSUME p[k].error = "none", ~ AnyMissing(p[k].values), q[k].error = "none"
                 PROVE  q[k].values = p[k].values
      OBVIOUS
    <3>1. p[k - 1].error = "none" /\ q[k - 1].error = "none"
      BY <2>4, <2>5
    <3>2. p[k].values = Append(p[k - 1].values, x.value) /\ x.error = "none" /\ y.error = "none"
      BY <2>4, <2>5, <3>1
    <3>3. p[k - 1].values \in Seq(EvidenceValues) /\ Len(p[k - 1].values) = k - 1
      BY <1>2, <2>1, <3>1
    <3>4. /\ DOMAIN p[k].values = 1 .. k /\ DOMAIN p[k - 1].values = 1 .. (k - 1)
          /\ p[k].values[k] = x.value
          /\ \A i \in 1 .. (k - 1) : p[k].values[i] = p[k - 1].values[i]
      BY <2>4, <3>2, <3>3
    <3>5. ~ AnyMissing(p[k - 1].values) /\ ~ x.value.missing
      BY <3>4 DEF AnyMissing
    <3>6. q[k - 1].values = p[k - 1].values
      BY <1>5, <3>1, <3>5
    <3> QED BY <2>3, <2>5, <3>1, <3>2, <3>5, <3>6
  <2> QED BY <2>1, <2>6
<1>6. P = 0 .. n
  <2>1. P \in SUBSET (0 .. n)
    OBVIOUS
  <2> HIDE DEF P, Good
  <2> QED BY <1>1, <1>4, <1>5, <2>1, InductionUpTo
<1> QED
  BY <1>6

(* What does not ask whether evidence exists is settled when evaluated.    *)
LEMMA AcceptedIsSettled ==
  ASSUME NEW evidence, NEW more, Extended(evidence, more)
  PROVE  \A e \in Accepted : ~ AsksExistence(e) => Settled(e, evidence, more)
<1> DEFINE h == [e \in Accepted |-> Height[e]]
           P == {e \in Accepted : ~ AsksExistence(e) => Settled(e, evidence, more)}
<1>1. h \in [Accepted -> Nat] /\ \A e \in Accepted : h[e] = Height[e]
  BY ExpressionsAssumption DEF Accepted
<1>2. ValidEvidence(evidence) /\ ValidEvidence(more)
  BY DEF Extended
<1>3. ASSUME NEW e \in Accepted, ~ AsksExistence(e),
             \A x \in Accepted : Height[x] < Height[e] => (~ AsksExistence(x) => Settled(x, evidence, more))
      PROVE  Settled(e, evidence, more)
  <2> SUFFICES ASSUME NEW s \in Budgets, NEW t \in Budgets,
                      Evaluate(e, evidence, s).error = "none", ~ Evaluate(e, evidence, s).value.missing,
                      Evaluate(e, more, t).error = "none"
               PROVE  Evaluate(e, more, t).value = Evaluate(e, evidence, s).value
    BY DEF Settled
  <2> DEFINE r == Evaluate(e, evidence, s)
             q == Evaluate(e, more, t)
  <2>1. ASSUME NEW a, ValidEvidence(a), NEW u \in Budgets, Evaluate(e, a, u).error = "none"
        PROVE  u # 0 /\ u - 1 \in Budgets
    <3>1. CASE u = 0
      <4>1. Evaluate(e, a, u) = Stop("budget") /\ "budget" \in Errors /\ "budget" # "none"
        BY <2>1, <3>1, EvaluationsAreDefined DEF EvaluateExpression, Errors
      <4> QED BY <2>1, <4>1, StopType
    <3>2. CASE u # 0
      BY <3>2, LimitsAssumption DEF Budgets
    <3> QED BY <3>1, <3>2
  <2>2. s # 0 /\ t # 0 /\ s - 1 \in Budgets /\ t - 1 \in Budgets
    BY <1>2, <2>1
  <2>3. CASE e.node = "literal"
    <3>1. r = Got(Value(e.kind, e.value), s - 1) /\ q = Got(Value(e.kind, e.value), t - 1)
      BY <1>2, <2>2, <2>3, LeafUnfolds
    <3> QED BY <3>1 DEF Got
  <2>4. CASE e.node = "path"
    <3>1. r = EvaluatePath(e.path, evidence, s - 1) /\ q = EvaluatePath(e.path, more, t - 1)
      BY <1>2, <2>2, <2>4, LeafUnfolds
    <3>2. KindOf[e] \in Kinds
      BY <2>4, AcceptedPath
    <3>3. e.path \in DOMAIN evidence
      <4>1. SUFFICES ASSUME e.path \notin DOMAIN evidence PROVE FALSE
        OBVIOUS
      <4>2. r = GotMissing(KindOf[e], s - 1)
        BY <1>2, <2>2, <2>4, <3>1, <4>1, PathResult
      <4> HIDE DEF r
      <4>3. r.error = "none" => r.value.missing
        BY <2>2, <3>2, <4>2, GotMissingType
      <4> QED BY <4>3 DEF r
    <3>4. r = Got(Value(KindOf[e], evidence[e.path]), s - 1) /\ q = Got(Value(KindOf[e], more[e.path]), t - 1)
      BY <1>2, <2>2, <2>4, <3>1, <3>3, PathResult DEF Extended
    <3> QED BY <3>3, <3>4 DEF Got, Extended
  <2>5. CASE e.node = "operation"
    <3> DEFINE n == Len(e.operands)
    <3>1. n \in Nat /\ n \in 0 .. n /\ KindOf[e] \in Kinds
      BY <2>5, AcceptedOperation
    <3>2. e.operator # "exists" /\ \A i \in 1 .. n : ~ AsksExistence(e.operands[i])
      BY <1>3, <2>5, NothingAsksWithin, AcceptedOperation
    <3>3. \A i \in 1 .. n : e.operands[i] \in Accepted /\ Settled(e.operands[i], evidence, more)
      BY <1>3, <2>5, <3>2, AcceptedOperation
    <3>4. CASE e.operator = "if"
      <4> DEFINE c == Evaluate(e.operands[1], evidence, s - 1)
                 d == Evaluate(e.operands[1], more, t - 1)
                 b == IF c.value.value = 1 THEN 2 ELSE 3
                 x == Evaluate(e.operands[b], evidence, c.left)
                 y == Evaluate(e.operands[b], more, d.left)
      <4>1. n = 3
        BY <2>5, <3>4, AcceptedOperands
      <4>2. c \in Results /\ d \in Results /\ (c.error = "none" /\ ~ c.value.missing => d.error # "none" \/ d.value = c.value)
        <5>1. e.operands[1] \in Accepted /\ Settled(e.operands[1], evidence, more)
          BY <3>3, <4>1
        <5> QED BY <1>2, <2>2, <5>1, EvaluationsAreDefined DEF Settled
      <4>3. c.left \in Budgets /\ d.left \in Budgets
        BY <4>2 DEF Results
      <4>4. x.error = "none" /\ ~ x.value.missing => y.error # "none" \/ y.value = x.value
        BY <3>3, <4>1, <4>3 DEF Settled
      <4>5. r = IF c.error # "none" THEN c
                ELSE IF c.value.missing THEN GotMissing(KindOf[e], c.left)
                ELSE IF c.value.kind # "boolean" THEN Stop("type") ELSE x
        BY <1>2, <2>2, <2>5, <3>4, IfUnfolds
      <4>6. q = IF d.error # "none" THEN d
                ELSE IF d.value.missing THEN GotMissing(KindOf[e], d.left)
                ELSE IF d.value.kind # "boolean" THEN Stop("type")
                ELSE Evaluate(e.operands[IF d.value.value = 1 THEN 2 ELSE 3], more, d.left)
        BY <1>2, <2>2, <2>5, <3>4, IfUnfolds
      <4>7. r.error = "none" /\ ~ r.value.missing /\ q.error = "none"
        OBVIOUS
      <4>8. d.value = c.value => q = IF d.error # "none" THEN d
                ELSE IF d.value.missing THEN GotMissing(KindOf[e], d.left)
                ELSE IF d.value.kind # "boolean" THEN Stop("type") ELSE y
        BY <4>6
      <4> HIDE DEF c, d, b, x, y, r, q
      <4>9. GotMissing(KindOf[e], c.left).error = "none" => GotMissing(KindOf[e], c.left).value.missing
        BY <3>1, <4>3, GotMissingType
      <4>10. Stop("type").error # "none"
        BY StopType DEF Errors
      <4>11. c.error = "none" /\ ~ c.value.missing /\ c.value.kind = "boolean" /\ r = x
        BY <4>5, <4>7, <4>9, <4>10
      <4>12. d.error = "none" /\ d.value = c.value
        BY <4>2, <4>6, <4>7, <4>11
      <4>13. q = y
        BY <4>8, <4>11, <4>12
      <4> QED BY <4>4, <4>7, <4>11, <4>13 DEF r, q
    <3>5. CASE e.operator # "if"
      <4>1. PICK p : /\ Prefixes(e.operands, Evaluations(evidence), s - 1, p)
                     /\ r = IF p[n].error # "none" THEN Stop(p[n].error)
                            ELSE Apply(e, p[n].values, p[n].left)
        BY <1>2, <2>2, <2>5, <3>5, OperationUnfolds
      <4>2. PICK o : /\ Prefixes(e.operands, Evaluations(more), t - 1, o)
                     /\ q = IF o[n].error # "none" THEN Stop(o[n].error)
                            ELSE Apply(e, o[n].values, o[n].left)
        BY <1>2, <2>2, <2>5, <3>5, OperationUnfolds
      <4> DEFINE x == p[n]
                 y == o[n]
      <4>3. /\ x.values \in Seq(EvidenceValues) /\ x.left \in Budgets /\ x.error \in RuleErrors
            /\ x.error = "none" => Len(x.values) = n
        BY <1>2, <2>2, <2>5, <3>1, <4>1, PrefixStep
      <4>4. y.left \in Budgets /\ y.error \in RuleErrors
        BY <1>2, <2>2, <2>5, <3>1, <4>2, PrefixStep
      <4>5. x.error = "none" /\ ~ AnyMissing(x.values) => y.error # "none" \/ y.values = x.values
        BY <2>2, <2>5, <3>1, <3>3, <4>1, <4>2, OperandsAreSettled
      <4>6. /\ r = IF x.error # "none" THEN Stop(x.error) ELSE Apply(e, x.values, x.left)
            /\ q = IF y.error # "none" THEN Stop(y.error) ELSE Apply(e, y.values, y.left)
        BY <4>1, <4>2
      <4>7. r.error = "none" /\ ~ r.value.missing /\ q.error = "none"
        OBVIOUS
      <4> HIDE DEF x, y, r, q
      <4>8. \A z \in Errors : Stop(z).error # "none"
        BY StopType DEF Errors
      <4>9. x.error = "none" /\ y.error = "none"
        BY <4>3, <4>4, <4>6, <4>7, <4>8 DEF RuleErrors
      <4>10. r = Apply(e, x.values, x.left) /\ q = Apply(e, y.values, y.left)
        BY <4>6, <4>9
      <4>11. \/ /\ AnyMissing(x.values) /\ r = GotMissing(KindOf[e], x.left)
             \/ r = Stop("zero_denominator")
             \/ /\ ~ AnyMissing(x.values)
                /\ \E v \in EvidenceValues : \A u \in Budgets : Apply(e, x.values, u) = Got(v, u)
             \/ r = Stop("type")
        BY <2>5, <3>2, <3>5, <4>3, <4>9, <4>10, ApplyCases
      <4>12. GotMissing(KindOf[e], x.left).error = "none" => GotMissing(KindOf[e], x.left).value.missing
        BY <3>1, <4>3, GotMissingType
      <4>13. "zero_denominator" \in Errors /\ "type" \in Errors
        BY DEF Errors
      <4>14. /\ ~ AnyMissing(x.values)
             /\ \E v \in EvidenceValues : \A u \in Budgets : Apply(e, x.values, u) = Got(v, u)
        BY <4>7, <4>8, <4>11, <4>12, <4>13
      <4>15. PICK v \in EvidenceValues : \A u \in Budgets : Apply(e, x.values, u) = Got(v, u)
        BY <4>14
      <4>16. y.values = x.values
        BY <4>5, <4>9, <4>14
      <4>17. r = Got(v, x.left) /\ q = Got(v, y.left)
        BY <4>3, <4>4, <4>10, <4>15, <4>16
      <4>18. r.value = v /\ q.value = v
        BY <4>17 DEF Got
      <4> QED BY <4>18 DEF r, q
    <3> QED BY <3>4, <3>5
  <2> QED BY <2>3, <2>4, <2>5, AcceptedNode
<1>4. \A e \in Accepted : (\A x \in Accepted : h[x] < h[e] => x \in P) => e \in P
  BY <1>1, <1>3
<1>5. P \in SUBSET Accepted
  OBVIOUS
<1>6. P = Accepted
  <2> HIDE DEF P, h
  <2> QED BY <1>1, <1>4, <1>5, HeightInduction
<1> QED
  BY <1>6

-----------------------------------------------------------------------------
(* What holds along a ruleset.                                             *)
Statuses == {"MATCHED", "FAILED", "MISSING"}

NodesOf(r) == [i \in DOMAIN r.rules |-> CountNodes[r.rules[i].expression]]
AcceptedRule(r, i) == r.rules[i].expression \in Accepted /\ KindOf[r.rules[i].expression] = "boolean"
EvaluatedRule(r, i, status) ==
  \E s \in Budgets : LET result == Evaluate(r.rules[i].expression, r.evidence, s) IN
    result.error = "none" /\ status = Status(result.value)

Beginning == at = 1 /\ nodes = 0 /\ left = MaxSteps /\ statuses = <<>> /\ verdict = "none"
Parsing ==
  /\ asked.entry = "parsed" /\ left = MaxSteps /\ statuses = <<>> /\ verdict = "none"
  /\ nodes = SumUpTo(NodesOf(asked), at - 1)
  /\ \A i \in 1 .. at - 1 : AcceptedRule(asked, i)
Evaluating ==
  /\ verdict = "none" /\ Len(statuses) = at - 1
  /\ \A i \in 1 .. Len(asked.rules) : AcceptedRule(asked, i)
  /\ \A i \in 1 .. at - 1 : EvaluatedRule(asked, i, statuses[i])
  /\ asked.entry = "parsed" => /\ SumUpTo(NodesOf(asked), Len(asked.rules)) <= MaxSteps
                               /\ left >= MaxSteps - SumUpTo(NodesOf(asked), at - 1)
Answered ==
  /\ verdict \in Verdicts \cup (Errors \ {"type"})
  /\ verdict = "budget" => asked.entry # "parsed"
  /\ verdict \in Verdicts =>
       /\ verdict = Verdict(asked.rules, statuses, asked.threshold)
       /\ Len(statuses) = Len(asked.rules)
       /\ \A i \in 1 .. Len(asked.rules) : AcceptedRule(asked, i) /\ EvaluatedRule(asked, i, statuses[i])

RulesInv ==
  /\ asked \in Requests
  /\ statuses \in Seq(Statuses) /\ RulesTypeOK
  /\ stage = "begin" => Beginning
  /\ stage = "parse" => Parsing
  /\ stage = "evaluate" => Evaluating
  /\ stage = "done" => Answered

(* What a request is.                                                      *)
LEMMA RequestFacts ==
  ASSUME NEW r \in Requests
  PROVE  /\ r.entry \in {"parsed", "direct"} /\ r.threshold \in Nat
         /\ ValidEvidence(r.evidence)
         /\ Len(r.rules) \in Nat /\ DOMAIN r.rules = 1 .. Len(r.rules)
         /\ \A i \in 1 .. Len(r.rules) :
              /\ r.rules[i].expression \in Expressions /\ r.rules[i].weight \in Nat \ {0}
              /\ NodesOf(r)[i] = CountNodes[r.rules[i].expression] /\ NodesOf(r)[i] \in Nat
         /\ SumUpTo(NodesOf(r), 0) = 0
         /\ \A k \in 1 .. Len(r.rules) : SumUpTo(NodesOf(r), k) = SumUpTo(NodesOf(r), k - 1) + NodesOf(r)[k]
         /\ \A k \in 0 .. Len(r.rules) : /\ SumUpTo(NodesOf(r), k) \in Nat
                                         /\ SumUpTo(NodesOf(r), k) <= SumUpTo(NodesOf(r), Len(r.rules))
<1>1. ValidRequest(r)
  BY RequestsAssumption
<1>2. r.rules \in Seq([id: STRING, weight: Nat \ {0}, expression: Expressions])
  BY RequestsAssumption
<1>3. Len(r.rules) \in Nat /\ DOMAIN r.rules = 1 .. Len(r.rules)
  BY <1>2
<1>4. \A i \in 1 .. Len(r.rules) : r.rules[i] \in [id: STRING, weight: Nat \ {0}, expression: Expressions]
  <2> DEFINE R == [id: STRING, weight: Nat \ {0}, expression: Expressions]
  <2>1. r.rules \in Seq(R)
    BY <1>2
  <2> HIDE DEF R
  <2>2. \A i \in 1 .. Len(r.rules) : r.rules[i] \in R
    BY <2>1
  <2> QED BY <2>2 DEF R
<1>5. \A i \in 1 .. Len(r.rules) : r.rules[i].expression \in Expressions /\ r.rules[i].weight \in Nat \ {0}
  BY <1>4
<1>6. \A i \in 1 .. Len(r.rules) :
        NodesOf(r)[i] = CountNodes[r.rules[i].expression] /\ NodesOf(r)[i] \in Nat
  BY <1>3, <1>5, NodesAreCounted DEF NodesOf
<1>7. ValidEvidence(r.evidence) /\ r.entry \in {"parsed", "direct"} /\ r.threshold \in Nat
  <2>1. \A p \in DOMAIN Registry : Possible[p] \subseteq Int
    BY PossibleAssumption
  <2> QED BY <1>1, <2>1 DEF ValidRequest, ValidEvidence
<1> DEFINE c == NodesOf(r)
           n == Len(r.rules)
<1>8. n \in Nat /\ \A i \in 1 .. n : c[i] \in Nat
  BY <1>3, <1>6
<1> HIDE DEF c, n
<1>9. /\ SumUpTo(c, 0) = 0
      /\ \A k \in 1 .. n : SumUpTo(c, k) = SumUpTo(c, k - 1) + c[k]
      /\ \A k \in 0 .. n : SumUpTo(c, k) \in Nat /\ SumUpTo(c, k) <= SumUpTo(c, n)
  BY <1>8, PrefixSums
<1> QED
  BY <1>3, <1>5, <1>6, <1>7, <1>9 DEF c, n

(* The invariant holds of a request that was not begun.                    *)
LEMMA RulesInitially == RulesInit => RulesInv
<1> SUFFICES ASSUME RulesInit PROVE RulesInv
  OBVIOUS
<1>1. asked \in Requests /\ stage = "begin" /\ Beginning
  BY DEF RulesInit, Beginning
<1>2. Len(asked.rules) \in Nat /\ MaxSteps \in Nat /\ MaxRulesetNodes \in Nat
  BY <1>1, RequestFacts, LimitsAssumption
<1>3. statuses = <<>> /\ statuses \in Seq(Statuses) /\ Len(statuses) = 0 /\ Range(statuses) = {}
  BY <1>1 DEF Beginning, Range
<1>4. RulesTypeOK
  BY <1>1, <1>2, <1>3 DEF Beginning, RulesTypeOK
<1> QED
  BY <1>1, <1>3, <1>4 DEF RulesInv

(* A step that ends a ruleset with an error.                               *)
LEMMA EndedByError ==
  ASSUME RulesInv, NEW error \in Errors \ {"type"}, Done(error),
         error = "budget" => asked.entry # "parsed",
         UNCHANGED <<asked, at, nodes, left, statuses>>
  PROVE  RulesInv'
<1>1. stage' = "done" /\ verdict' = error
  BY DEF Done
<1>2. error \notin Verdicts
  BY DEF Errors, Verdicts
<1>3. Answered'
  BY <1>1, <1>2 DEF Answered
<1>4. RulesTypeOK'
  BY <1>1 DEF RulesInv, RulesTypeOK
<1> QED
  BY <1>1, <1>3, <1>4 DEF RulesInv

(* A ruleset that is not refused is parsed, or was well formed.            *)
LEMMA BeginKeeps == RulesInv /\ Begin => RulesInv'
<1> SUFFICES ASSUME RulesInv, Begin PROVE RulesInv'
  OBVIOUS
<1>1. /\ stage = "begin" /\ asked \in Requests /\ Beginning
      /\ UNCHANGED <<asked, at, nodes, left, statuses>>
  BY DEF Begin, RulesInv
<1>2. CASE Refused
  <2>1. Done("refused") /\ "refused" \in Errors \ {"type"}
    BY <1>2 DEF Begin, Errors
  <2> QED BY <1>1, <2>1, EndedByError
<1>3. CASE ~ Refused
  <2>1. stage' = (IF asked.entry = "parsed" THEN "parse" ELSE "evaluate") /\ verdict' = verdict
    BY <1>3 DEF Begin
  <2>2. RulesTypeOK' /\ statuses' \in Seq(Statuses)
    BY <1>1, <2>1 DEF RulesInv, RulesTypeOK
  <2>3. Len(asked.rules) \in Nat /\ DOMAIN asked.rules = 1 .. Len(asked.rules)
        /\ asked.entry \in {"parsed", "direct"} /\ SumUpTo(NodesOf(asked), 0) = 0
    BY <1>1, RequestFacts
  <2>4. CASE asked.entry = "parsed"
    <3>1. Parsing'
      BY <1>1, <2>1, <2>3, <2>4 DEF Beginning, Parsing
    <3> QED BY <1>1, <2>1, <2>2, <2>4, <3>1 DEF RulesInv
  <2>5. CASE asked.entry = "direct"
    <3>1. \A i \in 1 .. Len(asked.rules) :
            asked.rules[i].expression \in Expressions /\ KindOf[asked.rules[i].expression] = "boolean"
      BY <1>1, <1>3, <2>3, <2>5, RequestFacts DEF Refused
    <3>2. \A i \in 1 .. Len(asked.rules) : AcceptedRule(asked, i)
      BY <3>1 DEF AcceptedRule, Accepted
    <3>3. Evaluating'
      BY <1>1, <2>1, <2>3, <2>5, <3>2 DEF Beginning, Evaluating
    <3> QED BY <1>1, <2>1, <2>2, <2>5, <3>3 DEF RulesInv
  <2> QED BY <2>3, <2>4, <2>5
<1> QED
  BY <1>2, <1>3

(* A rule that is parsed is accepted, and its nodes are counted.           *)
LEMMA ParseRuleKeeps == RulesInv /\ ParseRule => RulesInv'
<1> SUFFICES ASSUME RulesInv, ParseRule PROVE RulesInv'
  OBVIOUS
<1> DEFINE e == asked.rules[at].expression
           fits == RawFits(e) /\ OperandsFit(e) /\ Fits(e) /\ KindOf[e] = "boolean" /\ NodesAfter(e) <= MaxRulesetNodes
<1>1. /\ stage = "parse" /\ at <= Len(asked.rules) /\ asked \in Requests /\ Parsing
      /\ UNCHANGED <<asked, left, statuses>>
  BY DEF ParseRule, RulesInv
<1>2. /\ Len(asked.rules) \in Nat /\ at \in 1 .. Len(asked.rules) /\ nodes \in Nat /\ MaxRulesetNodes \in Nat
  BY <1>1, RequestFacts, LimitsAssumption DEF RulesInv, RulesTypeOK
<1>3. e \in Expressions /\ CountNodes[e] = NodesOf(asked)[at] /\ CountNodes[e] \in Nat
  BY <1>1, <1>2, RequestFacts
<1>4. CASE ~ fits
  <2>1. Done("refused") /\ UNCHANGED <<asked, at, nodes, left, statuses>>
    BY <1>1, <1>4 DEF ParseRule
  <2> QED BY <2>1, EndedByError DEF Errors
<1>5. CASE fits
  <2>1. nodes' = nodes + CountNodes[e] /\ at' = at + 1 /\ stage' = stage /\ verdict' = verdict
    BY <1>5 DEF ParseRule, NodesAfter
  <2>2. KindOf[e] = "boolean" /\ nodes + CountNodes[e] <= MaxRulesetNodes
    BY <1>5 DEF NodesAfter
  <2> HIDE DEF fits
  <2>3. AcceptedRule(asked, at)
    BY <1>3, <2>2 DEF AcceptedRule, Accepted
  <2>4. SumUpTo(NodesOf(asked), at) = SumUpTo(NodesOf(asked), at - 1) + CountNodes[e]
    BY <1>1, <1>2, <1>3, RequestFacts
  <2>5. at' - 1 = at /\ at' \in 1 .. Len(asked.rules) + 1 /\ nodes' \in 0 .. MaxRulesetNodes
    BY <1>2, <1>3, <2>1, <2>2
  <2>6. nodes' = SumUpTo(NodesOf(asked), at' - 1)
    BY <1>1, <2>1, <2>4, <2>5 DEF Parsing
  <2>7. \A i \in 1 .. at' - 1 : AcceptedRule(asked, i)
    <3>1. \A i \in 1 .. at : i = at \/ i \in 1 .. at - 1
      BY <1>2
    <3> QED BY <1>1, <2>3, <2>5, <3>1 DEF Parsing
  <2>8. Parsing'
    BY <1>1, <2>1, <2>6, <2>7 DEF Parsing
  <2>9. RulesTypeOK'
    BY <1>1, <2>1, <2>5 DEF RulesInv, RulesTypeOK
  <2> QED BY <1>1, <2>1, <2>8, <2>9 DEF RulesInv
<1> QED
  BY <1>4, <1>5

(* The nodes that were counted are within the steps.                       *)
LEMMA ParsedKeeps == RulesInv /\ Parsed => RulesInv'
<1> SUFFICES ASSUME RulesInv, Parsed PROVE RulesInv'
  OBVIOUS
<1>1. /\ stage = "parse" /\ at > Len(asked.rules) /\ asked \in Requests /\ Parsing
      /\ UNCHANGED <<asked, nodes, left, statuses>>
  BY DEF Parsed, RulesInv
<1>2. Len(asked.rules) \in Nat /\ at = Len(asked.rules) + 1 /\ at - 1 = Len(asked.rules)
  <2>1. Len(asked.rules) \in Nat
    BY <1>1, RequestFacts
  <2>2. at \in 1 .. Len(asked.rules) + 1
    BY DEF RulesInv, RulesTypeOK
  <2> QED BY <1>1, <2>1, <2>2
<1>3. SumUpTo(NodesOf(asked), 0) = 0 /\ MaxSteps \in Nat /\ MaxRulesetNodes \in Nat
  BY <1>1, RequestFacts, LimitsAssumption
<1>4. SumUpTo(NodesOf(asked), Len(asked.rules)) <= MaxSteps
  BY <1>1, <1>2, <1>3, LimitsAssumption DEF RulesInv, RulesTypeOK, Parsing
<1>5. \A i \in 1 .. Len(asked.rules) : AcceptedRule(asked, i)
  BY <1>1, <1>2 DEF Parsing
<1>6. statuses = <<>> /\ left = MaxSteps /\ verdict = "none"
  BY <1>1 DEF Parsing
<1>7. CASE ~ UniqueIds(asked.rules)
  <2>1. Done("refused") /\ at' = at /\ "refused" \in Errors \ {"type"}
    BY <1>7 DEF Parsed, Errors
  <2> QED BY <1>1, <2>1, EndedByError
<1>8. CASE UniqueIds(asked.rules)
  <2>1. stage' = "evaluate" /\ at' = 1 /\ verdict' = verdict
    BY <1>8 DEF Parsed
  <2>2. Evaluating'
    BY <1>1, <1>3, <1>4, <1>5, <1>6, <2>1 DEF Evaluating
  <2>3. RulesTypeOK'
    BY <1>1, <1>2, <2>1 DEF RulesInv, RulesTypeOK
  <2> QED BY <1>1, <2>1, <2>2, <2>3 DEF RulesInv
<1> QED
  BY <1>7, <1>8

(* A rule that is evaluated has its status, and paid for its nodes.        *)
LEMMA EvaluateRuleKeeps == RulesInv /\ EvaluateRule => RulesInv'
<1> SUFFICES ASSUME RulesInv, EvaluateRule PROVE RulesInv'
  OBVIOUS
<1> DEFINE e == asked.rules[at].expression
           r == Evaluate(e, asked.evidence, left)
           c == NodesOf(asked)
           n == Len(asked.rules)
<1>1. /\ stage = "evaluate" /\ at <= n /\ asked \in Requests /\ Evaluating
      /\ UNCHANGED <<asked, nodes>>
  BY DEF EvaluateRule, RulesInv
<1>2. /\ n \in Nat /\ at \in 1 .. n /\ left \in Budgets /\ left \in Nat /\ MaxSteps \in Nat
      /\ statuses \in Seq(Statuses) /\ Len(statuses) = at - 1
  BY <1>1, RequestFacts, BudgetsType DEF RulesInv, RulesTypeOK, Evaluating, Budgets
<1>3. /\ e \in Accepted /\ c[at] = CountNodes[e] /\ c[at] \in Nat
      /\ ValidEvidence(asked.evidence)
  BY <1>1, <1>2, RequestFacts DEF Evaluating, AcceptedRule
<1>4. r \in Results /\ r.error # "type" /\ ErrorOf(r) = r.error
      /\ (left >= CountNodes[e] => r.error # "budget" /\ (r.error = "none" => r.left >= left - CountNodes[e]))
  <2>1. KindOf[e] = "boolean"
    BY <1>1, <1>2 DEF Evaluating, AcceptedRule
  <2>2. r \in Results /\ r.error # "type" /\ (r.error = "none" => r.value.kind = KindOf[e])
        /\ (left >= CountNodes[e] => r.error # "budget" /\ (r.error = "none" => r.left >= left - CountNodes[e]))
    BY <1>2, <1>3, EvaluationsAreDefined, AcceptedIsTyped, AcceptedIsAffordable DEF Typed, Affordable
  <2> QED BY <2>1, <2>2 DEF ErrorOf
<1>5. r.error \in RuleErrors /\ r.left \in Budgets /\ r.left \in Nat
  BY <1>4, BudgetsType DEF Results
<1>6. /\ SumUpTo(c, at) = SumUpTo(c, at - 1) + c[at]
      /\ SumUpTo(c, at) \in Nat /\ SumUpTo(c, at - 1) \in Nat /\ SumUpTo(c, n) \in Nat
      /\ SumUpTo(c, at) <= SumUpTo(c, n)
  <2>1. at \in 0 .. n /\ at - 1 \in 0 .. n /\ n \in 0 .. n
    BY <1>2
  <2> QED BY <1>1, <1>2, <2>1, RequestFacts
<1>7. asked.entry = "parsed" => SumUpTo(c, n) <= MaxSteps /\ left >= MaxSteps - SumUpTo(c, at - 1)
  BY <1>1 DEF Evaluating
<1>8. /\ r.error # "none" => Done(r.error) /\ UNCHANGED <<asked, at, nodes, left, statuses>>
      /\ r.error = "none" => /\ statuses' = Append(statuses, Status(r.value))
                             /\ at' = at + 1 /\ left' = r.left /\ stage' = stage /\ verdict' = verdict
  BY <1>4 DEF EvaluateRule
<1>9. EvaluatedRule(asked, at, Status(r.value)) \/ r.error # "none"
  BY <1>2 DEF EvaluatedRule
<1> HIDE DEF c, n, r
<1>10. asked.entry = "parsed" => left >= CountNodes[e]
  BY <1>2, <1>3, <1>6, <1>7
<1>11. CASE r.error # "none"
  <2>1. r.error \in Errors \ {"type"}
    BY <1>4, <1>5, <1>11 DEF RuleErrors
  <2>2. r.error = "budget" => asked.entry # "parsed"
    BY <1>4, <1>10
  <2> QED BY <1>8, <1>11, <2>1, <2>2, EndedByError
<1>12. CASE r.error = "none"
  <2>1. /\ statuses' = Append(statuses, Status(r.value))
        /\ at' = at + 1 /\ left' = r.left /\ stage' = stage /\ verdict' = verdict /\ asked' = asked
    BY <1>1, <1>8, <1>12
  <2>2. Status(r.value) \in Statuses
    BY DEF Status, Statuses
  <2>3. /\ statuses' \in Seq(Statuses) /\ Len(statuses') = at
        /\ \A i \in 1 .. at : statuses'[i] = IF i = at THEN Status(r.value) ELSE statuses[i]
    BY <1>2, <2>1, <2>2
  <2>4. at' - 1 = at /\ at' \in 1 .. n + 1
    BY <1>2, <2>1
  <2>5. asked.entry = "parsed" => left' >= MaxSteps - SumUpTo(c, at)
    <3>1. asked.entry = "parsed" => r.left >= left - c[at]
      BY <1>3, <1>4, <1>10, <1>12
    <3>2. \A x, y, z, m, u, v \in Int : x >= y - z /\ y >= m - u /\ v = u + z => x >= m - v
      OBVIOUS
    <3>3. left \in Int /\ r.left \in Int /\ c[at] \in Int /\ MaxSteps \in Int
          /\ SumUpTo(c, at - 1) \in Int /\ SumUpTo(c, at) \in Int
      BY <1>2, <1>3, <1>5, <1>6
    <3>4. asked.entry = "parsed" => r.left >= MaxSteps - SumUpTo(c, at)
      BY <1>6, <1>7, <3>1, <3>2, <3>3
    <3> QED BY <2>1, <3>4
  <2>6. \A i \in 1 .. at : EvaluatedRule(asked, i, statuses'[i])
    <3>1. \A i \in 1 .. at : i = at \/ i \in 1 .. at - 1
      BY <1>2
    <3>2. \A i \in 1 .. at - 1 : EvaluatedRule(asked, i, statuses[i])
      BY <1>1 DEF Evaluating
    <3> QED BY <1>9, <1>12, <2>3, <3>1, <3>2
  <2>7. Evaluating'
    <3>1. verdict' = "none" /\ Len(statuses') = at' - 1
      BY <1>1, <2>1, <2>3, <2>4 DEF Evaluating
    <3>2. \A i \in 1 .. Len(asked'.rules) : AcceptedRule(asked', i)
      BY <1>1, <2>1 DEF Evaluating
    <3>3. \A i \in 1 .. at' - 1 : EvaluatedRule(asked', i, statuses'[i])
      BY <2>1, <2>4, <2>6
    <3>4. asked'.entry = "parsed" => /\ SumUpTo(NodesOf(asked'), Len(asked'.rules)) <= MaxSteps
                                     /\ left' >= MaxSteps - SumUpTo(NodesOf(asked'), at' - 1)
      BY <1>7, <2>1, <2>4, <2>5 DEF c, n
    <3> QED BY <3>1, <3>2, <3>3, <3>4 DEF Evaluating
  <2>8. RulesTypeOK'
    <3>1. stage' = "evaluate" /\ nodes' = nodes /\ left' \in 0 .. MaxSteps /\ verdict' = "none"
      BY <1>1, <1>5, <2>1 DEF Evaluating, Budgets
    <3>2. at' \in 1 .. Len(asked'.rules) + 1 /\ Len(statuses') < Len(asked'.rules) + 1
      BY <1>2, <2>1, <2>3, <2>4 DEF n
    <3>3. Range(statuses') \subseteq {"MATCHED", "FAILED", "MISSING"}
      BY <2>3 DEF Range, Statuses
    <3> QED BY <3>1, <3>2, <3>3 DEF RulesInv, RulesTypeOK
  <2> QED BY <1>1, <2>1, <2>3, <2>7, <2>8 DEF RulesInv
<1> QED
  BY <1>11, <1>12

(* The verdict is that of the statuses of all rules.                       *)
LEMMA DecideKeeps == RulesInv /\ Decide => RulesInv'
<1> SUFFICES ASSUME RulesInv, Decide PROVE RulesInv'
  OBVIOUS
<1>1. /\ stage = "evaluate" /\ at > Len(asked.rules) /\ asked \in Requests /\ Evaluating
      /\ stage' = "done" /\ verdict' = Verdict(asked.rules, statuses, asked.threshold)
      /\ UNCHANGED <<asked, at, nodes, left, statuses>>
  BY DEF Decide, Done, RulesInv
<1>2. Len(asked.rules) \in Nat /\ at - 1 = Len(asked.rules)
  BY <1>1, RequestFacts DEF RulesInv, RulesTypeOK
<1>3. verdict' \in Verdicts /\ verdict' # "budget"
  <2>1. verdict' \in {"MATCHED", "INSUFFICIENT", "FAILED"}
    BY <1>1 DEF Verdict
  <2> QED BY <2>1 DEF Verdicts
<1>4. /\ Len(statuses) = Len(asked.rules)
      /\ \A i \in 1 .. Len(asked.rules) : AcceptedRule(asked, i) /\ EvaluatedRule(asked, i, statuses[i])
  BY <1>1, <1>2 DEF Evaluating
<1>5. Answered'
  BY <1>1, <1>3, <1>4 DEF Answered
<1>6. RulesTypeOK'
  BY <1>1, <1>3 DEF RulesInv, RulesTypeOK
<1> QED
  BY <1>1, <1>5, <1>6 DEF RulesInv

(* The invariant is inductive.                                             *)
LEMMA RulesKeep == RulesInv /\ [RulesNext]_ruleVars => RulesInv'
<1>1. RulesInv /\ UNCHANGED ruleVars => RulesInv'
  BY DEF ruleVars, RulesInv, RulesTypeOK, Beginning, Parsing, Evaluating, Answered
<1> QED
  BY <1>1, BeginKeeps, ParseRuleKeeps, ParsedKeeps, EvaluateRuleKeeps, DecideKeeps DEF RulesNext

(* The invariant holds throughout.                                         *)
LEMMA RulesAlways == RulesSpec => []RulesInv
BY RulesInitially, RulesKeep, PTL DEF RulesSpec

(* A score, as a sum over the rules.                                       *)
Counted(rules, ss, set) == [i \in DOMAIN ss |-> IF ss[i] \in set THEN rules[i].weight ELSE 0]

(* The statuses come to agree with those that were not missing.            *)
Resolved(n, ss, new) ==
  /\ DOMAIN ss = 1 .. n /\ \A i \in 1 .. n : ss[i] \in Statuses
  /\ DOMAIN new = 1 .. n /\ \A i \in 1 .. n : new[i] \in Statuses
  /\ \A i \in 1 .. n : ss[i] # "MISSING" => new[i] = ss[i]

(* Statuses that agree where nothing was missing agree on a decision.      *)
LEMMA MissingStatusesNeverDecide ==
  ASSUME NEW rules, NEW n \in Nat, \A i \in 1 .. n : rules[i].weight \in Nat,
         NEW ss, NEW new, Resolved(n, ss, new),
         NEW threshold \in Nat, Verdict(rules, ss, threshold) \in {"MATCHED", "FAILED"}
  PROVE  Verdict(rules, new, threshold) = Verdict(rules, ss, threshold)
<1> USE DEF Resolved
<1> DEFINE M == {"MATCHED"}
           Q == {"MISSING"}
           B == {"MATCHED", "MISSING"}
<1>1. IsFiniteSet(1 .. n)
  BY FS_Interval
<1>2. ASSUME NEW x, DOMAIN x = 1 .. n, \A i \in 1 .. n : x[i] \in Statuses
      PROVE  /\ Score(rules, x, "MATCHED") = SumFunctionOnSet(Counted(rules, x, M), 1 .. n)
             /\ Score(rules, x, "MISSING") = SumFunctionOnSet(Counted(rules, x, Q), 1 .. n)
             /\ Score(rules, x, "MATCHED") \in Nat /\ Score(rules, x, "MISSING") \in Nat
             /\ SumFunctionOnSet(Counted(rules, x, B), 1 .. n)
                  = Score(rules, x, "MATCHED") + Score(rules, x, "MISSING")
  <2>1. /\ Counted(rules, x, M) = [i \in DOMAIN x |-> IF x[i] = "MATCHED" THEN rules[i].weight ELSE 0]
        /\ Counted(rules, x, Q) = [i \in DOMAIN x |-> IF x[i] = "MISSING" THEN rules[i].weight ELSE 0]
    BY DEF Counted
  <2>2. /\ DOMAIN Counted(rules, x, M) = 1 .. n
        /\ DOMAIN Counted(rules, x, Q) = 1 .. n
    BY <1>2 DEF Counted
  <2>3. /\ Score(rules, x, "MATCHED") = SumFunctionOnSet(Counted(rules, x, M), 1 .. n)
        /\ Score(rules, x, "MISSING") = SumFunctionOnSet(Counted(rules, x, Q), 1 .. n)
    BY <2>1, <2>2 DEF Score, Total, SumFunction
  <2>4. \A i \in 1 .. n :
          /\ Counted(rules, x, M)[i] \in Nat /\ Counted(rules, x, Q)[i] \in Nat
          /\ Counted(rules, x, B)[i] = Counted(rules, x, M)[i] + Counted(rules, x, Q)[i]
    BY <1>2 DEF Counted
  <2>5. /\ SumFunctionOnSet(Counted(rules, x, M), 1 .. n) \in Nat
        /\ SumFunctionOnSet(Counted(rules, x, Q), 1 .. n) \in Nat
    BY <1>1, <2>4, SumOfNaturals
  <2>6. SumFunctionOnSet(Counted(rules, x, B), 1 .. n) =
          SumFunctionOnSet(Counted(rules, x, M), 1 .. n) + SumFunctionOnSet(Counted(rules, x, Q), 1 .. n)
    <3>1. \A i \in 1 .. n :
            /\ Counted(rules, x, M)[i] \in Int /\ Counted(rules, x, Q)[i] \in Int
            /\ Counted(rules, x, B)[i] = Counted(rules, x, M)[i] + Counted(rules, x, Q)[i]
      BY <2>4
    <3> DEFINE f == Counted(rules, x, M)
               g == Counted(rules, x, Q)
               k == Counted(rules, x, B)
    <3>2. AddUp(1 .. n, f, g, k)
      BY <3>1 DEF AddUp
    <3> HIDE DEF f, g, k
    <3>3. SumFunctionOnSet(k, 1 .. n) = SumFunctionOnSet(f, 1 .. n) + SumFunctionOnSet(g, 1 .. n)
      BY <1>1, <3>2, SumsAdd
    <3> QED BY <3>3 DEF f, g, k
  <2> QED BY <2>3, <2>5, <2>6
<1>3. Score(rules, ss, "MATCHED") <= Score(rules, new, "MATCHED")
  <2>1. \A i \in 1 .. n :
          /\ Counted(rules, ss, M)[i] \in Int /\ Counted(rules, new, M)[i] \in Int
          /\ Counted(rules, ss, M)[i] <= Counted(rules, new, M)[i]
    BY DEF Counted
  <2> DEFINE f == Counted(rules, ss, M)
             g == Counted(rules, new, M)
  <2>2. \A i \in 1 .. n : f[i] \in Int /\ g[i] \in Int /\ f[i] <= g[i]
    BY <2>1
  <2> HIDE DEF f, g
  <2>3. SumFunctionOnSet(f, 1 .. n) <= SumFunctionOnSet(g, 1 .. n)
    BY <1>1, <2>2, SumGrows
  <2>4. /\ Score(rules, ss, "MATCHED") = SumFunctionOnSet(f, 1 .. n)
        /\ Score(rules, new, "MATCHED") = SumFunctionOnSet(g, 1 .. n)
    BY <1>2 DEF f, g
  <2> QED BY <2>3, <2>4
<1>4. SumFunctionOnSet(Counted(rules, new, B), 1 .. n) <= SumFunctionOnSet(Counted(rules, ss, B), 1 .. n)
  <2>1. \A i \in 1 .. n :
          /\ Counted(rules, new, B)[i] \in Int /\ Counted(rules, ss, B)[i] \in Int
          /\ Counted(rules, new, B)[i] <= Counted(rules, ss, B)[i]
    BY DEF Counted, Statuses
  <2> QED BY <1>1, <2>1, SumGrows
<1> DEFINE a == Score(rules, ss, "MATCHED")
           b == Score(rules, ss, "MISSING")
           c == Score(rules, new, "MATCHED")
           d == Score(rules, new, "MISSING")
<1>5. a \in Nat /\ b \in Nat /\ c \in Nat /\ d \in Nat /\ a <= c /\ c + d <= a + b
  BY <1>2, <1>3, <1>4
<1>6. /\ Verdict(rules, ss, threshold) = IF a >= threshold THEN "MATCHED"
           ELSE IF a + b >= threshold THEN "INSUFFICIENT" ELSE "FAILED"
      /\ Verdict(rules, new, threshold) = IF c >= threshold THEN "MATCHED"
           ELSE IF c + d >= threshold THEN "INSUFFICIENT" ELSE "FAILED"
  BY DEF Verdict
<1> HIDE DEF a, b, c, d
<1> QED
  BY <1>5, <1>6

(* A verdict of the invariant's is final: what was not missing is settled, *)
(* and what was missing counts for neither verdict.                        *)
LEMMA VerdictIsFinal == RulesInv => MissingEvidenceNeverTurnsAVerdict
<1> DEFINE rules == asked.rules
           n == Len(rules)
<1> SUFFICES ASSUME RulesInv, verdict \in {"MATCHED", "FAILED"},
                    \A i \in DOMAIN rules : ~ AsksExistence(rules[i].expression),
                    NEW evidence \in Completions(asked.evidence),
                    \A i \in DOMAIN rules : ErrorOf(Evaluate(rules[i].expression, evidence, MaxSteps)) = "none"
             PROVE  Verdict(rules, [i \in DOMAIN rules |-> Status(Evaluate(rules[i].expression, evidence, MaxSteps).value)],
                            asked.threshold) = verdict
  BY DEF MissingEvidenceNeverTurnsAVerdict
<1> DEFINE later(i) == Evaluate(rules[i].expression, evidence, MaxSteps)
           new == [i \in DOMAIN rules |-> Status(later(i).value)]
<1>1. /\ asked \in Requests /\ stage = "done" /\ Answered /\ statuses \in Seq(Statuses)
  <2>1. verdict # "none" /\ stage \in {"begin", "parse", "evaluate", "done"}
    BY DEF RulesInv, RulesTypeOK
  <2> QED BY <2>1 DEF RulesInv, Beginning, Parsing, Evaluating
<1>2. /\ verdict = Verdict(rules, statuses, asked.threshold) /\ Len(statuses) = n
      /\ \A i \in 1 .. n : AcceptedRule(asked, i) /\ EvaluatedRule(asked, i, statuses[i])
  BY <1>1 DEF Answered, Verdicts
<1>3. /\ n \in Nat /\ DOMAIN rules = 1 .. n /\ ValidEvidence(asked.evidence) /\ asked.threshold \in Nat
      /\ \A i \in 1 .. n : rules[i].weight \in Nat
  BY <1>1, RequestFacts
<1>4. Extended(asked.evidence, evidence)
  <2>1. PICK ps \in SUBSET DOMAIN Registry : evidence \in [ps -> UNION Range(Possible)]
    BY DEF Completions, Evidences
  <2>2. \A p \in DOMAIN evidence : p \in DOMAIN Registry /\ evidence[p] \in Possible[p]
    BY <2>1 DEF Completions, Evidences
  <2>3. \A p \in DOMAIN Registry : Possible[p] \subseteq Int
    BY PossibleAssumption
  <2>4. ValidEvidence(evidence)
    BY <2>2, <2>3 DEF ValidEvidence
  <2>5. /\ DOMAIN asked.evidence \subseteq DOMAIN evidence
        /\ \A p \in DOMAIN asked.evidence : evidence[p] = asked.evidence[p]
    BY DEF Completions
  <2> QED BY <1>3, <2>4, <2>5 DEF Extended
<1>5. MaxSteps \in Budgets
  BY LimitsAssumption DEF Budgets
<1>6. DOMAIN statuses = 1 .. n /\ \A i \in 1 .. n : statuses[i] \in Statuses
  BY <1>1, <1>2
<1>7. DOMAIN new = 1 .. n /\ \A i \in 1 .. n : new[i] \in Statuses /\ new[i] = Status(later(i).value)
  BY <1>3 DEF Status, Statuses
<1>8. ASSUME NEW i \in 1 .. n, statuses[i] # "MISSING" PROVE new[i] = statuses[i]
  <2> DEFINE e == rules[i].expression
  <2>1. PICK s \in Budgets : /\ Evaluate(e, asked.evidence, s).error = "none"
                             /\ statuses[i] = Status(Evaluate(e, asked.evidence, s).value)
    BY <1>2 DEF EvaluatedRule
  <2>2. ~ Evaluate(e, asked.evidence, s).value.missing
    BY <1>8, <2>1 DEF Status
  <2>3. e \in Accepted /\ ~ AsksExistence(e) /\ later(i).error = "none"
    BY <1>2, <1>3 DEF AcceptedRule, ErrorOf
  <2>4. Settled(e, asked.evidence, evidence)
    BY <1>4, <2>3, AcceptedIsSettled
  <2>5. later(i).value = Evaluate(e, asked.evidence, s).value
    BY <1>5, <2>1, <2>2, <2>3, <2>4 DEF Settled
  <2> QED BY <1>7, <2>1, <2>5
<1> DEFINE threshold == asked.threshold
<1> HIDE DEF new, later, rules, n, threshold
<1>9. Verdict(rules, new, threshold) = Verdict(rules, statuses, threshold)
  <2>1. \A i \in 1 .. n : new[i] \in Statuses
    BY <1>7
  <2>2. \A i \in 1 .. n : statuses[i] # "MISSING" => new[i] = statuses[i]
    BY <1>8
  <2>3. n \in Nat /\ threshold \in Nat /\ \A i \in 1 .. n : rules[i].weight \in Nat
    BY <1>3 DEF threshold
  <2>4. Verdict(rules, statuses, threshold) \in {"MATCHED", "FAILED"}
    BY <1>2 DEF threshold
  <2>5. DOMAIN new = 1 .. n
    BY <1>7
  <2>6. Resolved(n, statuses, new)
    BY <1>6, <2>1, <2>2, <2>5 DEF Resolved
  <2> QED BY <2>3, <2>4, <2>6, MissingStatusesNeverDecide
<1> QED
  BY <1>2, <1>9 DEF new, later, threshold

-----------------------------------------------------------------------------
(* The state of a ruleset has its type: the statuses are as many as the    *)
(* rules evaluated, and the nodes and the steps within their limits.       *)
THEOREM RulesTypes == RulesSpec => []RulesTypeOK
<1>1. RulesInv => RulesTypeOK
  BY DEF RulesInv
<1> QED
  BY <1>1, RulesAlways, PTL

(* parse_expression types what it accepts well enough for the evaluator:   *)
(* _evaluate_operation never meets operands of a kind that it raises on,   *)
(* and every rule is missing or a Boolean at the end, whatever the         *)
(* evidence and however deep the expression.                               *)
THEOREM RulesAreWellTyped == RulesSpec => []WellTypedEvaluation
<1>1. RulesInv => WellTypedEvaluation
  <2> SUFFICES ASSUME RulesInv PROVE verdict # "type"
    BY DEF WellTypedEvaluation
  <2>1. "type" \notin Verdicts
    BY DEF Verdicts
  <2> QED BY <2>1 DEF RulesInv, RulesTypeOK, Beginning, Parsing, Evaluating, Answered
<1> QED
  BY <1>1, RulesAlways, PTL

(* A ruleset that parse_rules accepts never exhausts the step budget of    *)
(* evaluate_ruleset: its rules have at most MAX_RULESET_AST_NODES nodes    *)
(* together, and every node costs at most one step.                        *)
THEOREM RulesFitTheBudget == RulesSpec => []ParsedRulesFitTheBudget
<1>1. RulesInv => ParsedRulesFitTheBudget
  BY DEF RulesInv, RulesTypeOK, Beginning, Parsing, Evaluating, Answered, ParsedRulesFitTheBudget
<1> QED
  BY <1>1, RulesAlways, PTL

(* Evidence that was missing when evaluate_ruleset matched or failed a     *)
(* ruleset cannot turn the verdict once it is known, unless a rule asks    *)
(* whether evidence exists. Possible is any set of values per path, all    *)
(* the decimals, instants and texts there are among them.                  *)
THEOREM RulesAreFinal == RulesSpec => []MissingEvidenceNeverTurnsAVerdict
BY VerdictIsFinal, RulesAlways, PTL
=============================================================================
