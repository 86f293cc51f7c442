--------------------------- MODULE RuleEvaluation ---------------------------
(***************************************************************************)
(* The rule language: parse_rules types a ruleset and bounds its size, and *)
(* evaluate_ruleset folds its rules over one set of evidence, from which   *)
(* paths may be missing, into a verdict against a threshold.               *)
(*                                                                         *)
(* A value is an integer: a Boolean is 0 or 1, a decimal counts units, a   *)
(* datetime is its instant, and texts are numbered. Limits on bytes and    *)
(* digits are left out.                                                    *)
(***************************************************************************)
EXTENDS Integers, Sequences, FiniteSets, Functions

CONSTANTS Expressions,      \* the expressions asked for, and their operands
          Height,           \* how far an expression is from its leaves
          Registry,         \* the kind of each registered path
          Possible,         \* the values that evidence on each path may have
          Contained,        \* the pairs of texts of which one is in the other
          Requests,         \* what callers ask: entry, rules, evidence, threshold, protected
          MaxDepth,         \* MAX_EXPRESSION_DEPTH
          MaxNodes,         \* MAX_AST_NODES
          MaxOperands,      \* the operands an operator may have in transport
          MaxRawDepth,      \* MAX_RAW_TRANSPORT_DEPTH
          MaxRawNodes,      \* MAX_RAW_TRANSPORT_NODES
          MaxRulesetRules,  \* MAX_RULESET_RULES
          MaxRulesetNodes,  \* MAX_RULESET_AST_NODES
          MaxSteps          \* MAX_EVALUATION_STEPS

Kinds == {"boolean", "decimal", "datetime", "string", "null"}
Verdicts == {"MATCHED", "INSUFFICIENT", "FAILED"}
Errors == {"refused", "budget", "zero_denominator", "untyped_missing", "type"}

(* An expression is a tree of frozen nodes: it is higher than its operands. *)
WellFormed(e) ==
  \/ e.node = "literal" /\ e.kind \in Kinds /\ e.value \in Int
  \/ e.node = "path"
  \/ /\ e.node = "operation"
     /\ e.operands \in Seq(Expressions)
     /\ \A i \in DOMAIN e.operands : Height[e.operands[i]] < Height[e]

(* Everything that may be known: a value each on some registered paths.    *)
Evidences ==
  {known \in UNION {[ps -> UNION Range(Possible)] : ps \in SUBSET DOMAIN Registry} :
     \A p \in DOMAIN known : known[p] \in Possible[p]}

(* RuleInput, Rule and evaluate_ruleset check what they are given.         *)
ValidRequest(r) ==
  /\ r.entry \in {"parsed", "direct"} /\ r.protected \in BOOLEAN /\ r.threshold \in Nat
  /\ r.evidence \in [DOMAIN r.evidence -> Int] /\ DOMAIN r.evidence \subseteq DOMAIN Registry
  /\ \A p \in DOMAIN r.evidence : r.evidence[p] \in Possible[p]

ASSUME ExpressionsAssumption ==
  Height \in [Expressions -> Nat] /\ \A e \in Expressions : WellFormed(e)
ASSUME RequestsAssumption ==
  LET rules == Seq([id: STRING, weight: Nat \ {0}, expression: Expressions])
  IN \A r \in Requests : ValidRequest(r) /\ r.rules \in rules
ASSUME RegistryAssumption == \A p \in DOMAIN Registry : Registry[p] \in Kinds \ {"null"}
ASSUME PossibleAssumption ==
  /\ Possible \in [DOMAIN Registry -> SUBSET Int]
  /\ \A p \in DOMAIN Registry : Registry[p] = "boolean" => Possible[p] \subseteq {0, 1}
ASSUME LimitsAssumption ==
  /\ {MaxDepth, MaxNodes, MaxOperands, MaxRawDepth, MaxRawNodes, MaxRulesetNodes, MaxSteps} \subseteq Nat
  /\ MaxRulesetNodes <= MaxSteps

Literal(kind, value) == [node |-> "literal", kind |-> kind, value |-> value]
Path(path) == [node |-> "path", path |-> path]
Operation(operator, operands) ==
  [node |-> "operation", operator |-> operator, operands |-> operands]

VARIABLES asked,     \* the request
          stage,     \* "parse", "evaluate" or "done"
          at,        \* the next rule to parse or evaluate
          nodes,     \* the AST nodes of the rules parsed so far
          left,      \* the evaluation steps left
          statuses,  \* the status of each rule evaluated
          verdict    \* the answer, or the error raised

ruleVars == <<asked, stage, at, nodes, left, statuses, verdict>>

-----------------------------------------------------------------------------
(* Size.                                                                   *)

Largest(s) == CHOOSE m \in {0} \cup Range(s) : \A n \in {0} \cup Range(s) : n <= m
Total(s) == SumFunction(s)

Depth[e \in Expressions] ==
  IF e.node # "operation" THEN 1
  ELSE 1 + Largest([i \in DOMAIN e.operands |-> Depth[e.operands[i]]])

CountNodes[e \in Expressions] ==
  IF e.node # "operation" THEN 1
  ELSE 1 + Total([i \in DOMAIN e.operands |-> CountNodes[e.operands[i]]])

(* In transport a path is an object and a string, an operation an object   *)
(* and a list, a rule an object with its id and its weight.                *)
RawDepth[e \in Expressions] ==
  CASE e.node = "literal" -> 1
    [] e.node = "path" -> 2
    [] e.node = "operation" ->
         2 + Largest([i \in DOMAIN e.operands |-> RawDepth[e.operands[i]]])

RawNodes[e \in Expressions] ==
  CASE e.node = "literal" -> 1
    [] e.node = "path" -> 2
    [] e.node = "operation" ->
         2 + Total([i \in DOMAIN e.operands |-> RawNodes[e.operands[i]]])

RawFits(e) == RawDepth[e] <= MaxRawDepth /\ RawNodes[e] <= MaxRawNodes
RawRulesFit(rules) ==
  /\ Len(rules) <= MaxRulesetRules
  /\ 2 + Largest([i \in DOMAIN rules |-> RawDepth[rules[i].expression]]) <= MaxRawDepth
  /\ 1 + Total([i \in DOMAIN rules |-> 3 + RawNodes[rules[i].expression]]) <= MaxRawNodes

Fits(e) == Depth[e] <= MaxDepth /\ CountNodes[e] <= MaxNodes

(* An expression and all that it is made of.                               *)
Parts[e \in Expressions] ==
  {e} \cup UNION (IF e.node = "operation" THEN {Parts[e.operands[i]] : i \in DOMAIN e.operands} ELSE {})
OperandsFit(e) == \A p \in Parts[e] : p.node = "operation" => Len(p.operands) <= MaxOperands

-----------------------------------------------------------------------------
(* Types. "refused" stands for the errors of the parser.                   *)

(* The value of a decimal expression without paths, at most one.           *)
Product(xs) ==
  LET upto[k \in 0 .. Len(xs)] == IF k = 0 THEN 1 ELSE upto[k - 1] * xs[k] IN upto[Len(xs)]
Quotient(x, y) == IF y > 0 THEN x \div y ELSE (-x) \div (-y)
Arithmetic(operator, xs) ==
  CASE operator = "add" -> Total(xs)
    [] operator = "multiply" -> Product(xs)
    [] operator = "subtract" -> xs[1] - xs[2]
    [] operator = "divide" -> Quotient(xs[1], xs[2])

StaticDecimal[e \in Expressions] ==
  CASE e.node = "literal" -> IF e.kind = "decimal" THEN {e.value} ELSE {}
    [] e.node = "path" -> {}
    [] e.node = "operation" ->
         LET xs == [i \in DOMAIN e.operands |-> StaticDecimal[e.operands[i]]] IN
         IF \/ e.operator \notin {"add", "subtract", "multiply", "divide"}
            \/ \E i \in DOMAIN xs : xs[i] = {}
            \/ e.operator = "divide" /\ xs[2] = {0}
         THEN {}
         ELSE {Arithmetic(e.operator, [i \in DOMAIN xs |-> CHOOSE x \in xs[i] : TRUE])}

All(kinds, kind) == \A i \in DOMAIN kinds : kinds[i] = kind

(* A plausible slip: the branches of an "if" are not compared.             *)
BranchKindOfFirst(kinds) == kinds[2]
BranchKind(kinds) == IF kinds[2] = kinds[3] THEN kinds[2] ELSE "refused"

AcceptsOperands(operator, kinds, operands) ==
  CASE operator \in {"and", "or"} -> Len(kinds) >= 1 /\ All(kinds, "boolean")
    [] operator = "not" -> Len(kinds) = 1 /\ All(kinds, "boolean")
    [] operator \in {"eq", "ne"} -> Len(kinds) = 2 /\ kinds[1] = kinds[2]
    [] operator \in {"lt", "lte", "gt", "gte"} ->
         Len(kinds) = 2 /\ kinds[1] = kinds[2] /\ kinds[1] \in {"decimal", "datetime"}
    [] operator \in {"add", "multiply"} -> Len(kinds) >= 2 /\ All(kinds, "decimal")
    [] operator \in {"subtract", "divide"} ->
         /\ Len(kinds) = 2 /\ All(kinds, "decimal")
         /\ operator = "divide" => StaticDecimal[operands[2]] # {0}
    [] operator = "in" -> Len(kinds) = 2 /\ All(kinds, "string")
    [] operator = "exists" -> Len(kinds) = 1
    [] operator = "if" -> Len(kinds) = 3 /\ kinds[1] = "boolean"
    [] OTHER -> FALSE

KindOfOperation(e, kinds) ==
  IF "refused" \in Range(kinds) \/ ~ AcceptsOperands(e.operator, kinds, e.operands) THEN "refused"
  ELSE IF e.operator = "if" THEN BranchKind(kinds)
  ELSE IF e.operator \in {"add", "subtract", "multiply", "divide"} THEN "decimal"
  ELSE "boolean"

KindOf[e \in Expressions] ==
  IF e.node = "literal" THEN e.kind
  ELSE IF e.node = "path" THEN IF e.path \in DOMAIN Registry THEN Registry[e.path] ELSE "refused"
  ELSE KindOfOperation(e, [i \in DOMAIN e.operands |-> KindOf[e.operands[i]]])

Accepted == {e \in Expressions : KindOf[e] # "refused"}

-----------------------------------------------------------------------------
(* Evaluation of an expression: its value, the steps left, and the error   *)
(* that ended it ("none" if it did not).                                   *)

Value(kind, v) == [kind |-> kind, missing |-> FALSE, value |-> v]
Stop(error) == [value |-> Value("null", 0), left |-> 0, error |-> error]
Got(v, steps) == [value |-> v, left |-> steps, error |-> "none"]
(* EvidenceValue.missing refuses the null kind.                            *)
GotMissing(kind, steps) ==
  IF kind = "null" THEN Stop("untyped_missing")
  ELSE Got([kind |-> kind, missing |-> TRUE, value |-> 0], steps)

Truth(b) == IF b THEN 1 ELSE 0
Compared(operator, x, y) ==
  CASE operator = "eq" -> x = y
    [] operator = "ne" -> x # y
    [] operator = "lt" -> x < y
    [] operator = "lte" -> x <= y
    [] operator = "in" -> <<x, y>> \in Contained
    [] operator = "gt" -> x > y
    [] operator = "gte" -> x >= y

(* The kinds an operator insists on when it is applied.                    *)
Applicable(operator, vs) ==
  LET every(kind) == \A i \in DOMAIN vs : vs[i].kind = kind IN
  CASE operator \in {"and", "or", "not"} -> every("boolean")
    [] operator \in {"lt", "lte", "gt", "gte"} -> every("decimal") \/ every("datetime")
    [] operator = "in" -> every("string")
    [] operator \in {"add", "subtract", "multiply", "divide"} -> every("decimal")
    [] OTHER -> TRUE

(* A plausible slip: an operator is applied when only some are missing.    *)
AllMissing(vs) == \A i \in DOMAIN vs : vs[i].missing
AnyMissing(vs) == \E i \in DOMAIN vs : vs[i].missing

ApplyPresent(operator, xs, steps) ==
  CASE operator = "and" -> Got(Value("boolean", Truth(\A i \in DOMAIN xs : xs[i] = 1)), steps)
    [] operator = "or" -> Got(Value("boolean", Truth(\E i \in DOMAIN xs : xs[i] = 1)), steps)
    [] operator = "not" -> Got(Value("boolean", 1 - xs[1]), steps)
    [] operator = "divide" /\ xs[2] = 0 -> Stop("zero_denominator")
    [] operator \in {"add", "subtract", "multiply"} \/ (operator = "divide" /\ xs[2] # 0) ->
         Got(Value("decimal", Arithmetic(operator, xs)), steps)
    [] OTHER -> Got(Value("boolean", Truth(Compared(operator, xs[1], xs[2]))), steps)

Apply(e, vs, steps) ==
  IF e.operator = "exists" THEN Got(Value("boolean", Truth(~ vs[1].missing)), steps)
  ELSE IF AnyMissing(vs) THEN GotMissing(KindOf[e], steps)
  ELSE IF ~ Applicable(e.operator, vs) THEN Stop("type")
  ELSE ApplyPresent(e.operator, [i \in DOMAIN vs |-> vs[i].value], steps)

(* The operands are evaluated in order; ev evaluates an expression that is *)
(* lower, with the steps left.                                             *)
EvaluateAll(es, ev, steps) ==
  LET after[k \in 0 .. Len(es)] ==
        IF k = 0 THEN [values |-> <<>>, left |-> steps, error |-> "none"]
        ELSE LET sofar == after[k - 1]
                 r == ev[<<es[k], sofar.left>>]
             IN IF sofar.error # "none" THEN sofar
                ELSE [values |-> Append(sofar.values, r.value), left |-> r.left, error |-> r.error]
  IN after[Len(es)]

EvaluateIf(e, ev, steps) ==
  LET c == ev[<<e.operands[1], steps>>] IN
  IF c.error # "none" THEN c
  ELSE IF c.value.missing THEN GotMissing(KindOf[e], c.left)
  ELSE IF c.value.kind # "boolean" THEN Stop("type")
  ELSE ev[<<e.operands[IF c.value.value = 1 THEN 2 ELSE 3], c.left>>]

EvaluateOperation(e, ev, steps) ==
  LET operands == EvaluateAll(e.operands, ev, steps) IN
  IF operands.error # "none" THEN Stop(operands.error)
  ELSE Apply(e, operands.values, operands.left)

EvaluatePath(path, evidence, steps) ==
  IF path \in DOMAIN evidence THEN Got(Value(Registry[path], evidence[path]), steps)
  ELSE GotMissing(Registry[path], steps)

EvaluateExpression(e, evidence, ev, steps) ==
  IF steps = 0 THEN Stop("budget")
  ELSE CASE e.node = "literal" -> Got(Value(e.kind, e.value), steps - 1)
         [] e.node = "path" -> EvaluatePath(e.path, evidence, steps - 1)
         [] e.node = "operation" ->
              IF e.operator = "if" THEN EvaluateIf(e, ev, steps - 1)
              ELSE EvaluateOperation(e, ev, steps - 1)

Calls == Accepted \X (0 .. MaxSteps)
Evaluations(evidence) ==
  LET ev[call \in Calls] == EvaluateExpression(call[1], evidence, ev, call[2]) IN ev
Evaluate(e, evidence, steps) == Evaluations(evidence)[<<e, steps>>]

-----------------------------------------------------------------------------
(* Rulesets.                                                               *)

Status(v) == IF v.missing THEN "MISSING" ELSE IF v.value = 1 THEN "MATCHED" ELSE "FAILED"

Score(rules, ss, status) ==
  Total([i \in DOMAIN ss |-> IF ss[i] = status THEN rules[i].weight ELSE 0])

Verdict(rules, ss, threshold) ==
  LET matched == Score(rules, ss, "MATCHED")
      missing == Score(rules, ss, "MISSING")
  IN IF matched >= threshold THEN "MATCHED"
     ELSE IF matched + missing >= threshold THEN "INSUFFICIENT"
     ELSE "FAILED"

Done(v) == stage' = "done" /\ verdict' = v

UniqueIds(rules) == \A i, j \in DOMAIN rules : rules[i].id = rules[j].id => i = j

(* RuleInput refuses a protected source, parse_rules what does not fit in  *)
(* transport, evaluate_ruleset an expression that is not well formed, and  *)
(* rules of one id.                                                        *)
Refused ==
  \/ asked.protected
  \/ asked.entry = "parsed" /\ ~ RawRulesFit(asked.rules)
  \/ /\ asked.entry = "direct"
     /\ \/ ~ UniqueIds(asked.rules)
        \/ \E i \in DOMAIN asked.rules : LET e == asked.rules[i].expression IN
             ~ Fits(e) \/ KindOf[e] # "boolean"

Begin ==
  /\ stage = "begin"
  /\ IF Refused THEN Done("refused")
     ELSE /\ stage' = IF asked.entry = "parsed" THEN "parse" ELSE "evaluate"
          /\ UNCHANGED verdict
  /\ UNCHANGED <<asked, at, nodes, left, statuses>>

(* A plausible slip: the nodes of each rule are bounded on their own.      *)
NodesAlone(e) == CountNodes[e]
NodesAfter(e) == nodes + CountNodes[e]

ParseRule ==
  /\ stage = "parse" /\ at <= Len(asked.rules)
  /\ LET e == asked.rules[at].expression IN
     IF /\ RawFits(e) /\ OperandsFit(e) /\ Fits(e) /\ KindOf[e] = "boolean"
        /\ NodesAfter(e) <= MaxRulesetNodes
     THEN /\ nodes' = NodesAfter(e) /\ at' = at + 1
          /\ UNCHANGED <<stage, verdict>>
     ELSE Done("refused") /\ UNCHANGED <<nodes, at>>
  /\ UNCHANGED <<asked, left, statuses>>

Parsed ==
  /\ stage = "parse" /\ at > Len(asked.rules)
  /\ IF UniqueIds(asked.rules)
     THEN stage' = "evaluate" /\ at' = 1 /\ UNCHANGED verdict
     ELSE Done("refused") /\ UNCHANGED at
  /\ UNCHANGED <<asked, nodes, left, statuses>>

(* The outcome of a rule is missing or a Boolean, or evaluation raises.    *)
ErrorOf(r) ==
  IF r.error = "none" /\ ~ r.value.missing /\ r.value.kind # "boolean" THEN "type" ELSE r.error

EvaluateRule ==
  /\ stage = "evaluate" /\ at <= Len(asked.rules)
  /\ LET r == Evaluate(asked.rules[at].expression, asked.evidence, left) IN
     IF ErrorOf(r) # "none"
     THEN Done(ErrorOf(r)) /\ UNCHANGED <<at, left, statuses>>
     ELSE /\ statuses' = Append(statuses, Status(r.value))
          /\ at' = at + 1 /\ left' = r.left
          /\ UNCHANGED <<stage, verdict>>
  /\ UNCHANGED <<asked, nodes>>

Decide ==
  /\ stage = "evaluate" /\ at > Len(asked.rules)
  /\ Done(Verdict(asked.rules, statuses, asked.threshold))
  /\ UNCHANGED <<asked, at, nodes, left, statuses>>

RulesInit ==
  /\ asked \in Requests
  /\ stage = "begin" /\ at = 1 /\ nodes = 0 /\ left = MaxSteps
  /\ statuses = <<>> /\ verdict = "none"

RulesNext == Begin \/ ParseRule \/ Parsed \/ EvaluateRule \/ Decide
RulesSpec == RulesInit /\ [][RulesNext]_ruleVars

-----------------------------------------------------------------------------
RulesTypeOK ==
  /\ stage \in {"begin", "parse", "evaluate", "done"}
  /\ at \in 1 .. Len(asked.rules) + 1 /\ nodes \in 0 .. MaxRulesetNodes /\ left \in 0 .. MaxSteps
  /\ Len(statuses) < Len(asked.rules) + 1 /\ Range(statuses) \subseteq {"MATCHED", "FAILED", "MISSING"}
  /\ verdict \in Verdicts \cup Errors \cup {"none"}

(* The parser types what it accepts well enough for the evaluator: no      *)
(* operator ever meets operands of a kind it raises on, and no rule has an *)
(* outcome that is not a Boolean.                                          *)
WellTypedEvaluation == verdict # "type"

(* A ruleset that parse_rules accepts is evaluated within the step budget, *)
(* although the evaluator counts its steps and not the parser's nodes.     *)
ParsedRulesFitTheBudget == verdict = "budget" => asked.entry # "parsed"

AsksExistence(e) == \E p \in Parts[e] : p.node = "operation" /\ p.operator = "exists"

(* What may come to be known when the evidence is what is known.           *)
Completions(evidence) ==
  {more \in Evidences :
     DOMAIN evidence \subseteq DOMAIN more /\ \A p \in DOMAIN evidence : more[p] = evidence[p]}

(* A decision is final: evidence that was missing when a ruleset matched   *)
(* or failed cannot turn it once known, unless a rule asks whether         *)
(* evidence exists.                                                        *)
MissingEvidenceNeverTurnsAVerdict ==
  LET rules == asked.rules IN
  (verdict \in {"MATCHED", "FAILED"} /\ \A i \in DOMAIN rules : ~ AsksExistence(rules[i].expression)) =>
    \A evidence \in Completions(asked.evidence) :
      LET results == [i \in DOMAIN rules |-> Evaluate(rules[i].expression, evidence, MaxSteps)] IN
      \/ \E i \in DOMAIN rules : ErrorOf(results[i]) # "none"
      \/ Verdict(rules, [i \in DOMAIN rules |-> Status(results[i].value)], asked.threshold) = verdict

(* docs/rule-dsl.md: missing path values make a rule neither matched nor   *)
(* failed. An evaluation error is neither; it ends the whole ruleset.      *)
MissingPathsAreEvidence == verdict # "untyped_missing"
=============================================================================
