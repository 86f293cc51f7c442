---------------------------- MODULE MCEvaluation ----------------------------
(* The rule engine, the scoring engine and the indicators, each on its own *)
(* inputs: a behaviour runs one of them.                                   *)
EXTENDS FiniteSets, RuleEvaluation, CandidateScoring, SessionIndicators

CONSTANT Idle   \* the input of a component that does not run

-----------------------------------------------------------------------------
(* Rules over two Booleans, of which a rule may ask whether they exist,    *)
(* and a decimal. Limits small enough to be met.                           *)
MCRegistry ==
  [flag |-> "boolean", other |-> "boolean", price |-> "decimal",
   time |-> "datetime", until |-> "datetime", name |-> "string"]
MCPossible ==
  [flag |-> {0, 1}, other |-> {0, 1}, price |-> {-1, 0, 1, 2}, time |-> {0, 1, 2}, until |-> {1},
   name |-> {1, 2}]
MCContained == {<<x, x>> : x \in 1 .. 3} \cup {<<1, 3>>, <<2, 3>>}   \* 1 and 2 in 3, apart

True == Literal("boolean", 1)
Zero == Literal("decimal", 0)
One == Literal("decimal", 1)
Null == Literal("null", 0)
Leaves == {True, Zero, Null, Path("flag"), Path("price")}

Unary(es) == {Operation(o, <<x>>) : o \in {"not", "exists"}, x \in es}
Binary(os, es) == {Operation(o, <<x, y>>) : o \in os, x \in es, y \in es}
IfThenElse(cs, es) == {Operation("if", <<c, x, y>>) : c \in cs, x \in es, y \in es}

Shallow ==
  Leaves \cup {Path("unknown")} \cup Unary(Leaves)
         \cup Binary({"and", "or", "eq", "ne", "lt", "gte", "in", "divide", "subtract", "add"}, Leaves)
         \cup IfThenElse({True, Path("flag"), Zero}, Leaves)

(* One more operator over those that are well typed, and over an "if"      *)
(* whose branches differ.                                                  *)
Booleans == {True, Path("flag")}
Decimals == {Zero, Path("price")}
Inner ==
  UNION {Leaves, {Operation("exists", <<x>>) : x \in Leaves}, {Operation("not", <<x>>) : x \in Booleans},
         Binary({"and", "or", "eq"}, Booleans), Binary({"eq"}, {Null}),
         Binary({"eq", "lt", "gte", "subtract", "add"}, Decimals),
         {Operation("divide", <<x, Path("price")>>) : x \in Decimals},
         UNION {IfThenElse(Booleans, es) : es \in {Booleans, Decimals, {Null}, {True, Zero}}}}
Deep ==
  UNION {Unary(Inner), {Operation(o, <<x, y>>) : o \in {"and", "eq"}, x \in Inner, y \in {One, Path("flag")}},
         {Operation("divide", <<One, y>>) : y \in Inner},
         {Operation("if", <<c, True, y>>) : c \in Inner, y \in {True, One}}}

Of(entry, protected, threshold, evidence, rules) ==
  [entry |-> entry, protected |-> protected, threshold |-> threshold,
   evidence |-> evidence, rules |-> rules]
Rule(id, weight, e) == [id |-> id, weight |-> weight, expression |-> e]

OneRule ==
  {Of("parsed", FALSE, 1, evidence, <<Rule("r1", 1, e)>>) :
     e \in Shallow \cup Deep, evidence \in {<<>>, [flag |-> 0, price |-> 0], [price |-> 2, time |-> 2]}}

Simple ==
  {Path("flag"), Operation("not", <<Path("other")>>), Operation("exists", <<Path("flag")>>),
   Operation("and", <<Path("flag"), Path("other")>>), Operation("or", <<Path("flag"), Path("other")>>),
   Operation("if", <<Path("flag"), Path("other"), True>>),
   Operation("eq", <<Operation("divide", <<One, Path("price")>>), One>>),
   Operation("lt", <<Operation("multiply", <<Path("price"), Path("price")>>), One>>),
   Operation("lte", <<Path("time"), Path("until")>>),
   Operation("in", <<Path("name"), Literal("string", 3)>>), Operation("ne", <<Path("name"), Literal("string", 2)>>)}
Wide == Operation("or", <<Path("flag"), True, True, True>>)
MCExpressions ==
  {e : e \in UNION {Shallow, Deep, Simple, {Wide, One},
                    {Path("other"), Path("time"), Path("until"), Path("name")},
                    {Literal("string", 2), Literal("string", 3)},
                    {Operation("multiply", <<Path("price"), Path("price")>>)}}}
MCHeight[e \in MCExpressions] ==
  IF e.node = "operation" THEN 1 + Largest([i \in DOMAIN e.operands |-> MCHeight[e.operands[i]]])
  ELSE 0

ManyRules ==
  {Of(entry, FALSE, threshold, evidence, <<Rule("r1", 2, x), Rule("r2", 1, y), Rule("r3", 1, z)>>) :
     entry \in {"parsed", "direct"}, threshold \in {2, 3},
     evidence \in {<<>>, [flag |-> 1], [other |-> 0, price |-> -1], [flag |-> 0, other |-> 1, price |-> 1],
                   [time |-> 2, name |-> 2]},
     x \in Simple, y \in Simple, z \in {Path("other"), Operation("not", <<Path("flag")>>)}}

MCRequests ==
  UNION {OneRule, ManyRules, {Of("parsed", TRUE, 1, <<>>, <<Rule("r1", 1, True)>>)},
         {Of(entry, FALSE, 1, [flag |-> 1], rules) :
            entry \in {"parsed", "direct"},
            rules \in {<<Rule("r1", 1, Wide)>>, <<Rule("r1", 1, True), Rule("r1", 1, Path("flag"))>>}}}

-----------------------------------------------------------------------------
(* Three candidates, two factors of opposite directions, metrics beyond    *)
(* the bounds of their factor, and ties.                                   *)
Factor(lower, upper, weight, direction) ==
  [lower |-> lower, upper |-> upper, weight |-> weight, direction |-> direction]
Supplied(v) == [kind |-> "supplied", value |-> v]
Absent == [kind |-> "absent", value |-> 0]
Invalid == [kind |-> "invalid", value |-> 0]
Scored(unauthorized, w, ids, m, n) ==
  [factors |-> <<Factor(0, 2, 1, "higher_is_better"), Factor(-1, 3, w, "lower_is_better")>>,
   candidates |-> [i \in 1 .. 3 |-> [id |-> ids[i], authorized |-> ids[i] \notin unauthorized,
                                     metrics |-> <<m[i], n[i]>>]]]
MCScoringRequests ==
  {Scored({}, w, <<3, 1, 2>>, m, n) :
     w \in {1, 2}, m \in [1 .. 3 -> {Supplied(-1), Supplied(1), Supplied(3), Absent}],
     n \in {<<Supplied(1), Supplied(1), Supplied(1)>>, <<Supplied(3), Supplied(1), Invalid>>,
            <<Supplied(-1), Supplied(0), Supplied(5)>>}} \cup
  {Scored({2}, 1, <<1, 2, 3>>, [i \in 1 .. 3 |-> Absent], [i \in 1 .. 3 |-> Absent])}

-----------------------------------------------------------------------------
(* Four trading days and a holiday, two sessions a day, the last window of *)
(* a session shortened by its close.                                       *)
MCSessions ==
  [d \in 1 .. 5 |->
     <<[opens |-> 10 * d + 1, closes |-> 10 * d + (IF d = 3 THEN 5 ELSE 4)],
       [opens |-> 10 * d + 5, closes |-> 10 * d + (IF d = 3 THEN 8 ELSE 7)]>>]
MCHolidays == {4}

Bar(from, to) == [from |-> from, to |-> to, volume |-> from % 3, price |-> 1]
Ordered(bars) ==
  LET place(b) == Cardinality({c \in bars : c.from < b.from \/ (c.from = b.from /\ c.to <= b.to)})
  IN [i \in 1 .. Cardinality(bars) |-> CHOOSE b \in bars : place(b) = i]
DayBars(d) ==
  {Bar(10 * d + x[1], 10 * d + x[2]) :
     x \in {<<1, 2>>, <<2, 3>>, <<3, 4>>, <<2, 4>>, <<5, 7>>, <<6, 7>>, <<4, 5>>}}
Taken(actionable, from, to, bars) ==
  [actionable |-> actionable, from |-> from, to |-> to, bars |-> Ordered(bars)]

Full(d) ==
  {Bar(t, t + 1) : t \in UNION {Instants(MCSessions[d][k].opens, MCSessions[d][k].closes) : k \in 1 .. 2}}
Still(bars) == {[b EXCEPT !.volume = 0] : b \in bars}
Histories ==
  LET of(d) == {Taken(TRUE, 10 * d + 1, 10 * d + 9, Full(d)),
                Taken(TRUE, 10 * d + 1, 10 * d + 3, {Bar(10 * d + 1, 10 * d + 3)}),
                Taken(FALSE, 10 * d + 1, 10 * d + 9, Full(d))}
      odd == {Taken(TRUE, 38, 39, Full(3)),                             \* after the close
              Taken(TRUE, 31, 39, {Bar(31, 33), Bar(32, 34)}),           \* overlapping
              Taken(TRUE, 31, 38, {Bar(31, 35), Bar(35, 38)}),           \* wider than a window
              Taken(TRUE, 31, 38, Full(3) \ {Bar(32, 33)})}              \* not covered
  IN {<<x, y>> : x \in of(3) \cup odd, y \in of(2)} \cup {<<x>> : x \in of(3)} \cup
     {<<x, Taken(TRUE, 21, 23, {Bar(31, 32)})>> : x \in of(3)} \cup
     {<<Taken(TRUE, 31, 39, Still(Full(3))), Taken(TRUE, 21, 29, Still(Full(2)))>>,
      <<Taken(TRUE, 21, 27, Full(2)), Taken(TRUE, 22, 27, Full(2))>>}

MCInputs ==
  {[current |-> Taken(TRUE, from, to, bars), history |-> h] :
     from \in {31, 51, 52}, to \in {53, 54, 57}, bars \in SUBSET DayBars(5),
     h \in {<<>>}} \cup
  {[current |-> Taken(TRUE, from, to, bars), history |-> h] :
     from \in {51, 52}, to \in {53, 54, 57}, h \in Histories,
     bars \in {Full(5), {Bar(51, 53), Bar(53, 54)}, {Bar(51, 53)}, {Bar(53, 54), Bar(55, 57)}}} \cup
  {[current |-> Taken(TRUE, 21, 27, Full(2)), history |-> <<>>]} \cup
  {[current |-> Taken(actionable, from, from + 3, {Bar(51, 53)}), history |-> <<>>] :
     actionable \in BOOLEAN, from \in {11, 41, 48, 51}}

-----------------------------------------------------------------------------
RulesIdle == asked = Idle /\ stage = "done" /\ at = 1 /\ nodes = 0 /\ left = 0
             /\ statuses = <<>> /\ verdict = "none"
ScoringIdle == scoring = Idle /\ outcomes = <<>> /\ ranking = <<>>
IndicatorsIdle == /\ input = Idle /\ step = "done" /\ current = NoWindow /\ dates = {}
                  /\ gathered = <<>> /\ volumes = <<>> /\ ratio = "none" /\ vwap = "available"

Init ==
  \/ RulesInit /\ ScoringIdle /\ IndicatorsIdle
  \/ RulesIdle /\ ScoringInit /\ IndicatorsIdle
  \/ RulesIdle /\ ScoringIdle /\ IndicatorsInit

Next ==
  \/ asked # Idle /\ RulesNext /\ UNCHANGED <<scoringVars, indicatorVars>>
  \/ scoring # Idle /\ ScoringNext /\ UNCHANGED <<ruleVars, indicatorVars>>
  \/ input # Idle /\ IndicatorsNext /\ UNCHANGED <<ruleVars, scoringVars>>

(* Each component's state has its type.                                    *)
TypeOK ==
  /\ asked # Idle => RulesTypeOK
  /\ scoring # Idle => ScoringTypeOK
  /\ input # Idle => SessionIndicatorsTypeOK

Spec == Init /\ [][Next]_<<ruleVars, scoringVars, indicatorVars>>
=============================================================================
