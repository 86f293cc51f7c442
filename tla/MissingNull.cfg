\* A rule whose evidence is missing, against what the rule language documents.
SPECIFICATION Spec
CONSTANTS
  Idle = Idle
  Requests <- MCRequests
  Expressions <- MCExpressions
  Height <- MCHeight
  Registry <- MCRegistry
  Possible <- MCPossible
  Contained <- MCContained
  MaxDepth = 4
  MaxNodes = 7
  MaxOperands = 3
  MaxRawDepth = 10
  MaxRawNodes = 40
  MaxRulesetRules = 3
  MaxRulesetNodes = 9
  MaxSteps = 9
  ScoringRequests <- MCScoringRequests
  Unit = 4
  DayLength = 10
  Sessions <- MCSessions
  Holidays <- MCHolidays
  Inputs <- MCInputs
  Width = 2
  Lookback = 2
  MaxLookback = 6
INVARIANT MissingPathsAreEvidence
CHECK_DEADLOCK FALSE
