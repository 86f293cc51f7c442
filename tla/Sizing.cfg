\* Staged sizing, the search limit low enough that a search can run out.
SPECIFICATION Spec
CONSTANTS
  Requests <- MCRequests
  SearchLimit = 2
INVARIANTS
  TypeOK
  NeverOverspends
  WholeLots
  SearchBracket
  BestAffordable
PROPERTIES
  AlwaysAnswers
CHECK_DEADLOCK FALSE
