\* The HTTP intake and the configuration resolver on their own inputs.
SPECIFICATION Spec
CONSTANTS
  Idle = Idle
  Requests <- MCRequests
  MaxBytes = 2
  ChunkSizes = {0, 1, 2, 3}
  NoReply = NoReply
  Resolutions <- MCResolutions
  MaxTtl = 2
  Keys <- MCKeys
  Scalars <- MCScalars
  MaxNesting = 2
  Unset = Unset
INVARIANTS
  TypeOK
  OversizeIsRefused
  EveryResolutionMatches
CHECK_DEADLOCK FALSE
