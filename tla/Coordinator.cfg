\* Two workers, two scans, one exception or crash.
SPECIFICATION Spec
CONSTANTS
  w1 = w1
  w2 = w2
  s1 = s1
  s2 = s2
  s3 = s3
  None = None
  EarlierRun = EarlierRun
  Workers <- MCWorkers
  Scans <- MCScans
  MaxProviderAttempts = 2
  Proposals <- MCProposals
  Starts <- MCStarts
  LegacyScans <- MCScans
  MaxDisruptions = 1
SYMMETRY Symmetry
INVARIANTS
  TypeOK
  LockExclusion
  AttemptChain
  AppliedIsReal
  IntentFollowsTransition
  FenceNamesOwner
  CallersAgree
PROPERTIES
  ImplementsLifecycle
  ImplementsLedger
