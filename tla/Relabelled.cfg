\* A run that was applied and notified is audited as superseded.
SPECIFICATION Spec
CONSTANTS
  w1 = w1
  w2 = w2
  s1 = s1
  s2 = s2
  s3 = s3
  None = None
  EarlierRun = EarlierRun
  Workers <- MCWorkers
  Scans <- MCScans
  MaxProviderAttempts = 1
  Proposals <- MCProposals
  Starts <- MCStarts
  LegacyScans = {}
  MaxDisruptions = 1
SYMMETRY Symmetry
INVARIANTS
  SupersededWithoutEffect
