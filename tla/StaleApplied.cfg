\* Three scans: one is evaluated, one degrades the record, one recovers it.
SPECIFICATION Spec
CONSTANTS
  w1 = w1
  w2 = w2
  s1 = s1
  s2 = s2
  s3 = s3
  None = None
  EarlierRun = EarlierRun
  Workers <- MCWorkers
  Scans <- MCThreeScans
  MaxProviderAttempts = 1
  Proposals <- MCWatchProposals
  Starts <- MCWatchStarts
  LegacyScans = {}
  MaxDisruptions = 0
SYMMETRY ThreeScanSymmetry
INVARIANTS
  DegradationDiscards
