\* Two workers retry two contending scans through an exception or a crash.
SPECIFICATION FairSpec
CONSTANTS
  w1 = w1
  w2 = w2
  s1 = s1
  s2 = s2
  s3 = s3
  None = None
  EarlierRun = EarlierRun
  Workers <- MCWorkers
  Scans <- MCScans
  MaxProviderAttempts = 1
  Proposals <- MCProposals
  Starts <- MCIdleStarts
  LegacyScans = {}
  MaxDisruptions = 1
PROPERTIES
  LeaseReturned
  RetriedScansSettle
