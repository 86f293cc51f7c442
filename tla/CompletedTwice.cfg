CONSTANTS
  Sessions = {s1, s2}
  i1 = i1
  i2 = i2
  Ids = {i1, i2}
  Keys = {1, 2}
  Contents = {x, y}
  None = None
  MaxAttempts = 2
  MaxRevision = 3
SPECIFICATION Spec
PROPERTY CompletesOnce
