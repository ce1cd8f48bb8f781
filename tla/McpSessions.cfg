SPECIFICATION Spec
CONSTANTS
  Clients = {c1}
  Others = {c2}
  Retention = 2
  Limit = 1
  MaxEvents = 3
  None = None
  Sessions = {s1, s2, s3}
  SessionMax = 2
  Ttl = 1
  Buffer = 1
  MaxTime = 2
  MaxMessages = 3
SYMMETRY MCSymmetry
CHECK_DEADLOCK FALSE
INVARIANTS CursorsSkipNothing ExpiryMeansLoss UntippedOnlyWhenForgotten
PROPERTIES SessionsInUseStay
