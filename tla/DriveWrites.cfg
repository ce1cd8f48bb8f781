SPECIFICATION Spec
CONSTANTS
  Requests = {r1, r2, r3}
  Approvers = {a1, a2}
  PendingLimit = 2
  None = None
CHECK_DEADLOCK FALSE
INVARIANTS WrittenOnce BytesGoWhenDecided
PROPERTIES WritesAsPromised RequestsAreDecided
