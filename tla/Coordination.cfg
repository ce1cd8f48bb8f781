SPECIFICATION Spec
CONSTANTS
  Handoffs = {h1}
  Agents = {a1, a2}
  Sessions = {s1, s2, s3}
  Leases = {1, 2}
  MaxTime = 3
  None = None
CHECK_DEADLOCK FALSE
SYMMETRY MCSymmetry
INVARIANTS TypeOK SharedOnlyByLateRenewal ClaimMovesOnlyByReclaim
PROPERTIES OverStaysOver
