SPECIFICATION Spec
CONSTANTS
  Publications = {p1, p2}
  t1 = t1
  t2 = t2
  Accounts = {t1, t2}
  Order <- MCOrder
  Nobody = Nobody
SYMMETRY MCSymmetry
CHECK_DEADLOCK FALSE
INVARIANT ConfirmedMeansEveryTarget
