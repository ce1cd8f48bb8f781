SPECIFICATION Spec
CONSTANTS
  Lists = {media}
  Files = {f1}
  Editors = {e1, e2}
  MaxVersion = 2
  MaxRevision = 3
  Requests = {r1}
  Approvers = {a1, a2}
  NoPlan = NoPlan
CHECK_DEADLOCK FALSE
SYMMETRY MCSymmetry
INVARIANTS ApprovedPlanIsSent RequestIsSentOnce
PROPERTIES EditsReplaceWhatWasSeen PublishesAsPromised
