SPECIFICATION Spec
CONSTANTS
  Posts = {post}
  Pubs = {p1}
  PostOf <- MCOnePost
  Handlers = {o1, o2}
  Captions = {c1, c2}
  Media = {m1}
  Instants = {i1, i2}
  NoDate = NoDate
  Accounts = {a1}
  MaxAttempts = 1
  None = None
CHECK_DEADLOCK FALSE
SYMMETRY MCPlanSymmetry
INVARIANTS WaitingIsLiveOrErred SubmitSendsWhatWasConfirmed
CONSTRAINT MCTwoPlans
