SPECIFICATION Spec
CONSTANTS
  Posts = {post}
  Pubs = {p1, p2}
  PostOf <- MCOnePost
  Handlers = {o1, o2}
  Captions = {c1}
  Media = {m1}
  Instants = {i1}
  NoDate = NoDate
  Accounts = {a1}
  MaxAttempts = 2
  None = None
CHECK_DEADLOCK FALSE
SYMMETRY MCSymmetry
INVARIANTS TypeOK WaitingIsLiveOrErred TwiceOnlyAfterAnError CancelledNeverWentOut
PROPERTIES LockSpec
