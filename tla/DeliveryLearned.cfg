SPECIFICATION FairSpec
CONSTANTS
  Posts = {post}
  Pubs = {p1}
  PostOf <- MCOnePost
  Handlers = {o1, o2}
  Captions = {c1}
  Media = {m1}
  Instants = {i1}
  NoDate = NoDate
  Accounts = {a1, a2}
  MaxAttempts = 1
  None = None
CHECK_DEADLOCK FALSE
PROPERTIES DeliveryIsLearned
