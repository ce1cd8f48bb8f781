SPECIFICATION CallsSpec
CONSTANTS
  Handoffs = {h1, h2}
  Agents = {a1, a2}
  Sessions = {}
  Leases = {1}
  MaxTime = 0
  None = None
  RequestIds = {r1}
  KeyLimit = 2
  MaxNotes = 2
CHECK_DEADLOCK FALSE
SYMMETRY MCSymmetry
INVARIANTS RetriesAreAnsweredAlike AnswersAreOnesOwn
PROPERTIES NotesRepeatOnlyWhenForgotten
