SPECIFICATION Spec
CONSTANTS
  Turns = {t1, t2, t3}
  Responders = {x1, x2}
  Sessions = {s1, s2}
  MaxToolCalls = 2
  DailyTurnCap = 3
  None = None
CHECK_DEADLOCK FALSE
INVARIANTS WorkHoldsTheRow PendingIsAwaited
PROPERTIES ToolsRunAsPromised TurnsEnd
