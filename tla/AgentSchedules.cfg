SPECIFICATION FairSpec
CONSTANTS
  Schedules = {s1}
  Crons <- MCCrons
  TicksPerMinute = 2
  Horizon = 2
  MaxTime = 7
  None = None
CHECK_DEADLOCK FALSE
INVARIANTS RunsMatchHandoffs NoWindowIsPassedOver
PROPERTIES DueRunsHappen
