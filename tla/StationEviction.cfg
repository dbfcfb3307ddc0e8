SPECIFICATION Spec
CHECK_DEADLOCK FALSE
CONSTANTS
  Thread = {t1, t2, t3}
  Id = {1, 2}
  None = None
  MaxSessions = 1
  IdleTime = 1
  DayLength = 2
  MaxDecisions = 2
  Requests = 4
  MaxClock = 2
PROPERTIES EvictedWereIdle
