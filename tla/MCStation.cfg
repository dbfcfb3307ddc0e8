SPECIFICATION FairSpec
CHECK_DEADLOCK FALSE
CONSTANTS
  Thread = {t1, t2, t3}
  Id <- MCId
  None = None
  MaxSessions = 2
  IdleTime = 1
  DayLength = 2
  MaxDecisions = 2
  Requests = 4
  MaxClock = 2
INVARIANTS NeverRunsClosed
PROPERTIES ImplementsSessions EverybodyAnswered RemovedGetClosed
