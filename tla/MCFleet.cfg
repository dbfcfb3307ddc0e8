SPECIFICATION Spec
CHECK_DEADLOCK FALSE
CONSTANTS
  Bus = {0, 1, 2, 3, 4}
  Route = {1, 2}
  NoRoute = 0
  LastStop = 2
  TurnStop <- MCTurnStop
  HomeRoute <- MCHomeRoute
  HomeStop <- MCHomeStop
  Capacity = 1
  EdgeTimes = {1}
  Interval = 2
  Horizon = 8
  DwellTime = 1
  LayoverTime = 1
  DeadheadTime = 2
  Cooldown = 4
  Spacing = 2
  GuardGap = 8
  HeadwayHold = 4
  Headways = {2}
  InitialHeadway = 5
  InitialAge = 5
  EnableReassign = TRUE
  EnableShortTurn = TRUE
INVARIANTS TypeOK NeverPanics IdleBusCanLeave RouteKeepsTwo ExtrasKeepLeaving
