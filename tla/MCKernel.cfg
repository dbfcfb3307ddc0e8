SPECIFICATION AccSpec
CHECK_DEADLOCK FALSE
CONSTANTS
  Bus = {0, 1, 2, 3, 4}
  Route = {1, 2}
  NoRoute = 0
  LastStop = 2
  TurnStop <- MCTurnStop
  HomeRoute <- MCHomeRoute
  HomeStop <- MCHomeStop
  Capacity = 2
  EdgeTimes = {1, 2}
  Interval = 2
  Horizon = 10
  DwellTime = 1
  LayoverTime = 1
  DeadheadTime = 2
  Cooldown = 4
  Spacing = 2
  GuardGap = 8
  HeadwayHold = 4
  Headways = {2, 5}
  InitialHeadway = 5
  InitialAge = 5
  EnableReassign = TRUE
  EnableShortTurn = TRUE
  Days <- MCDays
  DemandEnd = 6
  Patience = 4
  BucketTime = 4
  Buckets = 2
  HistoryLags = 3
  ExcessAge = 2
  Comfort = 1
  Reward <- MCReward
  CrowdedQueue = 2
  QuietQueue = 1
  HeadwayFor <- MCHeadwayFor
  PriorWeight <- MCPriorWeight
  BusyDemand = 3
  BusyBudget = 6
  QuietBudget = 5
  Floor = 2
  Cycle = 10
INVARIANTS CountersMatch RidersAhead TimeIsBilled DeniedOnce RewardIsCost ObservationIsTrue ReserveGoesFirst DonorsKeepTheirFleet DashboardAddsUp NoAlarmAtTheTurn
PROPERTIES FirstComeFirstServed FleetSpec
