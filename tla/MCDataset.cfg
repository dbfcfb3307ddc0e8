SPECIFICATION DataSpec
CHECK_DEADLOCK FALSE
CONSTANTS
  Item = {1, 2, 3}
  Split <- MCSplit
  Bursty = {3}
  Configs <- MCConfigs
  Demands <- MCDrawn
  Bursts <- MCBursts
  Controls <- MCControls
  DemandEnd = 2
  Horizon = 3
  Garbage = {1, 261}
  Faults = 1
  StoreLimit = 2
  None = None
INVARIANTS WhatIsListedLoads RunsOnItsOwnTapes
