SPECIFICATION Spec
CONSTANTS
  Job <- mcJob
  Configured <- mcConfigured
  EpisodeSteps = 2
  Costs = {1, 2}
  Infinity = 3
  Policies <- mcPolicies
  Seeds <- mcSeeds
  Splits <- mcSplits
  Workers = 2
  MaxFaults = 0
INVARIANTS BestIsTrained
