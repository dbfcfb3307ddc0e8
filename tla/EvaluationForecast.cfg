SPECIFICATION EvalSpec
CHECK_DEADLOCK FALSE
CONSTANTS
  Capacity = 3
  Day = {0, 1, 2, 3}
  Days = 4
  Length <- MCLength
  Action = {0, 1}
  Noop = 0
  None = None
  Bins = 2
  InvalidAction = "error"
  MaskMode = "apply"
  Evaluations = 2
INVARIANTS DecidesWithForecast
