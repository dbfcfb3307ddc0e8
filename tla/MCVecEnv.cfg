SPECIFICATION ShapedSpec
CONSTANTS
  Capacity = 2
  Day = {0, 1}
  Length <- MCLength
  Potential <- MCPotential
  Gamma = 2
  Action = {0, 1}
  Noop = 0
  None = None
  Bins = 2
  InvalidAction = "noop"
  MaskMode = "free"
INVARIANTS StepsOnlyLiveDays DecidesOnTheState
PROPERTIES TornIsNotStepped TerminalOfItsDay ShapingTelescopes
