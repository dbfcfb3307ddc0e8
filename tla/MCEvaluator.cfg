SPECIFICATION ESpec
CHECK_DEADLOCK FALSE
CONSTANTS
  Lists <- MCLists
  Base <- MCBase
  Files <- MCFiles
  Flags <- MCFlags
  Forecasters <- MCForecasters
  ControlInterval = 2
  Calls = 2
  None = None
INVARIANTS RecordsWhatWasAsked
PROPERTIES LeavesNoTrace
