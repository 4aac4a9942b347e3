SPECIFICATION BgSpec
CONSTANTS
  Agents = {a1, a2}
  MaxConcurrent = 1
  NoAgent = NoAgent
PROPERTY CancelSticks
CHECK_DEADLOCK FALSE
