SPECIFICATION RestartSpec
CONSTANTS
  a = a
  b = b
  c = c
  Tasks = {a, b}
  Deps <- Pair
  MaxRetries <- NoRetry2
  Concurrency = 1
  NoTask = NoTask
  MaxRestarts = 1
PROPERTY ResumedRunTerminates
CHECK_DEADLOCK FALSE
