SPECIFICATION RestartSpec
CONSTANTS
  a = a
  b = b
  c = c
  Tasks = {a, b, c}
  Deps <- Chain
  MaxRetries <- NoRetry
  Concurrency = 1
  NoTask = NoTask
  MaxRestarts = 1
INVARIANTS RestartTypeOK SavedIsClosed StatusHasGoroutine SavedWorkKept DepsBeforeStart
CHECK_DEADLOCK FALSE
