SPECIFICATION Spec
CONSTANTS
  a = a
  b = b
  c = c
  d = d
  e = e
  Tasks = {a, b, c, d, e}
  Deps <- Diamond
  MaxRetries <- Retries
  Concurrency = 2
  NoTask = NoTask
INVARIANTS SlotsExact RetryBudget SkippedHasCause RunReport NoTaskStranded
PROPERTIES ImplementsTaskGraph RunTerminates CancelStopsRun CancelDrains
CHECK_DEADLOCK FALSE
