SPECIFICATION SchedSpec
CONSTANTS
  o = o
  p = p
  Tasks = {o, p}
  Kind <- OnceAndRepeated
  MaxRetries <- OneRetry
  MaxCrashes = 1
  MaxFailures = 1
  NoTask = NoTask
INVARIANTS SchedTypeOK FinishedNotRunAgain QuietCancelSticks
PROPERTY DueTaskFires
CHECK_DEADLOCK FALSE
