SPECIFICATION Spec
CONSTANTS
  Reqs = {r1, r2}
  Keys = {k1, k2}
  MaxInflight = 1
  FnResults <- SomeResults
  NoReq = NoReq
PROPERTIES EveryCallReturns ShutdownReleasesCalls
CHECK_DEADLOCK FALSE
