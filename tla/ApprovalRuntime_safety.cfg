SPECIFICATION Spec
CONSTANTS
  Reqs = {r1, r2, r3}
  Keys = {k1, k2}
  MaxInflight = 2
  FnResults <- SomeResults
  NoReq = NoReq
SYMMETRY Symmetry
INVARIANTS TypeOK SingleFlight SlotsExact OutcomeIsForOwnKey
PROPERTIES UnpublishesOnlyItself ImplementsService
CHECK_DEADLOCK FALSE
