SPECIFICATION GovSpec
CONSTANTS
  k1 = k1
  k2 = k2
  t1 = t1
  Reqs = {r1, r2}
  Keys = {k1, k2}
  Tools = {t1}
  ToolOf <- OneTool
  MaxInflight = 2
  FnResults <- FnAnswers
  NoReq = NoReq
INVARIANTS GovTypeOK GrantHasConsent DenialHasCause
PROPERTY SettledKeyNotAskedAgain
SYMMETRY Symmetry
CHECK_DEADLOCK FALSE
