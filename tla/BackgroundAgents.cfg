SPECIFICATION BgSpec
CONSTANTS
  Agents = {a1, a2}
  MaxConcurrent = 1
  NoAgent = NoAgent
INVARIANTS BgTypeOK AgentSlotsExact ReportMatchesStatus
PROPERTIES EveryAgentReports EveryCollectReturns
CHECK_DEADLOCK FALSE
