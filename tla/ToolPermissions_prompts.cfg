SPECIFICATION PermSpec
CONSTANTS
  c1 = c1
  c2 = c2
  c3 = c3
  bash = bash
  fetch = fetch
  Calls = {c1, c2, c3}
  Turn <- TwoTurns
  Tools = {bash, fetch}
  ToolOf <- ToolNames
  HighStakes = {c1, c2}
  InFile <- AnyForBash
  NoCall = NoCall
PROPERTY EveryPromptAnswered
CHECK_DEADLOCK FALSE
