SPECIFICATION Spec
CONSTANTS
  ProtectFirst = 3
  Replies <- MCReplies
  MaxTurns = 2
  MaxHistory = 7
  MaxIterations = 2
  MaxRetries = 1
  Fragile = {"a"}
  KeepRecent = 4
  WindowOver = 8
  WindowKeep = 6
INVARIANTS
  ResultsFollowCalls
  AbortsOnlyOnResults
PROPERTIES
  LatestUserKept
  TurnAdvances
CHECK_DEADLOCK FALSE
