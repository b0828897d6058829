SPECIFICATION FairSpec
CONSTANTS
  Calls = {c1, c2}
  N = 2
  Threshold = 2
  MaxRetries = 2
INVARIANTS
  BreakerAgrees
  RetriesShared
PROPERTIES
  CallsEnd
  Recovers
CHECK_DEADLOCK FALSE
