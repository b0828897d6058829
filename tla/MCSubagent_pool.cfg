SPECIFICATION FairSpec
CONSTANTS
  MaxConcurrent = 1
  MaxTasks = 3
CONSTRAINT OneReports
INVARIANTS
  QueueConsistent
  RunningIsLive
  ReportsInOrder
PROPERTIES
  ImplementsTaskPool
  QueuedEventuallyStarts
  HungTaskEnds
CHECK_DEADLOCK FALSE
