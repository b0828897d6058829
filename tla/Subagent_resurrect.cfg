SPECIFICATION Spec

CONSTANTS
  MaxConcurrent = 1
  MaxTasks = 2

PROPERTY CancelledStaysCancelled
CHECK_DEADLOCK FALSE
