SPECIFICATION Spec
CONSTANTS
  Ids = {j}
  Callers = {c1, c2}
  Kinds = {TRUE, FALSE}
  Expressions = {"good", "bad", "endless"}
  Torn = Torn
  NoId = NoId
  MaxSpawned = 2
  MaxAdds = 2
  MaxFailures = 1
  MaxCrashes = 1
INVARIANTS
  OneRunAtATime
  OnceFiresOnce
  FileIsTheMap
CHECK_DEADLOCK FALSE
