SPECIFICATION FairSpec
CONSTANTS
  Ids = {o1, o2}
  Callers = {c}
  Kinds = {TRUE}
  Expressions = {"good", "endless"}
  Torn = Torn
  NoId = NoId
  MaxSpawned = 1
  MaxAdds = 1
  MaxFailures = 0
  MaxCrashes = 1
PROPERTIES
  OnceFires
CHECK_DEADLOCK FALSE
