SPECIFICATION EventsFair
CONSTANTS
  Callers = {c1, c2}
  EventNames <- MCEventNames
  Patterns <- MCPatterns
  Conversations = {g1, g2}
  Room = 1
  MaxIds = 2
  MaxStops = 0
PROPERTY EmitReturns
CHECK_DEADLOCK FALSE
