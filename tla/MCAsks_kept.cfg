SPECIFICATION MCFair
CONSTANTS
  MaxAsks = 2
  MaxCrashes = 1
  Chats = {h1}
  Topics = {NONE}
  Threads = {p1}
  Webhook = FALSE
  Capacity = 1
  MaxUpdates = 2
  NONE = NONE
PROPERTIES
  ImplementsDecision
  AsksEnd
  RepliesRelayed
  EveryMessageHandled
CHECK_DEADLOCK FALSE
