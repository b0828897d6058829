SPECIFICATION MCSpec
CONSTANTS
  NONE = NONE
  Chats = {h1, h2}
  Topics = {NONE}
  Threads = {p1}
  Webhook = FALSE
  Capacity = 1
  MaxUpdates = 3
  MaxCrashes = 1
  Turns = {t1, t2}
  Notes = {n1}
  Registry <- MCRegistry
  QueueCapacity = 2
  NoAccount = NoAccount
  MaxPieces = 1
  MaxFaults = 1
INVARIANTS
  MessagesKept
  FinalsShown
CHECK_DEADLOCK FALSE
