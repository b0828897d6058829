SPECIFICATION MCSpec
CONSTANTS
  Keys = {"k", "auto"}
  AutoKeys = {"auto"}
  LearnKeys = {"learning"}
  Texts = {"x", "y"}
  Owners = {"s1", "s2"}
  Tasks = {t1, t2}
  NoRow = NoRow
  MaxStores = 3
  Editors = {e1, e2}
  Sizes = {2, 3}
  FileLimit = 10
  MaxEdits = 5
  SkillNames = {s1}
  SkillAgents = {a1, a2, a3}
  SkillLines = {x, y}
  MaxCalls = 4
  Skills = {s1}
  Workspace = {s1}
  Agents = {a1, a2}
  MaxUses = 1
  MaxJournal = 2
  Callers = {c1, c2}
  EventNames <- MCEventNames
  Patterns <- MCPatterns
  Conversations = {h1, h2}
  Room = 1
  MaxIds = 2
  MaxStops = 1
  Handlers = {t1, t2}
  SessionKeys = {k1, k2}
  Profiles = {a1}
  NoAgent = NoAgent
  MaxTurns = 6
  Lines <- MCLines
  Space = 1
  MaxTime = 4
  MaxFailures = 1
  MaxDeaths = 2
  Kinds <- MCKinds
  NoToolCall = "none"
  MaxPayload = 4
  Models = {"m1", "m2", "m3"}
  Builtin <- MCBuiltin
  MaxHistory = 4
  MaxPieces = 5
  MaxFragments = 1
  Prompters = {p1, p2}
  Nobody = Nobody
  MaxPrompts = 2
  MaxUpdates = 2
  Marks <- MCMarks
  Words <- MCWords
  Questions = {"hi", "task"}
  Sayings = {"fine", "promise", ""}
  NoContent = NoContent
  ToolNames = {"file_read", "memory_store"}
  NativeModels = {"default"}
  MaxRetries = 1
  MaxRounds = 3
  NudgeEvery = 1
  MaxPast = 2
  MaxMinutes = 1
  KeyProviders = {"gemini"}
  LocalProviders = {"ollama"}
  Custom = "custom"
  CheapProviders = {"openrouter"}
  Sections = {"telegram"}
  Unset = Unset
  NoModel = ""
  Given <- MCGiven
  MaxVisits = 1
  MaxFetches = 2
  Users = {u1, u2}
  NoUser = NoUser
  NumTabs = 2
  Acts = {"get_value", "accept_dialog", "tab_switch", "close"}
  MaxActs = 2
  MaxLaunches = 1
  MaxSockets = 2
  MaxCrashes = 1
  Helpers = {h1}
  Main = Main
  GoalIds = {g1}
  MaxSaves = 2
  MaxBoots = 1
  Boxes = {b1}
  TodoIds = {"1", "2", "?"}
  BadIds = {"", "?"}
  MaxPosts = 3
  Bots = {"c1", "c2"}
  Wanted <- MCWanted
  OthersWant = {"m1", "m2"}
  NoMeeting = "none"
  MaxJoins = 2
  MaxCaptions = 1
  ToolCallers = {a1, a2}
  Boot = Boot
  NoReader = NoReader
  MaxRequests = 5
  MaxUnasked = 1
INVARIANTS
  BoardsKept
  MeetKept
  AnalysedEveryFive
  AnswersAreOwn
  TurnAnswers
  WireIsFaithful
  MemoryFindable
  FileWithinLimit
  EarlyOnlyAfterCut
PROPERTIES
  SkillsStayGone
  WatchersKept
  SavedIsAsked
CHECK_DEADLOCK FALSE
