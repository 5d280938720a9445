SPECIFICATION StoreSpec
CONSTANTS
  c1 = c1
  c2 = c2
  Nobody = Nobody
  Uses <- MCUses
  Profiles <- MCProfiles
  Versions = {1, 2}
  Clients = {c1, c2}
  Rates = {1, 2}
  Minute = 2
  Cap <- MCCap
  MaxTurns = 3
  MaxClock = 3
  Pages = {"p1"}
  Senders = {"s1", "s2"}
  Depth = 1
  Endpoints = {"e1"}
  MaxEvents = 3
  MaxAsks = 1
  MaxRows = 2
  Tops = {"a", "git"}
  Skipped = {"git"}
  MaxChanges = 3
  Ids = {1}
  NoteDays = 1
  LearnedDays = 2
  RecentDays = 1
  Room = 1
  MaxDays = 3
  Records = {"a", "b"}
  Size = 3
  Blank = Blank
  Requests = {r1, r2}
  Bases = {b1}
  Unnamed = {}
  Widths = {0, 1}
  RPMs = {2}
  MaxBuilds = 2
  Texts = {x1, x2}
  Block = Block
  Asking = {Block, Sub}
  NoOne = NoOne
  NoText = NoText
  MaxChats = 2
  MaxAgents = 2
  MaxBlocks = 1
  MaxQuestions = 1
  MaxQueued = 1
  MaxCalls <- MCMaxCalls
  MaxFaults = 1
  MaxLives = 2
  MaxResets = 1
INVARIANTS
  WorkspaceIsSaved
  UsageIsExact
  SaidIsSo
  NothingUnapproved
  Fed
  TreeIsFollowed
  SlotsHold
  SavedInItsChat
PROPERTIES
  RecentIsLast
  DueIsForgotten
CHECK_DEADLOCK FALSE
