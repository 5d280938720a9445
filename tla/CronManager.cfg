SPECIFICATION FairSpec
CONSTANTS
  once = once
  every = every
  wrong = wrong
  c1 = c1
  c2 = c2
  k1 = k1
  k2 = k2
  NoChat = NoChat
  Absent = Absent
  FirstChats = {}
  Jobs = {once, every, wrong}
  OneShots = {once}
  Invalid = {wrong}
  AiJobs = {every}
  Clients = {c1}
  Chats = {k1}
  MaxLives = 2
  MaxCalls = 1
INVARIANTS
  EntryHasRow
  OncePerLife
PROPERTIES
  KeptUntilRun
  DueIsRun
