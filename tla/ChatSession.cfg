SPECIFICATION Spec
CONSTANTS
  s1 = s1
  s2 = s2
  qa = qa
  qb = qb
  Chats = {c1}
  Sessions = {s1,s2}
  Requests = {qa}
  Msgs = {m1}
  MaxRuns = 2
  Ops <- All
  Scripts = {"ask", "subagent"}
  NoSession = NoSession
  NoChat = NoChat
SYMMETRY Symmetry
VIEW View
CONSTRAINT FewWithSubAgents
INVARIANTS
  RunningMeansOneRun
  QueuedOnce
  ReplayIsOfThisRun
PROPERTIES
  TurnsImplemented
