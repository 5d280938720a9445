\* Two tasks of one queue whose limit may change, and one connection.
SPECIFICATION FairSpec
CONSTANTS
    Root = Root
    Tasks = {t1, t2}
    NoTask = NoTask
    Queues = {q1}
    NoQueue = NoQueue
    Limits = {1, 2}
    Keys = {db}
    Secretive = {}
    Buckets = {}
    Conns = {d1}
    Openers = {t1}
    MaxIds = 2
    NoKey = NoKey
INVARIANTS
  QueueHolds
  ToldOnce
PROPERTIES
  CancelledEnds
CHECK_DEADLOCK FALSE
