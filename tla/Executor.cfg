SPECIFICATION ExecutorFairSpec
CONSTANTS
    Mains = {m1}
    Subs = {s1}
    Server = server
    Ids = {1, 2}
    Host = host
    None = none
    Handles = {h1}
    MaxLines = 3
    Cap = 2
    Retries = 1
INVARIANTS
  ExitedMeansAllRead
PROPERTIES
  NoneOutlives
CHECK_DEADLOCK FALSE
