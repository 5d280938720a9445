SPECIFICATION FairSpec
CONSTANTS
  Engines = {e1, e2}
  Browsers = {1, 2}
  Temp = Temp
  Profiles = {p1}
  Requests = {r1}
  NoBrowser = NoBrowser
  MaxBrowsers = 1
  MaxBlocks = 2
  MaxFaults = 1
  MaxEvents = 1
INVARIANTS
  NoneIsForgotten
PROPERTIES
  StoppedEnds
CHECK_DEADLOCK FALSE
