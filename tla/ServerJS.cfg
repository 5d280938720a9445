SPECIFICATION FairSpec
CONSTANTS
  c1 = c1
  c2 = c2
  Absent = Absent
  Clients = {c1, c2}
  Segments <- MCSegments
  Paths <- MCPaths
  Scripts <- MCScripts
  Edited <- MCEdited
  Sites <- MCSites
  Outside <- MCOutside
  CacheMax = 1
  CacheTTL = 1
  MaxClock = 2
  MaxRequests = 3
  MaxEdits = 1
INVARIANTS
  VmIsSerial

  
CHECK_DEADLOCK FALSE
