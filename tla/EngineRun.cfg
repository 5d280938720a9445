SPECIFICATION FairSpec
CONSTANTS
  t1 = t1
  t2 = t2
  h1 = h1
  h2 = h2
  Nobody = Nobody
  Turns = {t1, t2}
  CronTurns = {t2}
  Scripts = {}
  Handles = {h1}
  Timeout = 2
  MaxClock = 3
  MaxBlocks = 1
INVARIANTS
  RunsAreSerial
  NotEarly
PROPERTIES
  RunEnds
