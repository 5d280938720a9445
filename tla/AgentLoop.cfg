SPECIFICATION FairSpec
CONSTANTS
  MaxTurns = 2
  MaxIter = 4
  MaxBlocks = 1
  MaxInjects = 1
  Window = 2
  Results = {"large"}
INVARIANTS
  NothingForgotten
PROPERTIES
  TurnsImplemented
  TurnEnds
