SPECIFICATION GitSpec
CONSTANTS
  Files = 2
  Texts = {t1}
  Blob = Blob
  Absent = Absent
  Autos = {a1}
  Script = Script
  Trunk = trunk
  Branches = {trunk, side}
  Keep = 2
  MaxCommands = 4
  MaxTurns = 2
  MaxRestores = 1
  MaxFaults = 1
INVARIANTS
  TurnIsSnapshotted
  WorkIsKept
PROPERTIES
  HistoryGrows
CHECK_DEADLOCK FALSE
