SPECIFICATION SyncSpec
CONSTANTS
  Tables <- MCTables
  MaxSamples = 3
  MaxBatch = 2
  MaxOpens = 2
INVARIANTS
  AckedIsHeld
  RaisedIsAbsent
  AssertionsExplained
  LeftIsQuiet
PROPERTY BatchesWhole
CHECK_DEADLOCK FALSE
