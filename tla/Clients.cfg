SPECIFICATION ClientsSpec
CONSTANTS
  Commands = {read, erase}
  Lacks = {erase}
  Misreads <- MCMisreads
  FrameSize = 3
  Lost = 1
  MaxCalls = 4
  Tasks = {a, b}
  Commanders = {b}
  Streamers = {a}
  MaxLines = 3
  MaxPending = 2
INVARIANTS
  StreamOrdered
  LagBounded
  DenialJustified
  QueuedLineIsNext
PROPERTIES
  StreamInOrder
  RefreshClears
CHECK_DEADLOCK FALSE
