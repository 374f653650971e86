SPECIFICATION Spec
CONSTANTS
  Ticks = 5
  Period = 2
  Capacity = 1
  BatchSize = 2
  FlushInterval = 3
  Horizon = 12
INVARIANTS
  TicksAccounted
PROPERTIES
  SkipsMissedSlots
  StoresInOrder
  LeavingEnds
CHECK_DEADLOCK FALSE
