SPECIFICATION Spec
CONSTANTS
  MaxRetries = 3
  MaxPending = 2
  MaxItems = 4
  MaxBaud = 2
INVARIANT AllProbesTried
CHECK_DEADLOCK FALSE
