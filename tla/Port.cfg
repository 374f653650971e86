SPECIFICATION PortSpec
CONSTANTS
  MaxRetries = 3
  MaxPending = 2
  MaxItems = 4
  MaxBaud = 2
  Shown <- MCShown
  Floats <- MCFloats
  ArgValues <- MCArgValues
  Noise <- MCNoise
  Displays <- MCDisplays
  Spellings <- MCSpellings
INVARIANTS
  PortFollowsOutcome
  DetectedIsSpoken
  FirstSampleKept
  SweepAccounted
  RequestReadBack
  AnswersRead
  WrongFramesSeen
  TextReadTrue
PROPERTY OpenEnds
CHECK_DEADLOCK FALSE
