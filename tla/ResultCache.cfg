SPECIFICATION Spec
CONSTANTS
  Tasks = {a, b}
  p07 = p07
  p08 = p08
  p50 = p50
  capacity = capacity
  Parameters <- MCParameters
  Entries <- MCEntries
  Source <- MCSource
  Unit = p07
  Silent <- MCSilent
  Panel = {p50}
  Values = {v1, v2}
  Modulus = 2
  Ack = Ack
  None = None
  MaxChanges = 2
SYMMETRY Symmetry
INVARIANTS
  CacheSound
PROPERTY ReadsAreFresh
CHECK_DEADLOCK FALSE
