SPECIFICATION Spec
CONSTANTS
  Tasks = {s, a, b}
  Configurers = {s}
  Cancellable = {a, b}
  erase = erase
  param = param
  Commands <- MCCommands
  Variants <- MCVariants
  Parameterized <- MCParameterized
  Lacks <- MCLacks
  Framings = {f1, f2}
  None = None
  Closed = Closed
  MaxClients = 2
INVARIANTS
  TypeOK
  SingleInFlight
  RequestsMatchSession
  FramingAgrees
  BrokenIsSilent
  AvailabilityTruthful
PROPERTY CallsReturn
CHECK_DEADLOCK FALSE
