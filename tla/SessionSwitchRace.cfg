SPECIFICATION Spec
CONSTANTS
  Tasks = {s, a}
  Configurers = {s, a}
  Cancellable = {}
  erase = erase
  param = param
  Commands <- MCCommands
  Variants <- MCVariants
  Parameterized <- MCParameterized
  Lacks <- MCLacks
  Framings = {f1, f2}
  None = None
  Closed = Closed
  MaxClients = 3
INVARIANT SingleInFlight
CHECK_DEADLOCK FALSE
