SPECIFICATION Spec
CONSTANTS
  Setups <- MCSetups
  Rates = {r1, r2}
  Addresses = {a1, a2}
  ReaderCommands = {"read_temperature", "read_net_hires", "save_menu"}
  ReaderRaws <- MCReaderRaws
  MaxIndex = 1
  MaxCalls = 2
  MaxFaults = 1
  MaxPanel = 1
SYMMETRY Symmetry
INVARIANTS
  RateKept
  KnowledgeTrue
  ChangesAreConfirmed
CHECK_DEADLOCK FALSE
