SPECIFICATION Spec
CONSTANTS
  Setups <- MCSetups
  Rates = {r1, r2}
  Addresses = {a1, a2}
  ReaderCommands = {"read_temperature", "read_net_hires", "save_menu"}
  ReaderRaws <- MCReaderRaws
  MaxIndex = 1
  MaxCalls = 1
  MaxFaults = 0
  MaxPanel = 0
INVARIANT
  HelpersRefuse
CHECK_DEADLOCK FALSE
