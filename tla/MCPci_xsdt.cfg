SPECIFICATION Spec
CONSTANTS
  Machines <- MCMachines
  Entries <- MCEntries
  Devices <- MCDevices
  Registers = {0, 64}
CHECK_DEADLOCK FALSE
INVARIANT
  MissingTableIsMissing
