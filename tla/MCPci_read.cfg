SPECIFICATION Spec
CONSTANTS
  Machines <- MCExpressMachines
  Entries <- MCEntries
  Devices <- MCDevices
  Registers = {0, 64}
CHECK_DEADLOCK FALSE
INVARIANT
  ReadChangesNothing
