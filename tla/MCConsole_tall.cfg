SPECIFICATION Spec
CONSTANT
  Machines <- MCOtherMachines
  Printable <- MCPrintable
CHECK_DEADLOCK FALSE
INVARIANT
  ClearsDisplay
