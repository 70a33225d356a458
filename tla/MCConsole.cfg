SPECIFICATION Spec
CONSTANT
  Machines <- MCMachines
  Printable <- MCPrintable
CHECK_DEADLOCK FALSE
INVARIANTS
  TypeOK
  DrawsInsideMapping
  ShowsTranscript
  FormatRight
PROPERTY
  OverwritesOnlyLastRow
