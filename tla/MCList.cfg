SPECIFICATION Spec
CONSTANTS
  Nodes <- MCNodes
  Values = {1, 2}
INVARIANTS
  TypeOK
  FindsByPosition
  HoldsItsNodes
PROPERTY
  ImplementsList
