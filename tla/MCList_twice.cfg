SPECIFICATION Spec
CONSTANTS
  Nodes <- MCNodes
  Values = {1, 2}
INVARIANT
  FreesWhatItHas
