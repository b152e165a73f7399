CONSTANTS
  Node = {1, 2, 3}
  View = {1, 2, 3}
  Samples <- MCSamples
SPECIFICATION Spec
INVARIANTS
  SelectionCorrect
CHECK_DEADLOCK FALSE
