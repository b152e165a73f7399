CONSTANTS
  Node = {1, 2, 3}
  Contains <- OneContainsThree
  Initial = {1, 2, 3}
  Roaming = {3}
  Stability = 1
  MaxId = 6
  Faults = {"flux"}
  MaxFaults = 1
SPECIFICATION Spec
PROPERTY OnlyUndesiredRemoved
CHECK_DEADLOCK FALSE
