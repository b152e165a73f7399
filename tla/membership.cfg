CONSTANTS
  Node = {1, 2, 3}
  Contains <- Unalike
  Initial = {1, 2}
  Roaming = {3}
  Stability = 2
  MaxId = 6
  Faults = {"flux", "exit"}
  MaxFaults = 2
SPECIFICATION LiveSpec
INVARIANTS
  TypeOK
  EvictedAfterAbsence
PROPERTIES
  OnlyUndesiredRemoved
  Converges
