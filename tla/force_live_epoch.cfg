CONSTANTS
  Node = {1, 2, 3}
  Initial <- Healthy
  DeadRec = {1, 2, 3}
  DownCycles = 1
  Stability = 1
  Timely = FALSE
  Faults = {"exit"}
  MaxFaults = 2
  MaxEpoch = 2
SPECIFICATION Spec
PROPERTIES
  ForceOnlyDeadEpoch
