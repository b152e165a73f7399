CONSTANTS
  Node = {1, 2, 3}
  Initial <- MCLosses
  DeadRec = {1, 2, 3}
  DownCycles = 1
  Stability = 1
  Timely = TRUE
  Faults = {}
  MaxFaults = 0
  MaxEpoch = 5
SPECIFICATION FairSpec
PROPERTIES
  OutageEnds
