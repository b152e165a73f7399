CONSTANTS
  Node = {1, 2, 3}
  Initial <- TotalLoss
  DeadRec = {1, 2, 3}
  DownCycles = 1
  Stability = 1
  Timely = FALSE
  Faults <- FaultKind
  MaxFaults = 1
  MaxEpoch = 3
SPECIFICATION Spec
INVARIANTS
  TypeOK
  OneDataEpoch
PROPERTY ImplementsLine
PROPERTY LastEtcdDataKept
