CONSTANTS
  Retain = 2
  Cap = 4
  Sizes = {1, 2, 5}
  MaxDumps = 5
  Faults <- FaultKind
  MaxFaults = 3
SPECIFICATION Spec
INVARIANTS
  LatestKept
  RetentionHolds
PROPERTY ImplementsStore
CHECK_DEADLOCK FALSE
