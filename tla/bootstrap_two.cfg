CONSTANTS
  Node = {1, 2}
  Views <- MCViews2
  Cycles = 2
  AllowNew = {}
  AllowAny = {}
  AutoFresh = {1, 2}
  DeadRec = {1, 2}
  InitialPg <- MCPg3
  LivePg <- MCLive3
  InitialLeft = {2}
  Faults <- MCFaults
  MaxFaults = 4
  MaxEpoch = 3
SPECIFICATION Spec
INVARIANTS
  TypeOK
  FreshNeverOverData
  RecoveryKeepsBestCopy
  FoundingNeverForks
PROPERTY ImplementsAtomicFounding
CHECK_DEADLOCK FALSE
