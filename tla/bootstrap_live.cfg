CONSTANTS
  Node = {1, 2, 3}
  Views <- MCViews3
  Cycles = 1
  AllowNew = {3}
  AllowAny = {3}
  AutoFresh = {1, 2, 3}
  DeadRec = {1, 2, 3}
  InitialPg <- MCPg3
  LivePg <- MCLive3
  InitialLeft = {}
  Faults = {"stop", "exit", "noanswer"}
  MaxFaults = 1
  MaxEpoch = 2
SPECIFICATION FairSpec
INVARIANTS
  RecoveryKeepsBestCopy
  FoundingNeverForks
PROPERTIES
  DeploymentForms
  FoundsOnce
CHECK_DEADLOCK FALSE
