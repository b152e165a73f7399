CONSTANTS
  Node = {1, 2, 3}
  Views <- MCViewsLeft
  Cycles = 1
  AllowNew = {}
  AllowAny = {}
  AutoFresh = {}
  DeadRec = {1, 2, 3}
  InitialPg <- MCPg
  LivePg <- MCLive
  InitialLeft = {}
  Faults = {"view"}
  MaxFaults = 1
  MaxEpoch = 3
SPECIFICATION Spec
INVARIANTS
  OneAuthorityPerView
CHECK_DEADLOCK FALSE
