CONSTANTS
  Node = {1, 2}
  Initial <- OneOrTwoDatabases
  MaxSys = 3
  AllowWipe = {1, 2}
  Timely = TRUE
  Faults = {"wipe", "daemon", "exit", "keys", "recovery"}
  MaxFaults = 3
SPECIFICATION LiveSpec
INVARIANT TypeOK
PROPERTIES
  WipeKeepsAuthority
  Heals
