SPECIFICATION FairSpec
CONSTANTS
  N = 3
  Modes = {TRUE}
  BootIndices = {2}
  Scopes = {{"replicas"}}
  MaxTemplate = 1
  MaxSize = 1
  MaxEdits = 1
  MaxFaults = 0
PROPERTY EventuallyRolledOut
CHECK_DEADLOCK FALSE
