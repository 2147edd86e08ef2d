SPECIFICATION FairSpec
CONSTANTS
  N = 3
  Modes = {TRUE}
  BootIndices = {0}
  Scopes = {{"template"}}
  MaxTemplate = 2
  MaxSize = 2
  MaxEdits = 1
  MaxFaults = 0
PROPERTY PrimaryAfterUpdate
CHECK_DEADLOCK FALSE
