SPECIFICATION FairSpec
CONSTANTS
  N = 3
  Modes = {TRUE, FALSE}
  BootIndices = {0, 1}
  Scopes = {{"template", "size"}, {"template", "replicas"}, {"template", "podIndex"}}
  MaxTemplate = 2
  MaxSize = 2
  MaxEdits = 2
  MaxFaults = 1
INVARIANTS TypeOK UpdateExcludesResize
PROPERTIES OneDownAtATime PrimaryLast UpdatesFinish
CHECK_DEADLOCK FALSE
