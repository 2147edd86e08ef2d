SPECIFICATION FairSpec
CONSTANTS
  Scopes = {{"database"}, {"user", "grant"}}
  SkipCleanup = {}
  MaxSecret = 2
  MaxEdits = 3
  MaxFaults = 1
INVARIANTS TypeOK
PROPERTIES FinalizedIsDropped LiveObjectsStay Converges DeletionsEnd
CHECK_DEADLOCK FALSE
