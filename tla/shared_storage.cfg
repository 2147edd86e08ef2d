SPECIFICATION Spec
CONSTANTS
  Names = {b1}
  S3 = {}
  NumDatabases = 2
  Workers = {w1}
  BackoffLimit = 2
  NoBackup = NoBackup
  Networks = {"prompt"}
  MaxTries = 1
  MaxPatchFaults = 0
  MaxFaults = 0
  MaxLateTries = 1
  MaxLateFaults = 0
PROPERTY AllDatabasesBackedUp
CHECK_DEADLOCK FALSE
