SPECIFICATION FairSpec
CONSTANTS
  Names = {b1, b2}
  S3 = {b2}
  NumDatabases = 2
  Workers = {w1}
  BackoffLimit = 2
  NoBackup = NoBackup
  Networks = {"prompt", "late"}
  MaxTries = 6
  MaxPatchFaults = 1
  MaxFaults = 2
  MaxLateTries = 1
  MaxLateFaults = 1
INVARIANTS TypeOK CompletedIsSynced RetriesBounded
PROPERTY ImplementsLifecycle
CHECK_DEADLOCK FALSE
