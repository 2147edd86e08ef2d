SPECIFICATION Spec
CONSTANTS
  N = 3
  D = 2
  StatusPrimary = 0
  MaxEpochSeen = 2
  MaxTime = 2
INVARIANTS
  TypeOK
  ScanFindsPrimary
  CandidateIsFreshest
  PickIsFreshest
CHECK_DEADLOCK FALSE
