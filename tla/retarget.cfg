SPECIFICATION Spec
CONSTANTS
  N = 3
  BootIndices = {0}
  AutomaticFailover = FALSE
  InformerLag = FALSE
  PrimariesReachable = FALSE
  GenericRefusal = FALSE
  MaxEdits = 2
  MaxDowns = 0
  MaxRestarts = 1
  MaxSqlFaults = 1
  MaxPatchFaults = 0
  MaxData = 1
  MaxEpoch = 5
INVARIANTS
  AtMostOnePrimary
