SPECIFICATION Spec
CONSTANTS
  N = 2
  BootIndices = {0}
  AutomaticFailover = FALSE
  InformerLag = TRUE
  PrimariesReachable = FALSE
  GenericRefusal = FALSE
  MaxEdits = 1
  MaxDowns = 0
  MaxRestarts = 1
  MaxSqlFaults = 0
  MaxPatchFaults = 1
  MaxData = 2
  MaxEpoch = 5
INVARIANTS
  AtMostOnePrimary
