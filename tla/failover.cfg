SPECIFICATION Spec
CONSTANTS
  N = 3
  BootIndices = {0, 1}
  AutomaticFailover = TRUE
  InformerLag = FALSE
  PrimariesReachable = TRUE
  GenericRefusal = TRUE
  MaxEdits = 1
  MaxDowns = 1
  MaxRestarts = 0
  MaxSqlFaults = 1
  MaxPatchFaults = 0
  MaxData = 1
  MaxEpoch = 4
INVARIANTS
  OnePrimaryPerEpoch
PROPERTIES
  EpochNeverRegresses
  PrimaryChangesHands
