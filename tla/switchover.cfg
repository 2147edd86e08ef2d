SPECIFICATION FairSpec
CONSTANTS
  N = 3
  BootIndices = {0}
  AutomaticFailover = FALSE
  InformerLag = FALSE
  PrimariesReachable = FALSE
  GenericRefusal = FALSE
  MaxEdits = 1
  MaxDowns = 0
  MaxRestarts = 1
  MaxSqlFaults = 1
  MaxPatchFaults = 0
  MaxData = 2
  MaxEpoch = 6
INVARIANTS
  TypeOK
  AtMostOnePrimary
PROPERTIES
  EpochNeverRegresses
  PrimaryChangesHands
  EventuallySettled
