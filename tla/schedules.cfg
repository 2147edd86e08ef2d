SPECIFICATION FairScheduleSpec
CONSTANTS
  Names = {1, 2, 3, 4, 5, 6}
  Period = 3
  MaxTime = 6
  MaxEdits = 1
  MaxSlips = 1
INVARIANTS ScheduleTypeOK OneBackupPerSlot
PROPERTY SlotsAreServed
CHECK_DEADLOCK FALSE
