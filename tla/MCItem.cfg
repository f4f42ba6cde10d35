SPECIFICATION FairItemSpec
CONSTANTS
  MaxRev = 2
  MaxStages = 5
  MaxCrashes = 1
INVARIANTS ItemTypeOK ReadyIsVerified AutomaticRepairOnce RepairIsVerified OneOpenStage ClosedLeavesNothingOpen
PROPERTIES HistoryImmutable ItemSettles
CHECK_DEADLOCK FALSE
