SPECIFICATION ExecutionSpec
CONSTANTS
  MaxFiles = 3
  MaxSaves = 2
  MaxFaults = 2
INVARIANTS ExecutionTypeOK ExecutedIsRecorded OutcomeAgrees
PROPERTY ResultsStand
CHECK_DEADLOCK FALSE
