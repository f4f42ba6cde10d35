SPECIFICATION ExecutionSpec
CONSTANTS
  MaxFiles = 2
  MaxSaves = 0
  MaxFaults = 0
INVARIANT EndedIsSettled
CHECK_DEADLOCK FALSE
