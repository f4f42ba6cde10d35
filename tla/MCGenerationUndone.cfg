SPECIFICATION GenerationSpec
CONSTANTS
  Modes <- AllModes
  MaxWrites = 1
  MaxEdits = 0
INVARIANT CancelledIsUndone
CHECK_DEADLOCK FALSE
