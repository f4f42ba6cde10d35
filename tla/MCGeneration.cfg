SPECIFICATION FairGenerationSpec
CONSTANTS
  Modes <- AllModes
  MaxWrites = 2
  MaxEdits = 1
INVARIANTS GenerationTypeOK AcceptedIsRecorded  OutcomeStands
PROPERTIES JobSettles
CHECK_DEADLOCK FALSE
