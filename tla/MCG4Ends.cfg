SPECIFICATION FairSpec
CONSTANTS
  Modes = {"g4", "legacy"}
  MaxRows = 2
  MaxTrouble = 0
PROPERTY
  SupervisorEnds
CHECK_DEADLOCK FALSE
