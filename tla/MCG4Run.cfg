SPECIFICATION Spec
CONSTANTS
  Modes = {"g4", "legacy"}
  MaxRows = 3
  MaxTrouble = 1
INVARIANTS
  SuccessHonest
  CleanupHonest
  
PROPERTY
  BarrierKept
CHECK_DEADLOCK FALSE
