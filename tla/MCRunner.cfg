SPECIFICATION FairSpec
CONSTANTS
  Pids = {1, 2, 3}
  Leader = 2
  MaxForks = 2
  MaxTrouble = 1
INVARIANTS
  CleanupHonest
  AnchorHeld
PROPERTIES
  FirstCauseKept
  RunEnds
CHECK_DEADLOCK FALSE
