SPECIFICATION FairSpec
CONSTANTS
  Roles = {"guardian", "collector"}
  Pids = {1, 2, 3}
  Leader = 1
  MaxForks = 2
  MaxDescendants = 2
  MaxTrouble = 1
INVARIANTS
  NothingLeft
  
  GraceGiven
PROPERTY
  ContainmentEnds
CHECK_DEADLOCK FALSE
