SPECIFICATION Spec
CONSTANTS
  Pids = {1, 2, 3}
  Leader = 2
  MaxMembers = 2
  MaxChurn = 2
  MaxFaults = 0
INVARIANTS
  PartialRowAudited
CHECK_DEADLOCK FALSE
