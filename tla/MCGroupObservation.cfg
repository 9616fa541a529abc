SPECIFICATION Spec
CONSTANTS
  Pids = {1, 2, 3}
  Leader = 2
  MaxMembers = 2
  MaxChurn = 3
  MaxFaults = 1
INVARIANTS
  MembershipBracketed
  LiveWasLive
  AuditorAgrees
CHECK_DEADLOCK FALSE
