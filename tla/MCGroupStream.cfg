SPECIFICATION Spec
CONSTANTS
  MaxSamples = 4
  Rss = {0, 2, 3}
  Avail = {1, 2}
  RssStop = 2
  AvailableStop = 2
  EscalationStop = 1
INVARIANTS
  
  DecisionAgrees
  AcceptedIsObserved
CHECK_DEADLOCK FALSE
