\* Two recovering jobs; the second failure reaches the longest delay and the
\* saturated count.
CONSTANTS
    j1 = j1
    j2 = j2
    Jobs = {j1, j2}
    Second = 1
    MaxDelay = 2
    MaxFailures = 2
    MaxTrouble = 1
SPECIFICATION FairSpec
INVARIANT BackoffKept
PROPERTY Retried
