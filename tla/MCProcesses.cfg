\* Two handlers for one proof; three workers; two submissions for a pool of one
\* and a queue of one, stopped by two callers.
CONSTANTS
    Handlers = {h1, h2}
    h1 = h1
    h2 = h2
    MaxDispatches = 1
    MaxProofs = 1
    Workers = {a, b, c}
    a = a
    b = b
    c = c
    \* one tick without a heartbeat is too long
    Timeout = 0
    MaxTrouble = 2
    Jobs = {1, 2}
    Submitters = {s1, s2}
    s1 = s1
    s2 = s2
    Pool = {p1}
    p1 = p1
    Callers = {c1, c2}
    c1 = c1
    c2 = c2
    QueueSize = 1
SPECIFICATION MCSpec
INVARIANTS
    CleanupOrdered
    ProvingBounded
    RoundRobin
PROPERTY Progress
\* A process that was shut down, and a stopped executor, take no more steps.
CHECK_DEADLOCK FALSE
