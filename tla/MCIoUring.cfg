CONSTANTS
    Callers = {c1, c2}
    Size = 2
    QueueDepth = 4
    MaxFaults = 0
SPECIFICATION Spec
CHECK_DEADLOCK FALSE
INVARIANT
    BlocksUntilComplete
