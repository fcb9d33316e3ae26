CONSTANTS
    c1 = c1
    c2 = c2
    Callers = {c1, c2}
    Workers = {w1}
    PoolThreads = {p1}
    Handlers = {h1}
    MaxPuts = 1
    MetaModes = {TRUE}
    Calls <- CallsOf
    Outages <- NoOutage
    None = None
SPECIFICATION Spec
CHECK_DEADLOCK FALSE
INVARIANTS
    TypeOK
    NothingFreedInUse
    PutsFinished
PROPERTY
    CloseReturns
