CONSTANTS
    s1 = s1
    s2 = s2
    k1 = k1
    k2 = k2
    e1 = e1
    e2 = e2
    Evictors <- MCEvictors
    Threads = {t1}
    Keys = {k1, k2}
    Stores = {s1, s2}
    SlotsOf <- MCSlotsOf
    Home = s1
    OnNode = {s1}
    Capacity = 1
    Requests <- MCRequests
    MaxPuts = 3
    MaxEvictions = 2
    MaxCalls = 2
    MaxFaults = 1
    None = None
SYMMETRY MCSymmetry
SPECIFICATION Spec
CHECK_DEADLOCK FALSE
INVARIANTS
    TypeOK
    ReadsHonest
    KnownToMeta
