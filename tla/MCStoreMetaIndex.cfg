CONSTANTS
    Keys = {k1, k2, k3}
    Sentinel = Sentinel
    Null = Null
    AllocSizes = {1, 2}
    MaxBatch = 2
SPECIFICATION Spec
INVARIANTS
    TypeOK
    ListExact
    CountExact
    CandidatesJustEnough
PROPERTY
    OrderSpec
