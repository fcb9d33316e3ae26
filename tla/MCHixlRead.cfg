CONSTANTS
    Readers = {r1, r2}
    Batches <- MCBatches
    Fallback = TRUE
    MaxRetry = 1
    MaxReads = 3
    MaxFaults = 2
    None = None
SYMMETRY MCSymmetry
SPECIFICATION Spec
CHECK_DEADLOCK FALSE
INVARIANTS
    TypeOK
    LeasesAccounted
    TransferCovered
    HandlesReleased
    EngineAlive
