CONSTANTS
    TotalBytes = 10
    ConfigSlotSizes = {0, 2, 3, 11}
    Sizes = {0, 1, 2, 3, 4, 11}
    MaxBatch = 3
    MaxOffset = 10
    U32 = 8
SPECIFICATION Spec
INVARIANTS
    TypeOK
    SlotPartition
    UsageExact
    CapacityRespected
PROPERTY
    PoolSpec
