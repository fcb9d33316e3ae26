CONSTANTS
    k1 = k1
    k2 = k2
    k3 = k3
    first = w1
    Keys = {k1, k2}
    NSlots = 2
    Writers = {w1, w2}
    Evictor = Evictor
    Reaper = Reaper
    Batches <- PairBatches
    Removals <- AnyRemovals
    Oversize = {}
    EvictTarget = 2
    MaxRounds = 2
    MaxPerRound = 1
    LoopBatch = 1
    HighWater = 1
    LowWater = 0
    Grace = 1
    MaxClock = 1
    Guarded = TRUE
    MaxCalls = 0
    NoSlot = NoSlot
    NoKey = NoKey
SPECIFICATION Spec
INVARIANTS
    TypeOK
    SlotOwnership
    PublishedIntact
PROPERTY
    GraceUnlessStaleClock
SYMMETRY
    Symmetry
