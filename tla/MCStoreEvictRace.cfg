CONSTANTS
    k1 = k1
    k2 = k2
    k3 = k3
    first = w1
    Keys = {k1, k2, k3}
    NSlots = 1
    Writers = {w1}
    Evictor = Evictor
    Reaper = Reaper
    Batches <- SoloBatches
    Removals <- AnyRemovals
    Oversize = {}
    EvictTarget = 1
    MaxRounds = 2
    MaxPerRound = 1
    LoopBatch = 1
    HighWater = 0
    LowWater = 0
    Grace = 1
    MaxClock = 1
    Guarded = FALSE
    MaxCalls = 4
    NoSlot = NoSlot
    NoKey = NoKey
SPECIFICATION Spec
INVARIANT
    PublishedIntact
