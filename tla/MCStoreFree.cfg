CONSTANTS
    k1 = k1
    k2 = k2
    k3 = k3
    first = w1
    Keys = {k1, k2, k3}
    NSlots = 1
    Writers = {w1, w2}
    Evictor = Evictor
    Reaper = Reaper
    Batches <- DuelBatches
    Removals <- DuelRemovals
    Oversize = {k3}
    EvictTarget = 1
    MaxRounds = 2
    MaxPerRound = 1
    LoopBatch = 1
    HighWater = 0
    LowWater = 0
    Grace = 0
    MaxClock = 0
    Guarded = FALSE
    MaxCalls = 3
    NoSlot = NoSlot
    NoKey = NoKey
SPECIFICATION Spec
PROPERTIES
    OperationsReturn
    NoSpaceJustified
