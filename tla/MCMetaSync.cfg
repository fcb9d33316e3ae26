CONSTANTS
    k1 = k1
    w1 = w1
    w2 = w2
    Keys <- OneKey
    Putters <- OnePutter
    BatchPutters <- OneRemover
    Removers <- OneRemover
    Committer = Committer
    Reconnector = Reconnector
    FirstConnect = {TRUE, FALSE}
    PushSize = 1
    MaxAttempts = 2
    MaxPuts = 2
    MaxOutages = 2
SPECIFICATION Spec
CHECK_DEADLOCK FALSE
INVARIANTS
    TypeOK
    NothingForgotten
    GhostsExplained
PROPERTY
    NoticedOutagesRepaired
