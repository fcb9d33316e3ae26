CONSTANTS
    IOThreads = {t1, t2}
    Channels = {"LOCAL_SSD_READ", "NET_TX_READ"}
    MaxFailures = 1
    HighBit = 4
    MaxCalls = 2
    MaxReports = 1
    MaxOutages = 1
    MaxTimeouts = 1
SPECIFICATION Spec
CHECK_DEADLOCK FALSE
INVARIANTS
    TypeOK
    NoPhantomIO
    BypassProbed
PROPERTIES
    CountedUntilReported
    DestructorReturns
