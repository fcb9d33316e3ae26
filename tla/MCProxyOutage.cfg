CONSTANTS
    IOThreads = {t1}
    Channels = {"LOCAL_SSD_READ"}
    MaxFailures = 3
    HighBit = 16
    MaxCalls = 8
    MaxReports = 0
    MaxOutages = 2
    MaxTimeouts = 0
SPECIFICATION Spec
CHECK_DEADLOCK FALSE
INVARIANT
    NeverTerminates
