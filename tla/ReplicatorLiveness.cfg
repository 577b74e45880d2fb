SPECIFICATION FairSpec
CONSTANTS
    WordSize = 4
    Wal <- TwoTransactions
    PayloadTagged = TRUE
    MaxRetries = 1
    MaxFaults = 2
    MaxStops = 1
    MaxStatuses = 1
PROPERTIES
    EventuallyHandled
    StopIsHonoured
