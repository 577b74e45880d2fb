SPECIFICATION Spec
CONSTANTS
    WordSize = 4
    Wal <- Single
    PayloadTagged = TRUE
    MaxRetries = 5
    MaxFaults = 1
    MaxStops = 0
    MaxStatuses = 2
INVARIANT AtLeastOnce
