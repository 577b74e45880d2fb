SPECIFICATION Spec
CONSTANTS
    WordSize = 4
    Wal <- Single
    PayloadTagged = FALSE
    MaxRetries = 5
    MaxFaults = 0
    MaxStops = 0
    MaxStatuses = 2
INVARIANT PublishedOrGivenUp
