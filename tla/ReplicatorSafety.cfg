SPECIFICATION Spec
CONSTANTS
    WordSize = 4
    Wal <- Overlapping
    PayloadTagged = TRUE
    MaxRetries = 1
    MaxFaults = 2
    MaxStops = 1
    MaxStatuses = 1
INVARIANTS
    TypeOK
    NoSilentLoss
    ReadPrefixHandled
    FirstDeliveryInOrder
    DuplicatesNeedRestart
PROPERTY ImplementsChangeStream
