SPECIFICATION Spec
CONSTANTS
    Writers = {w1}
    Inodes = {i1, i2, i3, i4}
    short = short
    long = long
    Checkpoints <- TwoCheckpoints
    Size <- TwoSizes
    NoInode = NoInode
    NoCheckpoint = NoCheckpoint
    Empty = Empty
    Torn = Torn
SYMMETRY InodeSymmetry
INVARIANTS
    TypeOK
    PartialOnlyIfCut
    SyncedBeforeVisible
PROPERTY ImplementsRegister
