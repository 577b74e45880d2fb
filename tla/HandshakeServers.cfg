SPECIFICATION FairSpec
CONSTANTS
    Trailing = {TRUE, FALSE}
    CopyAnswers = {"copyOut", "copyBoth"}
    MaxAttempts = 3
INVARIANTS
    TypeOK
    LagIsExact
    
    StreamIsReal
PROPERTY HandshakeEnds
CHECK_DEADLOCK FALSE
