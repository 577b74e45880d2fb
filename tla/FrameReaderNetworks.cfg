SPECIFICATION FairSpec
CONSTANTS
    HeaderSize = 2
    Ends <- SixFrames
    Kinds <- SixKinds
    Networks = {"frames", "pieces"}
    MaxGarbage = 3
INVARIANTS
    TypeOK
    WholeFramesInStep
    OnlyCutsLose
    AnswersInOrder
PROPERTIES
    EveryFrameDelivered
    AsksAnswered
CHECK_DEADLOCK FALSE
