SPECIFICATION FairSpec
CONSTANTS
    Topics <- TwoTopics
    Given <- ThreeEvents
    Strategies <- AllStrategies
    RowStrategies <- ByTableOrId
    Partitions = 2
    Hash <- HashOf
    Capacity = 2
INVARIANTS
    TypeOK
    StragglersWereRefused
    RowsStayTogether
PROPERTIES
    ImplementsSink
    CallEnds
