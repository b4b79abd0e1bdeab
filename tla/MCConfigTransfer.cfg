SPECIFICATION FairSpec
CONSTANTS
    BlockCount = 2
    UserCount = 1
    ConnectionTimeout = 2
    SettleTicks = 1
    BlockTimeout = 2
    PostImageTimeout = 2
    FinalStatusTimeout = 2
    FinalStatusCount = 2
    MaxConnectionRetries = 1
    MaxBlockRetries = 1
    StatusLength = 5
    MaxInFlight = 9
    MaxBuffered = 9
CHECK_DEADLOCK FALSE
INVARIANTS
    TypeOK
    CompletedMeansPermanent
    CommitFollowsWholeImage
PROPERTIES
    KeepsLifecycle
    Terminates
