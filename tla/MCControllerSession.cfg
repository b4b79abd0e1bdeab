SPECIFICATION SessionFairSpec
CONSTANTS
    SockCount = 2
    HandshakeTicks = 2
    HandshakeAttempts = 2
    ResultTicks = 1
    ReplyLength = 2
    UserCount = 1
    MaxUsers = 224
    CellMax = 3
INVARIANTS
    CompareInTime
    WaitsForSomething
    SentMeansTranscript
PROPERTIES
    VerdictOverLiveSocket
    SendEnds
CHECK_DEADLOCK FALSE
