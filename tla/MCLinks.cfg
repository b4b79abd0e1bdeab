SPECIFICATION MCSpec
CONSTANTS
    SiteSettings = {"home"}
    NoSettings = "none"
    Images = {"i1"}
    SocketCount = 2
    AskedMax = 1
    InboxMax = 1
    Clients = {"a", "b"}
    Interval = 3
    Timeout = 9
    AnswerMax = 5
    Browsers = {"a", "b"}
    Hosts = {"a", "b", "c"}
    Private = {"a", "b"}
    Concurrency = 2
    Outputs = {"o", "p"}
    LevelsSeen = {"on", "off"}
INVARIANTS SocketsFit ServiceFits
PROPERTIES RecoveryIsOwn DialogEndsByAnswer RecoverySettles PairDiesTogether WholeOrNothing
CHECK_DEADLOCK FALSE
