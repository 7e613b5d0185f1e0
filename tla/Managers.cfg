SPECIFICATION Spec
CONSTANTS
    Parts = {"wheel", "names", "ids", "examples", "clients"}
    Timer = {"t"}
    Circle = {}
    NoTimer = "none"
    Intervals = {0, 1, 2, 3, 4, 5, 6, 7, 8, 9, 10, 11, 12, 13, 14, 15}
    GRANULARITY = 2
    WHEEL_SIZE1 = 2
    WHEEL_SIZE2 = 2
    WHEEL_NUM = 3
    MaxLag = 5
    MaxBack = 2
    MaxConns = 0
    threadnum = 2
    Servers = 1
    IndexSize = 2
    MaxAccepts = 0
    MsgThread = {1}
    self_priority <- MCSelfPriority
    Message = {}
    NoMessage = "none"
    MaxReports = 0
    MaxCommands = 0
    NamesSide <- MCNamesSide
    IdsSide <- MCIdsSide
    HttpConn = {"c1", "c2"}
    Watched = "c1"
    MaxRequests = 3
    MaxDials = 2
    Client = {"a", "b"}
    No = {"n1", "n2"}
    Handlers <- MCHandlers
    MaxCalls = 2
    n1 = n1
    n2 = n2
INVARIANTS OnTime AnsweredTruly
PROPERTIES SessionsKept FeedsSessions
CHECK_DEADLOCK FALSE
