SPECIFICATION Spec
CONSTANTS
    Parts = {"wheel", "io", "holder", "group", "coh"}
    Timer = {"once", "circle"}
    Circle = {"circle"}
    NoTimer = "none"
    Intervals = {0, 3}
    GRANULARITY = 1
    WHEEL_SIZE1 = 2
    WHEEL_SIZE2 = 2
    WHEEL_NUM = 2
    MaxLag = 2
    MaxBack = 0
    MaxConns = 2
    threadnum = 4
    Servers = 2
    IndexSize = 4
    MaxAccepts = 9
    MsgThread = {1, 2}
    self_priority <- MCSelfPriority
    Message = {"m1", "m2", "m3"}
    NoMessage = "none"
    MaxReports = 3
    MaxCommands = 1
    NamesSide <- MCNoSide
    IdsSide <- MCNoSide
    HttpConn = {"c1"}
    Watched = "c1"
    MaxRequests = 0
    MaxDials = 0
    Client = {}
    No = {}
    Handlers <- MCNoHandlers
    MaxCalls = 0
INVARIANTS OnePlaceEach NothingOutlived
PROPERTIES ImplementsService Served StopEnds
CHECK_DEADLOCK FALSE
