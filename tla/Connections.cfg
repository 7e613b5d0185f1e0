SPECIFICATION Spec
CONSTANTS
    ThriftMessage <- MCThriftMessage
    HttpMessage <- MCHttpMessage
    Reserved = {"a=b"}
    Zone = 1
    ThriftSide <- MCThriftSide
    HttpSide <- MCHttpSide
    CutsSide <- MCCutsSide
    QuietSide <- MCQuietSide
    OverlapSide <- MCOverlapSide
    HttpConn = {"c1"}
    Watched = "c1"
    MaxRequests = 3
    MaxDials = 2
INVARIANTS   WrittenWhole OldWritesSpare
PROPERTY Served
CHECK_DEADLOCK FALSE
