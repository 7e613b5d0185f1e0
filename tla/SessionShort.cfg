SPECIFICATION Spec
CONSTANTS
  r1 = r1
  r2 = r2
  Request = {r1, r2}
  NoRequest = NoRequest
  SeqOf <- DistinctSeq
  AutoReconnect = FALSE
  Heartbeat = FALSE
  Short = TRUE
  Posted = {"Call", "Close"}
  Nested = {}
  MaxConnects = 1
INVARIANT NoDanglingSession
PROPERTY ImplementsService
CHECK_DEADLOCK FALSE
