SPECIFICATION FairSpec
CONSTANTS
  r1 = r1
  r2 = r2
  Request = {r1, r2}
  NoRequest = NoRequest
  SeqOf <- DistinctSeq
  AutoReconnect = TRUE
  Heartbeat = FALSE
  Short = FALSE
  Posted = {"Call"}
  Nested = {}
  MaxConnects = 1
PROPERTIES WireSettled DialSettles
CHECK_DEADLOCK FALSE
