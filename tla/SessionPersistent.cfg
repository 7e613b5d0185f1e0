SPECIFICATION Spec
CONSTANTS
  r1 = r1
  r2 = r2
  Request = {r1, r2}
  NoRequest = NoRequest
  SeqOf <- DistinctSeq
  AutoReconnect = TRUE
  Heartbeat = TRUE
  Short = FALSE
  Posted = {"Connect", "Call", "SendTo"}
  Nested = {"Connect", "Call"}
  MaxConnects = 1
INVARIANTS TypeOK Accounted HeldAlive TimersMatch NoCrash RepliesMatch ConnectedIsUsable
PROPERTY ImplementsService
CHECK_DEADLOCK FALSE
