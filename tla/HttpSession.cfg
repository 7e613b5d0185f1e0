SPECIFICATION Spec
CONSTANT MaxRequests = 4
INVARIANTS TypeOK  AskedMatches ClosedWhenDeleted
 
CHECK_DEADLOCK FALSE
