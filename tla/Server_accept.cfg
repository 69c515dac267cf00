CONSTANTS
  Workers = {w1, w2, w3}
  Connections = {c1, c2, c3}
  ServerLoop = ServerLoop
  NoJob = NoJob
  Backlog = 2
SPECIFICATION Spec
INVARIANTS
  TypeOK
  AcceptNeverBlocks
  InOrderOfArrival
PROPERTIES
  EveryConnectionHandled
  StopEndsOrSleeps
CHECK_DEADLOCK FALSE
