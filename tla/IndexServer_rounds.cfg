SPECIFICATION Spec
CONSTANTS
  A = A
  B = B
  C = C
  F = F
  w1 = w1
  w2 = w2
  s1 = s1
  s2 = s2
  NoPeer = NoPeer
  NoReply = NoReply
  Peers <- ThreePeers
  Files <- OneFile
  Workers <- TwoWorkers
  ReplicationFactor = 3
  Sockets <- TwoSockets
  MaxArrivals = 4
  MayLeave <- OnlyC
INVARIANT TypeOK
INVARIANT OneRound
PROPERTY ImplementsCatalogue
PROPERTY GivesUpLast
PROPERTY HandlersReturn
CHECK_DEADLOCK FALSE
