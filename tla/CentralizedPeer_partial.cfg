SPECIFICATION Spec
CONSTANTS
  A = A
  B = B
  F = F
  w1 = w1
  w2 = w2
  h1 = h1
  h2 = h2
  s1 = s1
  NoPeer = NoPeer
  NoReply = NoReply
  NoFile = NoFile
  Cli = Cli
  Peers <- TwoPeers
  Files <- OneFile
  Workers <- OneWorker
  Handlers <- TwoHandlers
  ReplicationFactor = 2
  Sockets <- OneSocket
  NumBlocks = 2
  Shared <- AHasF
  Commands <- AllListAndFetch
  MayCrash <- Nobody
  MaxRestarts = 0
PROPERTY DownloadIsWhole
CHECK_DEADLOCK FALSE
