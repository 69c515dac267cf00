SPECIFICATION Spec
CONSTANTS
  A = A
  B = B
  C = C
  F = F
  h1 = h1
  NoPeer = NoPeer
  NoFile = NoFile
  NoBuffer = NoBuffer
  Cli = Cli
  Peers <- ThreePeers
  Files <- OneFile
  Handlers <- OneHandler
  NumBlocks = 2
  Shared <- BandCHaveF
  Neighbors <- Triangle
  Commands <- TwiceAndOwn
  MayCrash <- AandB
  MaxRestarts = 1
INVARIANT TypeOK
INVARIANT ResponseIsAnswer
INVARIANT PartialOnlyMidway
PROPERTY DownloadIsWholeUnlessExposed
PROPERTY WholeStaysWhole
CHECK_DEADLOCK FALSE
