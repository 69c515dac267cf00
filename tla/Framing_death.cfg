SPECIFICATION Spec
CONSTANTS
  SendSize = 5
  UpdateHeader = 1
  FileHeader = 2
  IntSize = 1
  MaxUpdate = 4
  MaxFile = 8
  IntLimit = 32
  FirstReads <- WholePacket
  SenderMayDie = TRUE
  StorageMayFail = FALSE
PROPERTY ReceiverReturns
CHECK_DEADLOCK FALSE
