SPECIFICATION Spec
CONSTANTS
  SendSize = 5
  UpdateHeader = 1
  FileHeader = 2
  IntSize = 1
  MaxUpdate = 8
  MaxFile = 14
  IntLimit = 16
  FirstReads <- AnyRead
  SenderMayDie = TRUE
  StorageMayFail = TRUE
INVARIANT TypeOK
INVARIANT Delivered
INVARIANT Understood
INVARIANT StaysInBuffer
PROPERTY MessageArrives
CHECK_DEADLOCK FALSE
