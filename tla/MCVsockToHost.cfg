SPECIFICATION FairSpec
CONSTANTS
  W = 4
  BufferSize = 2
  MaxPacket = 1
  MaxTurn = 2
  RxBuffers = 1
  RxRoom = 1
  SocketSize = 1
  SendSize = 0
  Allocs = {1}
  MaxLen = 3
INVARIANTS
  TypeOK
  BufferBounded
  ForwardedInOrder
  DeadlineDropsNothing
  FailedLeavesNone
  IndInv
PROPERTIES
  CreditReturns ShutdownCompletes CloseCompletes
CHECK_DEADLOCK FALSE
