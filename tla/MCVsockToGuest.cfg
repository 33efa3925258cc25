SPECIFICATION Spec
CONSTANTS
  W = 3
  BufferSize = 1
  MaxPacket = 1
  MaxTurn = 2
  RxBuffers = 2
  RxRoom = 1
  SocketSize = 1
  SendSize = 2
  Allocs = {0, 2}
  MaxLen = 0
INVARIANTS
  SentInOrder
PROPERTIES
  WithinCredit
CHECK_DEADLOCK FALSE
