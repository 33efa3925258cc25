SPECIFICATION Spec
CONSTANTS
  Callers = {c1}
  Clients = {l1}
  MaxConns = 2
  MaxPending = 1
  MaxHandshakes = 1
  MaxPort = 3
  EventWrap = 2
  RxBuffers = 1
  None = None
INVARIANTS
  GuestHearsOfClose
  CancelHitsOwn
  ConnectsAfterReset
  TakesTurns
CHECK_DEADLOCK FALSE
