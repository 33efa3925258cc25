SPECIFICATION PartSpec
CONSTANTS
  None = None
  Parts = {"park", "node"}
  Requests = {r1}
  After = 5
  Poll = 1
  NetdLimit = 1
  WaitLimit = 2
  HoldLimit = 1
PROPERTIES
  QuietIsParked
  ParkSparesRequests
  ParkSparesSessions
  RequestsEnd
  ShutdownEnds
CHECK_DEADLOCK FALSE
