SPECIFICATION Spec
CONSTANTS
  Requests = {r1}
  After = 6
  Poll = 1
  NetdLimit = 1
  WaitLimit = 7
  HoldLimit = 12
PROPERTY ParkSparesSessions
CHECK_DEADLOCK FALSE
