SPECIFICATION PartSpec
CONSTANTS
  Parts = {"launch", "netd", "save", "stack", "relay", "egress", "allow", "heads", "secrets", "client", "stdio", "async", "hub", "forward", "store", "lapse"}
INVARIANTS
  LaunchAndSaveSafe
  NetworkSafe
  ClientsSafe
PROPERTIES
  ImplementsDisk
CHECK_DEADLOCK FALSE
