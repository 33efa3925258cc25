SPECIFICATION PartSpec
CONSTANTS
  Parts = {"output", "processes", "services", "exec", "control", "overlay", "tree", "transfer", "feed", "ports", "stream", "resize", "stall", "input", "restart", "windows", "dialogs", "notes", "shell", "block", "net", "machine", "fs"}
INVARIANTS
  SessionsSafe
  AgentSafe
  FilesSafe
  ScreenSafe
  DesktopSafe
  DevicesSafe
CHECK_DEADLOCK FALSE
