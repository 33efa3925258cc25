SPECIFICATION Spec
CONSTANTS
  None = None
  Tasks = {t1, t2}
  Ids = {i1, i2}
  Names = {n1, n2}
  Slots = {s1, s2}
  Fallible = {"make", "memory", "thread", "boot", "bury"}
  MaxBoot = 2
  MaxContent = 1
  MaxCrashes = 1
SYMMETRY Symmetry
INVARIANTS BootTellsDisk OneVmPerSandbox QuietWhileReplaced SlotsConserved RunsAsRecorded OneDirPerName NamedInPlace ShutdownStopsAll
CHECK_DEADLOCK FALSE
