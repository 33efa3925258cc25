SPECIFICATION Spec
CONSTANTS
  None = None
  Tasks = {t1}
  Ids = {i1}
  Names = {n1}
  Slots = {s1}
  Fallible = {"boot"}
  MaxBoot = 4
  MaxContent = 1
  MaxCrashes = 1
INVARIANT NamedIsWhole
CHECK_DEADLOCK FALSE
