SPECIFICATION Spec
CONSTANTS
  Savers = {s1, s2}
  MaxSaves = 2
INVARIANT PublishedWhole
CHECK_DEADLOCK FALSE
