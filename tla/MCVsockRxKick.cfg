SPECIFICATION Spec
CONSTANTS
  Size = 2
  Batch = 1
  MaxResets = 2
  MaxData = 1
INVARIANT RxNotForgotten
