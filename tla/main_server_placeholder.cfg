SPECIFICATION Spec
CONSTANTS
  MaxWorkers = 2
  Attempts = 5
  Foreign = {{1}}
  MaxChild = 1
INVARIANT NeverPanics
CHECK_DEADLOCK FALSE
