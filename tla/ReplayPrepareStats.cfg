SPECIFICATION Spec
CONSTANTS
  Depth = 2
  Capacity = 2
  StepsPerSync = 1
  Threshold = 2
  MaxIterations = 3
  StatsModes = {TRUE}
INVARIANT BatchIsCommitted
CHECK_DEADLOCK FALSE
