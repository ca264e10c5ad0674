SPECIFICATION Spec
CONSTANTS
  NumSlots = 2
  StepsPerEnv = 1
  PoolSize = 2
  MaxIterations = 2
  MaxRollouts = 3
  Faults = {}
INVARIANT OpensWholeRollout
CHECK_DEADLOCK FALSE
