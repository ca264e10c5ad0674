SPECIFICATION FairSpec
CONSTANTS
  Depth = 2
  Capacity = 3
  StepsPerSync = 2
  Threshold = 3
  MaxIterations = 3
  StatsModes = {TRUE, FALSE}
INVARIANTS
  NeverRefused
  PrefetchIsFresh
  GatherSeesCommitted
PROPERTIES
  KernelsReadTheirBatch
  UpdatesFinish
