SPECIFICATION FairAppoSpec
CONSTANTS
  NumSlots = 2
  StepsPerEnv = 1
  PoolSize = 2
  MaxIterations = 4
  MaxRollouts = 4
  Faults = {"raise", "kill", "update"}
  ActorParams = 2
  CriticParams = 1
INVARIANTS
  ReadsPublished
  IntactUnlessLapped
  HeldLag
  CollectedLag
PROPERTIES
  StagedOnceInOrder
  TrainsOnNewRollout
  AppoEnds
