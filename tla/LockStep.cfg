SPECIFICATION FairSpec
CONSTANTS
  StepsPerSync = 2
  Threshold = 2
  MaxIterations = 2
  Depth = 2
  Faults = {"collector killed", "collector raises", "learner killed", "learner raises", "join times out"}
INVARIANTS
  OneTickInFlight
  NoSpuriousCollectorError
  QuiescedBeforeClose
PROPERTIES
  LearnerEnds
  CollectorEnds
