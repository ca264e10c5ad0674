SPECIFICATION DpFairSpec
CONSTANTS
  WorldSize = 2
  MaxIterations = 2
  UpdatesPerStep = 2
  PolicyFrequency = 2
  TargetFrequency = 1
  Gate = "sac"
  MaxBad = 1
  MaxFaults = 1
  MaxSignals = 1
  Faults = {"raise", "kill"}
INVARIANTS CollectivesMatch ReplicasAgree NothingSurvives FailureReported
PROPERTIES StatisticsAreGlobal EverythingEnds
