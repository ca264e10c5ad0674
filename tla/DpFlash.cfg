SPECIFICATION Spec
CONSTANTS
  WorldSize = 2
  MaxIterations = 1
  UpdatesPerStep = 2
  PolicyFrequency = 2
  TargetFrequency = 1
  Gate = "flash"
  MaxBad = 1
  MaxFaults = 0
  Faults = {}
INVARIANT ReplicasAgree
