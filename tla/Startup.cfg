SPECIFICATION Spec
CONSTANTS
    EventReserve = 1
    MinOverhead = 1
    UpdatesPerStep = 3
    PolicyFrequency = 2
    TargetFrequency = 2
    PolicyBeforeCritic = FALSE
    Configurations <- MCConfigurations
    FreeBytes = {327, 520, 690}
    ShmBytes = {150, 200}
    MaxIterations = 3
    SaveInterval = 2
    MaxRuns = 3
    MaxFaults = 2
INVARIANTS
    TrainingFollowsReference
    PreflightCovers
    ResourceLifetimes
CHECK_DEADLOCK FALSE
