SPECIFICATION Spec
CONSTANTS
  NumEnvs = 2
  Interval = 2
  History = 3
  QueueSizes = {1, 2}
  PipeSize = 1
  MaxTicks = 7
INVARIANTS
  EpisodesAccounted
  SummaryIsComplete
