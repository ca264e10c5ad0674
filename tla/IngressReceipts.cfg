SPECIFICATION Spec
CONSTANTS
  Depth = 2
  MaxChunks = 3
PROPERTY CopyAfterPublication
CHECK_DEADLOCK FALSE
