SPECIFICATION RecorderSpec
CONSTANTS
  ElementSize = 3
  StreamBufferSize = 4
  Alignment = 2
  UseODirect = TRUE
  QueueSize = 2
  MaxElements = 6
  MaxRuns = 3
INVARIANTS AlignedBufferIsWritten
CHECK_DEADLOCK FALSE
