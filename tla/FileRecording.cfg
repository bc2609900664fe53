\* Elements of three units, a buffer of four and an alignment of two, O_DIRECT,
\* three runs; the model ends with the elements and the commands.
SPECIFICATION RecorderSpec
CONSTANTS
  ElementSize = 3
  StreamBufferSize = 4
  Alignment = 2
  UseODirect = TRUE
  QueueSize = 2
  MaxElements = 6
  MaxRuns = 3
INVARIANTS FileHoldsRecording
CHECK_DEADLOCK FALSE
