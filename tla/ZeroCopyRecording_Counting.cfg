SPECIFICATION Spec
CONSTANTS
  Size = 3
  FrameSize = 4
  AlignmentSize = 2
  ChunkSize = 6
  ChunksPerLoop = 2
  PopLimit = 1
  MaxTimestamp = 4
  MaxRecordings = 2
INVARIANTS CountsWhatIsWritten
CHECK_DEADLOCK FALSE
