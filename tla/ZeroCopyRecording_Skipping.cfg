SPECIFICATION FairSpec
CONSTANTS
  Size = 3
  FrameSize = 3
  AlignmentSize = 2
  ChunkSize = 4
  ChunksPerLoop = 2
  PopLimit = 1
  MaxTimestamp = 3
  MaxRecordings = 1
PROPERTIES RecordingEnds
CHECK_DEADLOCK FALSE
