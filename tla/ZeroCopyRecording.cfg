\* Chunks of one and a third frames, over more than three turns of the buffer;
\* the model ends with the elements and the one recording.
SPECIFICATION Spec
CONSTANTS
  Size = 4
  FrameSize = 3
  AlignmentSize = 2
  ChunkSize = 4
  ChunksPerLoop = 2
  PopLimit = 1
  MaxTimestamp = 14
  MaxRecordings = 1
INVARIANTS WritesBufferedData FileIsContiguous DirectWritesAligned
CHECK_DEADLOCK FALSE
