\* A payload for a full ring.
CONSTANTS
  Processors = {p1}
  QueueSize = 3
  Configurations <- ImmediateFromRing
  Capacity = 2
  Keep = 1
  MaxTsDiff = 3
  MaxTimestamp = 4
  MaxRuns = 1
SPECIFICATION Spec
INVARIANT FullBufferIsOverwritten
