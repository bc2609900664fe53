\* A cleanup passes the last element that has been processed.
CONSTANTS
  Processors = {p1}
  QueueSize = 3
  Configurations <- DelayedFromRing
  Capacity = 4
  Keep = 2
  MaxTsDiff = 3
  MaxTimestamp = 5
  MaxRuns = 1
SPECIFICATION Spec
INVARIANT PostsElementsOnly
