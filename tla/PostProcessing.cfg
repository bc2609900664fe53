\* Delayed post-processing from a skip list with late payloads and cleanups, and
\* immediate post-processing from a ring that overflows, as the queue does; two
\* runs.
CONSTANTS
  Processors = {p1}
  QueueSize = 2
  Configurations <- Usual
  Capacity = 3
  Keep = 1
  MaxTsDiff = 3
  MaxTimestamp = 5
  MaxRuns = 2
SPECIFICATION FairSpec
INVARIANTS PostedOnceInOrder EveryAcceptedPosted DrainedWhenStopped
PROPERTY StopReturns
