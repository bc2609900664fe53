CONSTANTS
  MaxTime = 2
  MaxRequests = 2
  MaxSyncs = 3
  MaxRuns = 2
  OrderlySource = TRUE
SPECIFICATION Spec
INVARIANT ConfiguredMeansProcessing
