\* Two runs, with configurations and scraps around them, two DAQ times, as
\* many requests, and TimeSyncs that are lost.
CONSTANTS
  MaxTime = 2
  MaxRequests = 2
  MaxSyncs = 3
  MaxRuns = 2
  OrderlySource = TRUE
SPECIFICATION FairSpec
INVARIANTS TimeSyncsAreFresh RequestsCountedInTheirRun
PROPERTY LastTimeIsAnnounced
