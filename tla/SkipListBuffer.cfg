\* Payloads in any order and without end, two ticks or more apart being too old, and two runs.
CONSTANTS
  MaxTsDiff = 2
  Word = 16
  MaxTimestamp = 5
  MaxRuns = 2
SPECIFICATION FairSpec
INVARIANTS CleanupIsExact
PROPERTY CleanupEnds
