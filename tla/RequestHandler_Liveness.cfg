\* One request or one recording.
CONSTANTS
  t1 = t1
  t2 = t2
  r1 = r1
  r2 = r2
  Threads = {t1, t2}
  Recorder = recorder
  Cleaner = cleaner
  NoTask = none
  Requests = {r1}
  WindowBegin <- OneWindowBegin
  WindowEnd <- OneWindowEnd
  Size = 4
  PopLimit = 1
  PopNum = 1
  PopDen = 2
  RetryEnabled = TRUE
  BatchSize = 1
  MaxTimestamp = 4
  MaxRecordings = 1
  MaxRuns = 1
  MaxWork = 1
SPECIFICATION MCFairSpec
PROPERTIES EveryRequestAnswered StopReturns
CHECK_DEADLOCK TRUE
