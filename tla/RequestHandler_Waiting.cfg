CONSTANTS
  t1 = t1
  t2 = t2
  r1 = r1
  r2 = r2
  Threads = {t1, t2}
  Recorder = recorder
  Cleaner = cleaner
  NoTask = none
  Requests = {r1, r2}
  WindowBegin <- TwoWindowsBegin
  WindowEnd <- TwoWindowsEnd
  Size = 5
  PopLimit = 2
  PopNum = 1
  PopDen = 2
  RetryEnabled = TRUE
  BatchSize = 2
  MaxTimestamp = 6
  MaxRecordings = 0
  MaxWork = 2
  MaxRuns = 2
SPECIFICATION MCSpec
INVARIANT NoRequestWaitsWhenStopped
CHECK_DEADLOCK TRUE
