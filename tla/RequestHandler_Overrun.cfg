CONSTANTS
  t1 = t1
  t2 = t2
  r1 = r1
  r2 = r2
  Threads = {t1}
  Recorder = recorder
  Cleaner = cleaner
  NoTask = none
  Requests = {}
  WindowBegin <- NoWindows
  WindowEnd <- NoWindows
  Size = 4
  PopLimit = 1
  PopNum = 1
  PopDen = 2
  RetryEnabled = TRUE
  BatchSize = 3
  MaxTimestamp = 9
  MaxRecordings = 1
  MaxWork = 2
  MaxRuns = 1
SPECIFICATION MCSpec
INVARIANT CursorNotOverrun
CHECK_DEADLOCK TRUE
