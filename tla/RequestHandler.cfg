\* Two requests, or a request and a recording, with two request threads and a ring
\* that is written, cleaned up and wrapped around.
CONSTANTS
  t1 = t1
  t2 = t2
  r1 = r1
  r2 = r2
  Threads = {t1, t2}
  Recorder = recorder
  Cleaner = cleaner
  NoTask = none
  Requests = {r1, r2}
  WindowBegin <- TwoWindowsBegin
  WindowEnd <- TwoWindowsEnd
  Size = 4
  PopLimit = 1
  PopNum = 1
  PopDen = 2
  RetryEnabled = TRUE
  BatchSize = 2
  MaxTimestamp = 4
  MaxRecordings = 1
  MaxRuns = 1
  MaxWork = 2
SPECIFICATION MCSpec
SYMMETRY RequestSymmetry
INVARIANTS
  PiecesStayBuffered RequestsAtOnePlace DueRetriesConclude QuietWhenStopped FrontNeverNull
  RecordingHasNoGap RecordsBufferedElement
CHECK_DEADLOCK TRUE
