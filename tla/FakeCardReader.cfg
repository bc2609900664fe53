\* Two links; in detail the second, so that conf fails before, at and after it.
\* Rounds of one and two units of time, of which four pass in a run; a deadline
\* missed by more than one is given up.  Four commands configure, fail, start and
\* start again, with timestamps that may begin earlier than the last run's.
CONSTANTS
  Periods = {1, 2}
  m_max_overshoot = 1
  MaxTime = 4
  Setups <- Typical
  ElementSize = 2
  num_frames = 1
  m_time_tick_diff = 2
  HitInterval = 3
  FirstTimestamps = {0, 5}
  Outputs <- TwoLinks
  Detailed = 2
  MaxCommands = 4
SPECIFICATION CardSpec
INVARIANTS
  NeverFaster
  PayloadsFollowFile
  DataNotAheadOfClock
  FramesAsConfigured
  FilesWhileProducing
  RefusedOnlyAfterFailure
PROPERTY StopReturns
