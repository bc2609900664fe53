\* Twice the base rate of hits, configured twice with a scrap in between.
CONSTANTS
  Periods = {1}
  m_max_overshoot = 1
  MaxTime = 2
  Setups <- DoubleRate
  ElementSize = 2
  num_frames = 1
  m_time_tick_diff = 2
  HitInterval = 3
  FirstTimestamps = {0}
  Outputs <- TwoLinks
  Detailed = 2
  MaxCommands = 2
SPECIFICATION CardSpec
INVARIANT HitsAtConfiguredRate
