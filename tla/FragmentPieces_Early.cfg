\* A window that begins before one element's ticks, and a payload that is written between
\* the search and good(): found, without its frames.
CONSTANTS
  Size = 4
  MaxTimestamp = 20
  expected_tick_difference = 2
  num_frames = 2
  MaxSkipped = 1
  Mishaps = {}
  MaxFront = 1
  MaxWindow = 16
  Modulus = 64
SPECIFICATION RequestSpec
INVARIANT EarlyFoundIsComplete
