\* Elements of two frames two ticks apart in a ring of four slots, at every
\* offset in the ring, with and without a missing element, and windows at every
\* alignment to elements and frames.
CONSTANTS
  Size = 4
  MaxTimestamp = 24
  expected_tick_difference = 2
  num_frames = 2
  MaxSkipped = 1
  Mishaps = {}
  MaxFront = 5
  MaxWindow = 14
  Modulus = 64
SPECIFICATION RequestSpec
INVARIANT
  NotFoundOnlyWithoutData
