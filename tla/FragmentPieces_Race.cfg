\* A second gap while the first is registered: has_error() between the two halves
\* of add_error() finds none, and the lookup by division is used across the gap.
CONSTANTS
  Size = 4
  MaxTimestamp = 20
  expected_tick_difference = 2
  num_frames = 2
  MaxSkipped = 1
  Mishaps = {"second gap"}
  MaxFront = 1
  MaxWindow = 16
  Modulus = 64
SPECIFICATION RequestSpec
INVARIANT NoErrorBitsMeansComplete
