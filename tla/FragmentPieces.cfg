\* Elements of two frames two ticks apart in a ring of four slots, at every
\* offset in the ring, with and without a missing element, and windows at every
\* alignment to elements and frames.
CONSTANTS
  Size = 4
  MaxTimestamp = 20
  expected_tick_difference = 2
  num_frames = 2
  MaxSkipped = 1
  Mishaps = {}
  MaxFront = 1
  MaxWindow = 16
  Modulus = 64
SPECIFICATION RequestSpec
INVARIANTS
  ReturnsLowerBound
  PiecesInWindowInOrder
  NoErrorBitsMeansComplete
  PartialHasWhatWasThere
PROPERTY
  RequestEnds
