\* Four slots hold three elements: the ring fills, empties and wraps at every
\* offset, and pop(x) removes one, some and all of them.
CONSTANTS
  Size = 4
  Elements = {a, b}
  NoElement = NoElement
  MaxOverflow = 1
SPECIFICATION Spec
CHECK_DEADLOCK TRUE
INVARIANTS
  SlotsMatchIndices
  IteratorAtLiveElement
  IteratorReachesAll
 
PROPERTY
  ImplementsLatencyBuffer
