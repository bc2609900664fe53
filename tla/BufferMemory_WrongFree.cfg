SPECIFICATION MemorySpec
CONSTANTS
  Configurations <- NumaIntrinsic
  MaxConfs = 2
INVARIANTS FreedByItsAllocator
