SPECIFICATION MemorySpec
CONSTANTS
  Configurations <- IntrinsicUnaligned
  MaxConfs = 2
INVARIANT OwnsUsableMemory
