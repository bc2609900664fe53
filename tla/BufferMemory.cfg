\* Three calls of conf with any of the supported configurations, in builds with and
\* without libnuma, and allocations that fail.
CONSTANTS
  Configurations <- Supported
  MaxConfs = 3
SPECIFICATION MemoryFairSpec
INVARIANT OwnsUsableMemory
PROPERTY ConfReturns
