SPECIFICATION FairSpec
CONSTANTS
  MaxTsDiff = 2
  Word = 16
  MaxTimestamp = 5
  MaxRuns = 1
PROPERTIES ReadMoves
