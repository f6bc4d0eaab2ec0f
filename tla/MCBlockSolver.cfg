SPECIFICATION FairSpec
CONSTANTS
  N = 3
  T = 1
  NonceMax = 4
  TimeMod = 4
  Timestamp = 1
  NoTarget = NoTarget
  NoWorker = NoWorker
  BitsTargets <- MCTargets
  ArgTargets <- MCArgs
INVARIANTS
  Partition
  Exhaustive
  ReportsSound
  RangesPerTime
PROPERTIES
  Terminates
  Solves
  ImplementsSearch
