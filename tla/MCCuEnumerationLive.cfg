CONSTANTS
  WordBytes = 2
  Batches <- MCLiveBatches
  ResidentCapacity = 2
  Threads = 2
  WarpSize = 2
  Warmups = 1
  Runs = 1
  FirstRunEpoch = 3
  MaxEpoch = 4
  FlaggedWords <- MCFlaggedWords
SPECIFICATION FairSpec
PROPERTY BenchmarkEnds
CHECK_DEADLOCK FALSE
