CONSTANTS
  WordBytes = 2
  Batches <- MCBatches
  ResidentCapacity = 2
  Threads = 2
  WarpSize = 2
  Warmups = 1
  Runs = 1
  FirstRunEpoch = 3
  MaxEpoch = 4
  FlaggedWords <- MCFlaggedWords
SPECIFICATION Spec
INVARIANT TypeOK
INVARIANT FlagsMeanFresh
INVARIANT PublishedStringsCorrect
INVARIANT OutputCorrect
INVARIANT OneOwner
INVARIANT NoOrphanWait
PROPERTY ImplementsChain
CHECK_DEADLOCK FALSE
