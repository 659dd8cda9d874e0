CONSTANTS
  WordBytes = 2
  Texts <- MCTexts
  ResidentCapacity = 2
  Threads = 2
  WarpSize = 2
  Launches = 2
  Orders = {TRUE, FALSE}
SPECIFICATION FairSpec
INVARIANT FlagsCertify
INVARIANT VotersAgree
INVARIANT OutputCorrect
PROPERTY ImplementsChain
PROPERTY BenchmarkEnds
CHECK_DEADLOCK FALSE
