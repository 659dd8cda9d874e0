CONSTANTS
  WordBytes = 2
  Benchmarks = {"gp_hierarchy", "gp_control", "gp_baseline", "gp_input", "cu_hierarchy", "cu_control", "targeted"}
  Texts <- MCTexts
  BaselineTexts <- MCBaselineTexts
  CuTexts <- MCCuTexts
  TargetedTexts <- MCTargetedTexts
  Segments = 4
  Mappings = {"original", "coalesced", "word"}
  WarpSize = 2
  ScanThreads = 2
  BlockThreads = 4
  RecoveryBlocks = 1
  TileThreads = 4
  Programs = {"gpjson", "cujson"}
  FlaggedWords <- MCFlaggedWords
  Launches = 2
SPECIFICATION StreamsSpec
INVARIANT QueuesExact
INVARIANT ParityRecovered
INVARIANT IncomingStates
INVARIANT StringsReplaceQuotes
INVARIANT ErrorWordComplete
INVARIANT OutputsAreLookback
INVARIANT OutputsCorrect
PROPERTY StreamsDrain
CHECK_DEADLOCK FALSE
