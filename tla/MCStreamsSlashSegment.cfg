CONSTANTS
  WordBytes = 2
  Benchmarks = {"gp_hierarchy"}
  Texts <- SlashSegmentTexts
  BaselineTexts <- MCBaselineTexts
  CuTexts <- MCCuTexts
  TargetedTexts <- MCTargetedTexts
  Segments = 4
  Mappings = {"original", "coalesced", "word"}
  WarpSize = 2
  ScanThreads = 2
  BlockThreads = 4
  RecoveryBlocks = 1
  TileThreads = 4
  Programs = {"gpjson", "cujson"}
  FlaggedWords <- MCFlaggedWords
  Launches = 1
SPECIFICATION StreamsSpec
INVARIANT OutputCorrect
CHECK_DEADLOCK FALSE
