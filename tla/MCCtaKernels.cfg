CONSTANTS
  WordBytes = 2
  Launchable = {"fused", "reduction", "regex"}
  Texts <- MCTexts
  Threads = 6
  WarpSize = 2
  Programs = {"gpjson", "cujson"}
  FlaggedWords <- MCFlaggedWords
  BlockSize = 4
  Chunks <- MCChunks
  RegexTexts <- MCRegexTexts
  UnitBits = 3
  BlockDim = 5
  FirstOverlap = 2
  Overlap = 1
SPECIFICATION CtaSpec
INVARIANT FusedSnapshots
INVARIANT FusedCarries
INVARIANT ResultsCorrect
PROPERTY KernelsEnd
CHECK_DEADLOCK FALSE
