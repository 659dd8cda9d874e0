CONSTANTS
  Algorithms = {"oracle", "word", "scan", "utf8", "chunks", "cujson"}
  Texts <- MCTexts
  MaxBytes = 4
  WordBytes = 6
  MaxRun = 12
  ScanThreads = 3
  MaxItems = 9
  Utf8Texts <- MCUtf8Texts
  PartsPerWord = 1
  ChunkTexts <- MCChunkTexts
  ChunkBytes = 4
  OutputWordBytes = 2
  InputTexts <- MCInputTexts
  GroupBytes = 2
  bitmap_words_per_thread = 2
  Threads = 3
  NonAscii <- MCNonAscii
  FlaggedWords <- MCFlaggedWords
SPECIFICATION AlgorithmsSpec
INVARIANT CountOracleCorrect
INVARIANT ToggleOracleCorrect
INVARIANT ShiftsAndAddition
INVARIANT ScanIsPrefixXor
INVARIANT Utf8FlagsAgree
INVARIANT PrefixIsState
INVARIANT AppliedChunksCorrect
INVARIANT PreparedRowsCorrect
CHECK_DEADLOCK FALSE
