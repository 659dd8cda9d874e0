CONSTANTS
  Algorithms = {"utf8"}
  Texts <- MCTexts
  MaxBytes = 4
  WordBytes = 6
  MaxRun = 12
  ScanThreads = 3
  MaxItems = 9
  Utf8Texts <- StrayTexts
  PartsPerWord = 1
  ChunkTexts <- MCChunkTexts
  ChunkBytes = 4
  OutputWordBytes = 2
  InputTexts <- MCInputTexts
  GroupBytes = 2
  bitmap_words_per_thread = 2
  Threads = 3
  NonAscii <- MCNonAscii
  FlaggedWords <- MCFlaggedWords
SPECIFICATION AlgorithmsSpec
INVARIANT FlagsInvalid
CHECK_DEADLOCK FALSE
