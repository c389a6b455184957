CONSTANTS
  KNOWN_WINDOWS <- MCWindows
  MAX_FRAME_LEN = 18
  kBase = 2000
  kCount = 7
  REG_OPERATING_MODE = 2001
  REG_COMPRESSOR_FREQ = 2006
  kMax = 2
  PayloadCap = 2
  kAccSize = 20
  Streams <- MCStreams
  ChunkSizes = {1, 9, 24}
  MaxResets = 1
SPECIFICATION FairSpec
INVARIANTS
  TypeOK
  AccIsStreamSlice
  AccumulatorHasRoom
  NothingLeftBehind
  ImageIsLatest
  CatalogCounts
  StatsTellTheStream
  ResultTellsTheCall
PROPERTIES
  ReadsTheStream
  CallsReturn
CHECK_DEADLOCK FALSE
