CONSTANTS
  KNOWN_WINDOWS <- MCWindows
  MAX_FRAME_LEN = 18
  kBase = 2000
  kCount = 7
  REG_OPERATING_MODE = 2001
  REG_COMPRESSOR_FREQ = 2006
  Telemetry <- MCTelemetry
  Streams <- MCStreams
  ReadSizes = {1, 7, 18}
  MAX_READS = 6
  SetpointAddrs = {0, 1}
  MODE_ADDR = 1
  Celsius <- MCCelsius
  Modes = {2, 6}
  RegisterNumbers = {2002, 2003, 2006, 2007}
  Values = {85}
  MaxCalls = 2
SPECIFICATION FairSpec
INVARIANTS
  TypeOK
  OkIsAnAnswer
  MissedOnlyIfTorn
  NackIsAnException
  StoreHasRoom
  WritesWhatWasAsked
PROPERTY CallsReturn
CHECK_DEADLOCK FALSE
