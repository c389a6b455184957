CONSTANTS
  KNOWN_WINDOWS <- MCWindows
  MAX_FRAME_LEN = 18
  kBase = 2000
  kCount = 7
  REG_OPERATING_MODE = 2001
  REG_COMPRESSOR_FREQ = 2006
  Telemetry <- MCTelemetry
  Streams <- MCStreams
  ReadSizes = {1, 7, 18}
  MAX_READS = 6
  SetpointAddrs = {0, 1}
  MODE_ADDR = 1
  Celsius = {12}
  Modes = {}
  RegisterNumbers = {}
  Values = {}
  MaxCalls = 1
SPECIFICATION Spec
INVARIANT AnswerReadIsTaken
CHECK_DEADLOCK FALSE
