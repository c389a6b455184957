CONSTANTS
  KNOWN_WINDOWS <- MCWindows
  MAX_FRAME_LEN = 28
  kBase = 2000
  kCount = 7
  REG_OPERATING_MODE = 2001
  REG_COMPRESSOR_FREQ = 2006
  kMax = 4
  PayloadCap = 2
  ACC_CAP = 22
  Streams <- MCStreams
  ReadSizes = {4, 9, 22}
  PolledWindows <- MCPolled
  ClockSize = 16
  StartTimes = {14}
  PollDeadline = 3
  ResponseTimeout = 2
  PreflightWindow = 3
  PreflightRead = 2
  MaxLate = 1
  MaxCalls = 1
SPECIFICATION Spec
INVARIANT NoFrameOfAnyWindow
CHECK_DEADLOCK FALSE
