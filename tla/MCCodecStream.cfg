CONSTANTS
  KNOWN_WINDOWS <- MCWindows
  MAX_FRAME_LEN = 32
  Pieces <- MCPieces
  MaxPieces = 3
SPECIFICATION Spec
INVARIANTS
  BoundedWait
  FoundIsNeverUnknown
  RoundTrip
PROPERTIES
  StartStable
  TailKeepsStart
  ParseStable
CHECK_DEADLOCK FALSE
