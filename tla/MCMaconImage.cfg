CONSTANTS
  KNOWN_WINDOWS <- UnitWindows
  MAX_FRAME_LEN = 256
  kBase = 2000
  kCount = 143
  REG_OPERATING_MODE = 2049
  REG_COMPRESSOR_FREQ = 2141
  REG_WORKING_MODE = 2096
  REG_FAULT_RUNSTATE = 2007
  REG_FAULTS = {2125, 2126, 2127, 2128}
  MACON_FAULT_BITS <- UnitFaultBits
  FieldMap <- UnitFields
  FlagMap <- UnitFlags
  NumberCalls <- MCNumberCalls
  FlagCalls <- MCFlagCalls
  ModeCalls <- MCModeCalls
  FaultIds <- MCFaultIds
  FaultCodes <- MCFaultCodes
  FaultSites <- MCFaultSites
  Ingests <- MCIngests
  Writes <- MCWrites
  Pokes <- MCPokes
  MaxOps = 3
SPECIFICATION Spec
INVARIANTS
  TypeOK
  DecodeTellsTheFaults
  FaultIsReported
PROPERTIES
  ImplementsPanel
  WritesAsServed
CHECK_DEADLOCK FALSE
