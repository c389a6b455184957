CONSTANTS
  KNOWN_WINDOWS <- UnitWindows
  MAX_FRAME_LEN = 256
  kBase = 2000
  kCount = 143
  REG_OPERATING_MODE = 2049
  REG_COMPRESSOR_FREQ = 2141
  REG_WORKING_MODE = 2096
  REG_FAULT_RUNSTATE = 2007
  REG_FAULTS = {2125, 2126, 2127, 2128}
  MACON_FAULT_BITS <- UnitFaultBits
  FieldMap <- UnitFields
  FlagMap <- UnitFlags
  s_advanced <- UnitParams
  SetpointCalls <- MCSetpointCalls
  ModeCalls = {3}
  RegisterCalls <- MCRegisterCalls
  ParamCalls <- MCParamCalls
  PolledWindows <- UnitWindows
  UnitStart <- MCUnitStart
  MaxCalls = 3
SPECIFICATION Spec
INVARIANTS
  AnswerTellsTheUnit
  ReadYourWrites
  PlansAreExact
PROPERTIES
  ImplementsService
CHECK_DEADLOCK FALSE
