------------------------------ MODULE MaconState ------------------------------
(***************************************************************************)
(* The decode of a register image into a MaconState and what is derived    *)
(* from it, after src/src/macon_state.cpp, and the reading of one field of *)
(* it, after src/src/macon_fields.cpp.  A register that is absent reads 0  *)
(* and its validity flag is false.  The floating-point estimates of the    *)
(* performance are left out.                                               *)
(***************************************************************************)
EXTENDS MaconFaults

CONSTANTS REG_WORKING_MODE,
          REG_FAULT_RUNSTATE, \* run indicator and fault bits
          REG_FAULTS,         \* the four telemetry registers of fault bits
          FieldMap,           \* field -> its register and how it is stored and read
          FlagMap             \* flag -> its register and bit

Kinds    == {"SignedTemp", "Raw", "DivTen", "DivHundred"}
Readings == {"Signed", "Raw", "TimesTen", "TimesHundred", "Eev"}

\* The code of the run indicator in the table of faults.
RUN_CODE == "RUN"

FaultRegisters == REG_FAULTS \cup {REG_FAULT_RUNSTATE}

\* Nothing shares a register with a field or a mode, and no bit is two things,
\* but for the run indicator, which has the one row without a fault; the fault
\* bits beside it are the low four.
ASSUME StateAssumption ==
  /\ REG_FAULTS \subseteq Registers
  /\ {REG_WORKING_MODE, REG_FAULT_RUNSTATE} \subseteq Registers
  /\ REG_WORKING_MODE # REG_OPERATING_MODE
  /\ {REG_WORKING_MODE, REG_OPERATING_MODE} \cap FaultRegisters = {}
  /\ "UnitOn" \in DOMAIN FlagMap /\ FlagMap["UnitOn"].reg = REG_FAULT_RUNSTATE
  /\ \A row \in Rows : row.reg \in FaultRegisters
  /\ \A row \in Rows \ FaultRows :
       row.code = RUN_CODE /\ row.reg = FlagMap["UnitOn"].reg /\ row.bit = FlagMap["UnitOn"].bit
  /\ \E row \in Rows \ FaultRows : row.code = RUN_CODE
  /\ \A row \in FaultRows : row.reg = REG_FAULT_RUNSTATE => row.bit < 4
  /\ \A f \in DOMAIN FieldMap :
       /\ FieldMap[f] \in [reg : Registers, kind : Kinds, read : Readings,
                           min : Int, max : Int, step : Nat \ {0}]
       /\ \A g \in DOMAIN FieldMap : FieldMap[f].reg = FieldMap[g].reg => f = g
       /\ FieldMap[f].reg \notin
            FaultRegisters \cup {REG_WORKING_MODE, REG_OPERATING_MODE}
       /\ \A fl \in DOMAIN FlagMap : FieldMap[f].reg # FlagMap[fl].reg
  /\ \A fl \in DOMAIN FlagMap :
       /\ FlagMap[fl] \in [reg : Registers, bit : 0 .. 7]
       /\ \A gl \in DOMAIN FlagMap : FlagMap[fl] = FlagMap[gl] => fl = gl
       /\ FlagMap[fl].reg \notin {REG_WORKING_MODE, REG_OPERATING_MODE}
       /\ FlagMap[fl].reg \in FaultRegisters => fl = "UnitOn"
       /\ \A row \in FaultRows : <<row.reg, row.bit>> # <<FlagMap[fl].reg, FlagMap[fl].bit>>

decode_mode(raw) ==
  CASE raw = 0 -> "Heating" [] raw = 4 -> "Cooling" [] OTHER -> "Unknown"

WorkingModes == <<"Cooling", "Heating", "FreezeProtection", "Mode3", "Mode4",
                  "HotWater", "HotWaterCooling">>

decode_working_mode(raw) ==
  IF raw + 1 \in DOMAIN WorkingModes THEN WorkingModes[raw + 1] ELSE "Unknown"

s8(v) == IF v < 128 THEN v ELSE v - 256

\* The value of a field read from its byte; the count of an expansion valve
\* that is driven past closed dips below zero.
reading(how, v) ==
  CASE how = "Signed"       -> s8(v)
    [] how = "Raw"          -> v
    [] how = "TimesTen"     -> v * 10
    [] how = "TimesHundred" -> v * 100
    [] how = "Eev"          -> IF s8(v) > 0 THEN s8(v) * 10 ELSE 0

\* The parts of the decode.
decode_readings(img) ==
  [f \in {g \in DOMAIN FieldMap : FieldMap[g].reg \in DOMAIN img} |->
     reading(FieldMap[f].read, img[FieldMap[f].reg])]

decode_flags(img) ==
  {f \in DOMAIN FlagMap : bit_is_set(value_of(img, FlagMap[f].reg), FlagMap[f].bit)}

decode_modes(img) ==
  [mode |-> IF REG_OPERATING_MODE \in DOMAIN img
            THEN decode_mode(img[REG_OPERATING_MODE]) ELSE "Unknown",
   working_mode |-> IF REG_WORKING_MODE \in DOMAIN img
                    THEN decode_working_mode(img[REG_WORKING_MODE]) ELSE "Unknown"]

decode_state(img) ==
  [mode                  |-> decode_modes(img).mode,
   working_mode          |-> decode_modes(img).working_mode,
   mode_valid            |-> REG_OPERATING_MODE \in DOMAIN img,
   working_mode_valid    |-> REG_WORKING_MODE \in DOMAIN img,
   flags                 |-> decode_flags(img),
   cooling_on_valid      |-> FlagMap["Cooling"].reg \in DOMAIN img,
   compressor_freq       |-> value_of(img, REG_COMPRESSOR_FREQ),
   compressor_freq_valid |-> REG_COMPRESSOR_FREQ \in DOMAIN img,
   fault_run             |-> value_of(img, REG_FAULT_RUNSTATE),
   faults_lit            |-> {r \in REG_FAULTS : value_of(img, r) # 0},
   faults_valid          |-> FaultRegisters \subseteq DOMAIN img,
   readings              |-> decode_readings(img)]

\* Whether a field can be read back from a decoded state.
macon_field_get_ok(s, f) ==
  CASE f = "UnitOn"                 -> s.faults_valid
    [] f = "Cooling"                -> s.cooling_on_valid
    [] f \in {"Fan", "Pump", "Defrost", "CompressorIcon", "FanLevel"} -> TRUE
    [] f = "WorkingMode"            -> s.working_mode_valid
    [] f = "OperatingDirection"     -> s.mode_valid
    [] OTHER                        -> f \in DOMAIN s.readings

\* The cooling icon tells the direction; without it the working mode does, and
\* only a working mode that is not known leaves it to the valve register.
live_direction(s) ==
  IF s.cooling_on_valid THEN IF "Cooling" \in s.flags THEN "Cooling" ELSE "Heating"
  ELSE CASE s.working_mode = "Cooling"         -> "Cooling"
         [] s.working_mode = "HotWaterCooling" -> "Unknown"
         [] s.working_mode = "Unknown"         -> s.mode
         [] OTHER                              -> "Heating"

\* The fault bits of the run register are its low four.
no_run_faults(byte) == FALSE   \* faulty variant
run_faults(byte)    == byte % 16 # 0

decode_operation(s) ==
  LET nothing   == ~ s.faults_valid /\ ~ s.mode_valid /\ ~ s.compressor_freq_valid
      fault     == (s.faults_valid /\ s.faults_lit # {}) \/ run_faults(s.fault_run)
      turning   == s.compressor_freq_valid /\ s.compressor_freq > 0
      direction == live_direction(s)
  IN  IF nothing THEN "Unknown"
      ELSE IF fault THEN "Fault"
      ELSE IF "UnitOn" \notin s.flags THEN "Off"
      ELSE IF "Defrost" \in s.flags THEN "Defrost"
      ELSE IF ~ turning THEN "Idle"
      ELSE IF direction # "Unknown" THEN direction
      ELSE IF s.working_mode = "HotWaterCooling" THEN "Unknown" ELSE "Heating"
-----------------------------------------------------------------------------
(* The range a consumer clamps a setpoint to *)

kHotWaterMin == 30

DefaultLimits ==
  [Cooling  |-> [min_c |-> 4,  max_c |-> 30],
   Heating  |-> [min_c |-> 20, max_c |-> 60],
   HotWater |-> [min_c |-> kHotWaterMin, max_c |-> 60]]

\* The unit's own ceiling bounds the hot water when it is known and sane.
setpoint_limits(kind, s) ==
  LET tells == kind = "HotWater" /\ "HotWaterCeiling" \in DOMAIN s.readings
  IN  IF tells /\ s.readings["HotWaterCeiling"] > kHotWaterMin
      THEN [min_c |-> kHotWaterMin, max_c |-> s.readings["HotWaterCeiling"]]
      ELSE DefaultLimits[kind]

clamp_setpoint(kind, celsius, s) ==
  LET lim == setpoint_limits(kind, s)
  IN  IF celsius < lim.min_c THEN lim.min_c
      ELSE IF celsius > lim.max_c THEN lim.max_c ELSE celsius
=============================================================================
