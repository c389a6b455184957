----------------------------- MODULE MaconTables -----------------------------
(***************************************************************************)
(* The data of the library: the windows of the wire, the fault table, and  *)
(* where each field, flag and parameter lies and how it is scaled.         *)
(***************************************************************************)
EXTENDS Integers, Sequences, TLC

Window(a, b, base) == [field_a |-> a, field_b |-> b, reg_base |-> base, prefix_len |-> 0]

\* Telemetry and holding.
UnitWindows == {Window(0, 50, 2093), Window(50, 58, 2000)}

FaultRow(reg, bit, code, severity, id) ==
  [reg |-> reg, bit |-> bit, code |-> code, severity |-> severity, id |-> id]

UnitFaultBits == <<
  FaultRow(2007, 0, "P15", "WARNING", "TempDifferenceTooLarge"),
  FaultRow(2007, 1, "P16", "WARNING", "OutletTempTooLow"),
  FaultRow(2007, 2, "FE", "FAULT", "FeProtection"),
  FaultRow(2007, 3, "FF", "FAULT", "FfProtection"),
  FaultRow(2007, 5, "RUN", "INFO", "Unknown"),
  FaultRow(2125, 0, "E28", "FAULT", "EepromError"),
  FaultRow(2125, 1, "E19", "FAULT", "InletWaterSensor"),
  FaultRow(2125, 2, "E18", "FAULT", "OutletWaterSensor"),
  FaultRow(2125, 3, "E13", "FAULT", "CoolCoilSensor"),
  FaultRow(2125, 4, "E03", "FAULT", "E03Protection"),
  FaultRow(2125, 5, "E28", "FAULT", "EepromError"),
  FaultRow(2125, 6, "E27", "CRITICAL", "DriverCommunication"),
  FaultRow(2125, 7, "E21", "CRITICAL", "ControllerCommunication"),
  FaultRow(2126, 0, "r02", "FAULT", "CompressorStartFailure"),
  FaultRow(2126, 1, "E26", "CRITICAL", "IndoorOutdoorCommunication"),
  FaultRow(2126, 2, "r01", "CRITICAL", "IpmFault"),
  FaultRow(2126, 4, "E01", "FAULT", "DischargeSensor"),
  FaultRow(2126, 5, "E09", "FAULT", "SuctionSensor"),
  FaultRow(2126, 6, "E05", "FAULT", "CoilSensor"),
  FaultRow(2126, 7, "E22", "FAULT", "AmbientSensor"),
  FaultRow(2127, 0, "FA", "FAULT", "DcFanMotor"),
  FaultRow(2127, 1, "P19", "FAULT", "AcCurrentProtection"),
  FaultRow(2127, 2, "r06", "FAULT", "CompressorPhaseCurrent"),
  FaultRow(2127, 3, "r10", "FAULT", "AcVoltageProtection"),
  FaultRow(2127, 4, "r11", "FAULT", "DcBusVoltageProtection"),
  FaultRow(2127, 5, "r05", "FAULT", "IpmTemperatureProtection"),
  FaultRow(2127, 6, "P11", "FAULT", "HighDischargeTemp"),
  FaultRow(2127, 7, "P02", "CRITICAL", "HighPressureProtection"),
  FaultRow(2128, 0, "P06", "CRITICAL", "LowPressureProtection"),
  FaultRow(2128, 1, "P27", "FAULT", "CoilOverheat"),
  FaultRow(2128, 2, "PC", "WARNING", "AmbientOutOfRange"),
  FaultRow(2128, 3, "P10", "FAULT", "P10Protection"),
  FaultRow(2128, 4, "P30", "WARNING", "AntifreezeProtection"),
  FaultRow(2128, 5, "E05", "FAULT", "CoilSensor"),
  FaultRow(2128, 7, "P01", "CRITICAL", "WaterFlowProtection") >>

Number(reg, kind, read, min, max, step) ==
  [reg |-> reg, kind |-> kind, read |-> read, min |-> min, max |-> max, step |-> step]

\* How a field is stored, how it is read, and what a strict setter accepts.
UnitFields == [
  WaterTankTemp |-> Number(2008, "SignedTemp", "Signed", -128, 127, 1),
  OutletWaterTemp |-> Number(2132, "SignedTemp", "Signed", -128, 127, 1),
  InletWaterTemp |-> Number(2133, "SignedTemp", "Signed", -128, 127, 1),
  DischargeTemp |-> Number(2138, "SignedTemp", "Signed", -128, 127, 1),
  SuctionTemp |-> Number(2137, "SignedTemp", "Signed", -128, 127, 1),
  OutdoorCoilTemp |-> Number(2136, "SignedTemp", "Signed", -128, 127, 1),
  IndoorCoilTemp |-> Number(2135, "SignedTemp", "Signed", -128, 127, 1),
  OutdoorAmbientTemp |-> Number(2134, "SignedTemp", "Signed", -128, 127, 1),
  IpmTemp |-> Number(2113, "SignedTemp", "Signed", -128, 127, 1),
  CompressorFreq |-> Number(2141, "Raw", "Raw", 0, 255, 1),
  FanLevel |-> Number(2003, "DivTen", "TimesTen", 0, 2550, 10),
  AcVoltage |-> Number(2142, "Raw", "Raw", 0, 255, 1),
  AcCurrent |-> Number(2000, "Raw", "Raw", 0, 255, 1),
  DcVoltage |-> Number(2001, "DivTen", "TimesTen", 0, 2550, 10),
  PrimaryEev |-> Number(2140, "DivTen", "Eev", 0, 500, 10),
  RealtimePower |-> Number(2114, "DivHundred", "TimesHundred", 0, 25500, 100),
  CoolingSetpoint |-> Number(2093, "SignedTemp", "Signed", -128, 127, 1),
  HeatingSetpoint |-> Number(2094, "SignedTemp", "Signed", -128, 127, 1),
  HotWaterSetpoint |-> Number(2095, "SignedTemp", "Signed", -128, 127, 1),
  HotWaterCeiling |-> Number(2012, "Raw", "Raw", 0, 255, 1),
  AuxEev |-> Number(2048, "DivTen", "Eev", 0, 500, 10),
  HighPressure |-> Number(2013, "SignedTemp", "Signed", -128, 127, 1),
  LowPressure |-> Number(2014, "Raw", "Raw", 0, 255, 1)]

UnitFlags == [
  Fan |-> [reg |-> 2129, bit |-> 4],
  Cooling |-> [reg |-> 2129, bit |-> 2],
  Pump |-> [reg |-> 2130, bit |-> 3],
  UnitOn |-> [reg |-> 2007, bit |-> 5],
  Defrost |-> [reg |-> 2129, bit |-> 1],
  CompressorIcon |-> [reg |-> 2130, bit |-> 2]]

\* The installer's parameters: a number with its register and range, one that
\* is stored in a signed byte, one of a list of codes, one that is locked.
Param(reg, min, max) ==
  [reg |-> reg, min_val |-> min, max_val |-> max, is_signed |-> FALSE,
   needs_sim_confirm |-> FALSE, read_only |-> FALSE, enum_vals |-> {}, enum_opts |-> <<>>,
   display_multiplier |-> 1]

SignedParam(reg, min, max) == [Param(reg, min, max) EXCEPT !.is_signed = TRUE]
LockedParam(reg, min, max) == [Param(reg, min, max) EXCEPT !.needs_sim_confirm = TRUE]
Choice(reg, max, codes) ==
  [Param(reg, 0, max) EXCEPT !.enum_vals = {codes[i] : i \in DOMAIN codes},
                             !.enum_opts = codes]

kRatioReadings  == <<0, 1, 2, 4, 8, 12, 16, 20>>
kPumpModeValues == <<0, 1, 2>>

Ratio(reg) == Choice(reg, 20, kRatioReadings)

UnitParams ==
  13 :> Param(2012, 20, 55) @@ 14 :> Ratio(2111) @@ 15 :> Ratio(2112) @@
  16 :> Ratio(2015) @@ 17 :> Ratio(2016) @@ 18 :> Ratio(2017) @@
  19 :> Ratio(2018) @@ 20 :> Ratio(2019) @@ 24 :> Param(2023, 10, 45) @@
  25 :> SignedParam(2024, -45, 45) @@ 26 :> Param(2025, 1, 20) @@
  27 :> Param(2026, 1, 20) @@
  28 :> [Param(2027, 0, 99) EXCEPT !.display_multiplier = 10] @@
  29 :> Param(2030, 0, 90) @@ 30 :> SignedParam(2031, -20, 5) @@
  31 :> SignedParam(2029, -20, 5) @@ 32 :> Param(2032, 0, 30) @@
  33 :> Param(2033, 0, 90) @@ 34 :> Param(2035, 5, 45) @@
  35 :> Param(2034, 5, 45) @@ 38 :> SignedParam(2038, -30, 0) @@
  39 :> Param(2039, 10, 120) @@ 40 :> SignedParam(2040, -45, 45) @@
  41 :> [Param(2041, 0, 20) EXCEPT !.read_only = TRUE] @@
  42 :> Param(2042, 0, 20) @@ 43 :> Param(2043, 1, 99) @@
  44 :> Choice(2044, 2, kPumpModeValues) @@ 45 :> Param(2045, 0, 30) @@
  46 :> SignedParam(2046, -25, 5) @@ 47 :> Param(2047, 0, 3) @@
  48 :> LockedParam(2060, 0, 1) @@ 49 :> LockedParam(2061, 0, 120) @@
  50 :> LockedParam(2062, 0, 500) @@ 51 :> LockedParam(2064, 0, 500)
=============================================================================
