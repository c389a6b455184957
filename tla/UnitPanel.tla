------------------------------ MODULE UnitPanel ------------------------------
(***************************************************************************)
(* What a register image promises to its consumer, without registers, bits *)
(* or scalings: a panel of readings, flags, modes and faults on which      *)
(* every operation changes what it names and nothing else.  The image      *)
(* packs them into bytes that several of them share.                       *)
(***************************************************************************)
EXTENDS Integers

CONSTANTS Shows,        \* field -> the values its reading can have
          SitesOf,      \* fault id -> the bits it may be lit at
          SitesOfCode,  \* fault code -> the same, by code
          RunCode       \* the code of the run indicator, which is no fault

VARIABLES op,        \* the last operation and its arguments
          ret,       \* what it returned
          readings,  \* field -> value, for the fields that were ever stored
          flags,     \* the flags that are on
          faults,    \* the fault bits that are lit
          working_mode, direction

panel == <<readings, flags, faults, working_mode, direction>>
vars  == <<op, ret, panel>>

EmptyPanel ==
  /\ readings = [f \in {} |-> 0] /\ flags = {} /\ faults = {}
  /\ working_mode = "Unknown" /\ direction = "Unknown"

Init == op = [name |-> "none"] /\ ret = "none" /\ EmptyPanel

\* Ok: the field reads back as the value, if it can.  Truncated, which a
\* strict setter never answers: it reads back as something else.  Otherwise
\* nothing was stored.
SetNumber ==
  /\ op'.name = "set_number"
  /\ IF ret' \in {"Ok", "Truncated"}
     THEN /\ DOMAIN readings' = DOMAIN readings \cup {op'.field}
          /\ \A f \in DOMAIN readings \ {op'.field} : readings'[f] = readings[f]
          /\ IF ret' = "Ok"
             THEN op'.value \in Shows[op'.field] => readings'[op'.field] = op'.value
             ELSE ~ op'.strict /\ readings'[op'.field] # op'.value
     ELSE readings' = readings
  /\ UNCHANGED <<flags, faults, working_mode, direction>>

Switched(set, items, on) == IF on THEN set \cup items ELSE set \ items

SetFlag ==
  /\ op'.name = "set_flag"
  /\ flags' = IF ret' = "Ok" THEN Switched(flags, {op'.flag}, op'.value # 0) ELSE flags
  /\ UNCHANGED <<readings, faults, working_mode, direction>>

SetWorkingMode ==
  /\ op'.name = "set_working_mode"
  /\ working_mode' = IF ret' = "Ok" THEN op'.mode ELSE working_mode
  /\ UNCHANGED <<readings, flags, faults, direction>>

SetOperatingDirection ==
  /\ op'.name = "set_operating_direction"
  /\ direction' = IF ret' = "Ok" THEN op'.mode ELSE direction
  /\ UNCHANGED <<readings, flags, faults, working_mode>>

SetFault ==
  /\ op'.name = "set_fault"
  /\ faults' = Switched(faults, SitesOf[op'.id], op'.on)
  /\ UNCHANGED <<readings, flags, working_mode, direction>>

\* By its code the run indicator can be set as well.
SetFaultByCode ==
  /\ op'.name = "set_fault_by_code"
  /\ faults' = Switched(faults, SitesOfCode[op'.code], op'.on)
  /\ flags' = IF op'.code = RunCode THEN Switched(flags, {"UnitOn"}, op'.on) ELSE flags
  /\ UNCHANGED <<readings, working_mode, direction>>

SetFaultSite ==
  /\ op'.name = "set_fault_site"
  /\ ret' = (\E id \in DOMAIN SitesOf : op'.site \in SitesOf[id])
  /\ faults' = IF ret' THEN Switched(faults, {op'.site}, op'.on) ELSE faults
  /\ UNCHANGED <<readings, flags, working_mode, direction>>

ClearFaults ==
  /\ op'.name = "clear_faults"
  /\ faults' = {}
  /\ UNCHANGED <<readings, flags, working_mode, direction>>

Clear == op'.name = "clear" /\ EmptyPanel'

\* Fields that were never stored read 0 from here on; the others keep.
FillBaseline ==
  /\ op'.name = "fill_baseline"
  /\ DOMAIN readings \subseteq DOMAIN readings'
  /\ \A f \in DOMAIN readings' :
       readings'[f] = IF f \in DOMAIN readings THEN readings[f] ELSE 0
  /\ working_mode = "Unknown" \/ working_mode' = working_mode
  /\ direction = "Unknown" \/ direction' = direction
  /\ UNCHANGED <<flags, faults>>

\* What comes from the wire replaces anything, unless it is refused.
FromTheWire ==
  /\ op'.name \in {"ingest", "apply_write", "set_register"}
  /\ ~ ret' => UNCHANGED panel

Next == \/ SetNumber \/ SetFlag \/ SetWorkingMode \/ SetOperatingDirection
        \/ SetFault \/ SetFaultByCode \/ SetFaultSite \/ ClearFaults
        \/ Clear \/ FillBaseline \/ FromTheWire

Spec == Init /\ [][Next]_vars
=============================================================================
