------------------------------ MODULE MaconImage ------------------------------
(***************************************************************************)
(* The MaconImage of src/src/macon_image.cpp and the field setter of       *)
(* src/src/macon_fields.cpp: what the bus, the demo mode and the simulator *)
(* do to one register image, in any order.  One action is one call.        *)
(***************************************************************************)
EXTENDS MaconState

CONSTANTS NumberCalls,  \* <<field, value>> a caller may set
          FlagCalls,    \* <<flag, value>>
          ModeCalls,    \* working modes
          FaultIds, FaultCodes, FaultSites,   \* faults a caller may switch
          Ingests,      \* <<first register, values>> of a decoded window
          Writes,       \* <<wire address, bytes>> of a command
          Pokes,        \* <<register, value>> of the debug endpoint
          MaxOps        \* bound on the number of calls

ASSUME ImageCallsAssumption ==
  /\ \A c \in NumberCalls : c[1] \in DOMAIN FieldMap /\ c[2] \in Int
  /\ \A c \in FlagCalls : c[1] \in DOMAIN FlagMap /\ c[2] \in Int
  /\ ModeCalls \subseteq ToSet(WorkingModes) \cup {"Unknown"}
  /\ \A c \in Ingests : c[1] \in Word /\ c[2] \in Seq(Word)
  /\ \A c \in Writes : c[1] \in Word /\ c[2] \in Seq(Byte)
  /\ \A c \in Pokes : c[1] \in Word /\ c[2] \in Word
  /\ FaultSites \subseteq Nat
  /\ MaxOps \in Nat

VARIABLES image,   \* the registers that are present
          op,      \* the last call and its arguments
          ret,     \* what it returned
          ops      \* calls so far

vars == <<image, op, ret, ops>>

Init == image = EmptyImage /\ op = [name |-> "none"] /\ ret = "none" /\ ops = 0

Ready == ops < MaxOps

Call(what, result) == op' = what /\ ret' = result /\ ops' = ops + 1
-----------------------------------------------------------------------------
(* Numbers *)

Unit(kind) == CASE kind = "DivTen" -> 10 [] kind = "DivHundred" -> 100 [] OTHER -> 1
Lowest(kind)  == IF kind = "SignedTemp" THEN -128 ELSE 0
Highest(kind) == IF kind = "SignedTemp" THEN 127 ELSE 255

\* A field is read in the unit in which it is stored, and what a strict setter
\* accepts can be stored.
ASSUME NumbersAssumption ==
  \A f \in DOMAIN FieldMap :
    LET n == FieldMap[f]
    IN  /\ <<n.kind, n.read>> \in
             {<<"SignedTemp", "Signed">>, <<"Raw", "Raw">>, <<"DivTen", "TimesTen">>,
              <<"DivTen", "Eev">>, <<"DivHundred", "TimesHundred">>}
        /\ n.min >= Unit(n.kind) * Lowest(n.kind)
        /\ n.max <= Unit(n.kind) * Highest(n.kind)
        /\ n.step % Unit(n.kind) = 0

\* The byte a value is stored as, clamped, and whether it is told as exact.
stored_byte(kind, v) ==
  LET raw == v \div Unit(kind)
  IN  (CASE raw < Lowest(kind)  -> Lowest(kind)
         [] raw > Highest(kind) -> Highest(kind)
         [] OTHER               -> raw) % 256

told_exact(kind, v) ==
  /\ v % Unit(kind) = 0
  /\ v \div Unit(kind) \in Lowest(kind) .. Highest(kind)

StoreNumber(f, v, strict) ==
  LET kind == FieldMap[f].kind
  IN  /\ image' = put(image, FieldMap[f].reg, stored_byte(kind, v))
      /\ Call([name |-> "set_number", field |-> f, value |-> v, strict |-> strict],
              IF told_exact(kind, v) THEN "Ok" ELSE "Truncated")

Refuse(what, result) == Call(what, result) /\ UNCHANGED image

set_temp == Ready /\ \E c \in NumberCalls :
  IF FieldMap[c[1]].kind = "SignedTemp" THEN StoreNumber(c[1], c[2], FALSE)
  ELSE Refuse([name |-> "set_number", field |-> c[1], value |-> c[2], strict |-> FALSE],
              "UnknownField")

set_value == Ready /\ \E c \in NumberCalls : StoreNumber(c[1], c[2], FALSE)

\* The field setter, when strict, accepts what lies in the range and on a step
\* of the field; when not strict it is set_value.
in_range(f, v) == v \in FieldMap[f].min .. FieldMap[f].max /\ v % FieldMap[f].step = 0

macon_field_set == Ready /\ \E c \in NumberCalls :
  IF in_range(c[1], c[2]) THEN StoreNumber(c[1], c[2], TRUE)
  ELSE Refuse([name |-> "set_number", field |-> c[1], value |-> c[2], strict |-> TRUE],
              "OutOfRange")
-----------------------------------------------------------------------------
(* Flags and modes *)

\* The image with the bits at some places switched; their registers are
\* present from then on.
switch(img, places, on) ==
  LET regs    == {p.reg : p \in places}
      bits(r) == {p.bit : p \in {q \in places : q.reg = r}}
  IN  [r \in DOMAIN img \cup regs |->
         IF r \in regs THEN with_bits(value_of(img, r), bits(r), on) ELSE img[r]]

\* The field setter, when strict, takes 0 and 1 only.
set_flag == Ready /\ \E c \in FlagCalls :
  LET what == [name |-> "set_flag", flag |-> c[1], value |-> c[2]]
  IN  \/ /\ image' = switch(image, {FlagMap[c[1]]}, c[2] # 0)
         /\ Call(what, "Ok")
      \/ c[2] \notin {0, 1} /\ Refuse(what, "OutOfRange")

mode_byte(mode) ==
  IF mode = "Unknown" THEN 255
  ELSE (CHOOSE i \in DOMAIN WorkingModes : WorkingModes[i] = mode) - 1

\* The setter of the image takes any mode, the field setter a named one only.
set_working_mode == Ready /\ \E mode \in ModeCalls :
  LET what == [name |-> "set_working_mode", mode |-> mode]
  IN  \/ image' = put(image, REG_WORKING_MODE, mode_byte(mode)) /\ Call(what, "Ok")
      \/ mode = "Unknown" /\ Refuse(what, "OutOfRange")

set_operating_direction == Ready /\ \E mode \in {"Cooling", "Heating", "Unknown"} :
  LET what == [name |-> "set_operating_direction", mode |-> mode]
  IN  IF mode = "Unknown" THEN Refuse(what, "OutOfRange")
      ELSE /\ image' = put(image, REG_OPERATING_MODE, IF mode = "Cooling" THEN 4 ELSE 0)
           /\ Call(what, "Ok")
-----------------------------------------------------------------------------
(* Faults *)

set_fault == Ready /\ \E id \in FaultIds, on \in BOOLEAN :
  /\ image' = switch(image, {row \in FaultRows : row.id = id}, on)
  /\ Call([name |-> "set_fault", id |-> id, on |-> on], "done")

\* Returns the number of bits written.
set_fault_by_code == Ready /\ \E code \in FaultCodes, on \in BOOLEAN :
  LET rows == {row \in Rows : row.code = code}
  IN  /\ image' = switch(image, rows, on)
      /\ Call([name |-> "set_fault_by_code", code |-> code, on |-> on], Cardinality(rows))

set_fault_site == Ready /\ \E site \in FaultSites, on \in BOOLEAN :
  LET rows == {row \in FaultRows : macon_fault_site_id(row) = site}
  IN  /\ image' = switch(image, rows, on)
      /\ Call([name |-> "set_fault_site", site |-> site, on |-> on], rows # {})

\* The fault registers are zeroed, the run register but for its indicator.
zeroed(reg, byte) == 0   \* faulty variant: the unit is off afterwards
kept(reg, byte) ==
  byte_of(IF reg = REG_FAULT_RUNSTATE THEN bits_of(byte) \cap {FlagMap["UnitOn"].bit} ELSE {})

clear_faults ==
  /\ Ready
  /\ image' = [r \in DOMAIN image \cup FaultRegisters |->
                 IF r \in FaultRegisters THEN kept(r, value_of(image, r)) ELSE image[r]]
  /\ Call([name |-> "clear_faults"], "done")
-----------------------------------------------------------------------------
(* Whole registers *)

clear == Ready /\ image' = EmptyImage /\ Call([name |-> "clear"], "done")

\* Every register of the known windows is present afterwards.
fill_baseline ==
  /\ Ready
  /\ image' = with_baseline(image)
  /\ Call([name |-> "fill_baseline"], "done")

words(regs)     == regs   \* faulty variant: keeps the high bytes
low_bytes(regs) == [i \in DOMAIN regs |-> regs[i] % 256]

ingest == Ready /\ \E c \in Ingests :
  /\ image' = ingest_bytes(image, c[1], low_bytes(c[2]))
  /\ Call([name |-> "ingest", base |-> c[1], data |-> c[2]], Len(c[2]) > 0)

write == Ready /\ \E c \in Writes :
  /\ image' = apply_write(image, c[1], c[2])
  /\ Call([name |-> "apply_write", base |-> c[1], data |-> c[2]], is_writable(c[1], c[2]))

set_register == Ready /\ \E c \in Pokes :
  LET taken == c[1] \in Registers /\ c[2] <= 255
  IN  /\ image' = IF taken THEN put(image, c[1], c[2]) ELSE image
      /\ Call([name |-> "set_register", reg |-> c[1], value |-> c[2]], taken)
-----------------------------------------------------------------------------
Next == \/ set_temp \/ set_value \/ macon_field_set
        \/ set_flag \/ set_working_mode \/ set_operating_direction
        \/ set_fault \/ set_fault_by_code \/ set_fault_site \/ clear_faults
        \/ clear \/ fill_baseline \/ ingest \/ write \/ set_register

Spec == Init /\ [][Next]_vars
-----------------------------------------------------------------------------
(* Properties *)

TypeOK ==
  /\ DOMAIN image \subseteq Registers
  /\ \A r \in DOMAIN image : image[r] \in Byte
  /\ ops \in 0 .. MaxOps

State == decode_state(image)

\* Seen through the decode, the image is a panel: a call changes what it
\* names and leaves the flags, faults and readings in the same bytes alone.
ShownBy == [f \in DOMAIN FieldMap |-> {reading(FieldMap[f].read, b) : b \in Byte}]
IdSites ==
  [id \in {row.id : row \in FaultRows} \cup FaultIds |-> macon_fault_sites_for_id(id)]
CodeSites ==
  [code \in {row.code : row \in Rows} \cup FaultCodes |->
     {macon_fault_site_id(row) : row \in {r \in FaultRows : r.code = code}}]
litRows(img) == {row \in FaultRows : lit(img, row)}

Panel == INSTANCE UnitPanel WITH
  Shows <- ShownBy, SitesOf <- IdSites, SitesOfCode <- CodeSites, RunCode <- RUN_CODE,
  readings     <- decode_readings(image),
  flags        <- decode_flags(image),
  faults       <- {macon_fault_site_id(row) : row \in litRows(image)},
  working_mode <- decode_modes(image).working_mode,
  direction    <- decode_modes(image).mode
ImplementsPanel == Panel!Spec

\* The simulator answers a read with what was written: the bytes of the last
\* command are where a read of their window finds them, all of them or none,
\* and nothing else in the windows moved.
ServedAt(img, a) ==
  LET w == CHOOSE w \in KNOWN_WINDOWS : a \in wire_range(w)
  IN  read_window(img, w.field_a, w.field_b)[a - w.field_a + 1]

WritesAsServed ==
  [][op'.name = "apply_write" =>
       \A w \in KNOWN_WINDOWS : \A a \in wire_range(w) :
         ServedAt(image', a) =
           IF ret' /\ a \in op'.base .. op'.base + Len(op'.data) - 1
           THEN op'.data[a - op'.base + 1] ELSE ServedAt(image, a)]_vars

\* The list of faults tells, for every length the caller allows, lit faults
\* only, each once, the most severe first and equals in the order of the
\* table; a list that is long enough tells all of them.
DecodeTellsTheFaults ==
  LET lits == litRows(image)
      place(row) == CHOOSE i \in DOMAIN MACON_FAULT_BITS : MACON_FAULT_BITS[i] = row
  IN  \A max \in 0 .. Cardinality(lits) + 1 :
        LET list == macon_decode_faults(image, max)
        IN  /\ Len(list) = IF max < Cardinality(lits) THEN max ELSE Cardinality(lits)
            /\ ToSet(list) \subseteq lits
            /\ \A i \in 1 .. Len(list) - 1 :
                 \/ rank(list[i]) > rank(list[i + 1])
                 \/ /\ rank(list[i]) = rank(list[i + 1])
                    /\ place(list[i]) < place(list[i + 1])

\* A unit that has told all its fault registers and has a fault is shown as
\* faulty, whatever else it does.
FaultIsReported ==
  State.faults_valid /\ macon_has_fault(image) => decode_operation(State) = "Fault"

\* macon_state.h:218-219 says that the operation is Unknown when the status
\* registers are absent, and Off when the enable bit is clear.
OperationNeedsStatus ==
  decode_operation(State) = "Off" => REG_FAULT_RUNSTATE \in DOMAIN image

\* macon_fields.h:68-69 says that a field is not valid when its register is
\* absent.
AbsentIsNotValid ==
  /\ \A f \in DOMAIN FieldMap :
       macon_field_get_ok(State, f) => FieldMap[f].reg \in DOMAIN image
  /\ \A fl \in DOMAIN FlagMap :
       macon_field_get_ok(State, fl) => FlagMap[fl].reg \in DOMAIN image
=============================================================================
