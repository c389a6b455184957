---------------------------- MODULE MaconRequests ----------------------------
(***************************************************************************)
(* What src/src/macon_link.cpp and src/src/macon_master.cpp put into a     *)
(* request and how they tell its answer, as operators: the link and the    *)
(* master take them byte by byte, module Session frame by frame.           *)
(***************************************************************************)
EXTENDS RegisterImage

\* The byte of a signed whole-degree setpoint, and back.
unsigned_of(byte) == byte              \* faulty variant
int8_of(byte) == IF byte < 128 THEN byte ELSE byte - 256

wrapped_byte(celsius) == celsius % 256   \* faulty variant: wraps, not clamps
setpoint_byte(celsius) ==
  (IF celsius < -128 THEN -128 ELSE IF celsius > 127 THEN 127 ELSE celsius) % 256

\* Cooling, Heating, HotWater and HotWaterCooling.
working_mode_selectable(mode) == mode \in {0, 1, 5, 6}

\* The window a register belongs to gives its wire address.
windows_of(reg) == {w \in KNOWN_WINDOWS : reg \in reg_range(w)}

wire_addr_in_window(w, reg) == reg - w.reg_base   \* faulty variant
wire_addr(w, reg) == w.field_a + w.prefix_len + (reg - w.reg_base)

\* The answer of a request is told by its direction, function, address and
\* count; want names the last three.
same_window(f, want) ==   \* faulty variant: any answer of the function will do
  f.dir = DIR_RESPONSE /\ f.fc = want.fc

matches(f, want) ==
  /\ f.dir = DIR_RESPONSE /\ f.fc = want.fc
  /\ f.field_a = want.a /\ f.field_b = want.b

any_window(f, win) ==   \* faulty variant
  f.dir = DIR_RESPONSE /\ f.fc = FC_READ

is_match(f, win) ==
  /\ f.dir = DIR_RESPONSE /\ f.fc = FC_READ
  /\ f.field_a = win.field_a /\ f.field_b = win.field_b
=============================================================================
