---------------------------- MODULE AdvancedParams ----------------------------
(***************************************************************************)
(* The installer's parameters (AP13 .. AP51) of                            *)
(* src/src/macon_advanced_params.cpp: which writes the guardrail lets      *)
(* through, what they put on the wire, and how the wire is read back.      *)
(* Names, texts, units and categories are left out.                        *)
(***************************************************************************)
EXTENDS Integers, Sequences

\* The parameter table: AP number -> its row.  enum_vals is empty and
\* enum_opts has no element when the row has none; enum_opts holds wire codes.
CONSTANT s_advanced

ADV_REG_UNKNOWN == 0

int16 == -2^15 .. 2^15 - 1

AdvancedParam ==
  [reg : 0 .. 2^16 - 1, min_val : int16, max_val : int16, is_signed : BOOLEAN,
   needs_sim_confirm : BOOLEAN, read_only : BOOLEAN, enum_vals : SUBSET (0 .. 255),
   enum_opts : Seq(0 .. 255), display_multiplier : int16]

ASSUME ParamsAssumption ==
  \A ap \in DOMAIN s_advanced :
    /\ ap \in 0 .. 255
    /\ s_advanced[ap] \in AdvancedParam
    /\ \A i, j \in DOMAIN s_advanced[ap].enum_opts :
         s_advanced[ap].enum_opts[i] = s_advanced[ap].enum_opts[j] => i = j

advanced_param_lookup(ap) == s_advanced[ap]

\* The low bits of a number, read as two's complement.
signed_bits(x, bits) ==
  LET m == x % 2^bits IN IF m < 2^(bits - 1) THEN m ELSE m - 2^bits
-----------------------------------------------------------------------------
(* Writes *)

value_allowed(p, value) ==
  IF p.enum_vals = {} THEN value \in p.min_val .. p.max_val ELSE value \in p.enum_vals

\* The parameters whose register is known and not locked.
Writable ==
  {ap \in DOMAIN s_advanced :
     LET p == s_advanced[ap]
     IN  p.reg # ADV_REG_UNKNOWN /\ ~ p.read_only /\ ~ p.needs_sim_confirm}

\* What may be written to one is a byte, signed or not, and its register is that
\* of no other parameter.
ASSUME OneByteAssumption ==
  \A ap \in Writable :
    LET p == s_advanced[ap]
    IN  /\ \A v \in int16 : value_allowed(p, v) =>
                              v \in IF p.is_signed THEN -128 .. 127 ELSE 0 .. 255
        /\ \A q \in DOMAIN s_advanced : s_advanced[q].reg = p.reg => q = ap

\* The value is looked at before the gates of the register.
validate_advanced_write(ap, value) ==
  IF ap \notin DOMAIN s_advanced THEN "UNKNOWN_PARAM"
  ELSE LET p == advanced_param_lookup(ap)
       IN  IF ~ value_allowed(p, value)
           THEN IF p.enum_vals = {} THEN "OUT_OF_RANGE" ELSE "NOT_IN_ENUM"
           ELSE IF p.reg = ADV_REG_UNKNOWN THEN "REG_UNKNOWN"
           ELSE IF p.read_only             THEN "READ_ONLY"
           ELSE IF p.needs_sim_confirm     THEN "NEEDS_SIM_CONFIRM"
           ELSE "OK"

Refused(why) == [result |-> why]

\* A plan names the register and the 16 bits to put there; a negative value is
\* one byte with the high byte 0.
raw_as_16_bits(p, value) == value % 2^16   \* faulty variant: -1 is 0xFFFF
raw_of(p, value) == IF p.is_signed THEN value % 2^8 ELSE value % 2^16

advanced_prepare_write(ap, value) ==
  LET r == validate_advanced_write(ap, value)
  IN  IF r # "OK" THEN Refused(r)
      ELSE LET p == advanced_param_lookup(ap)
           IN  [result |-> "OK", reg |-> p.reg, raw |-> raw_of(p, value)]

multiplier_of(p) == IF p.display_multiplier > 0 THEN p.display_multiplier ELSE 1

advanced_display_step(ap) ==
  IF ap \in DOMAIN s_advanced THEN multiplier_of(advanced_param_lookup(ap)) ELSE 1

\* From a value as the user sees it; one between two steps is refused.
advanced_prepare_display_write(ap, display_value) ==
  LET step == advanced_display_step(ap)
  IN  IF ap \notin DOMAIN s_advanced THEN Refused("UNKNOWN_PARAM")
      ELSE IF display_value % step # 0 THEN Refused("OUT_OF_RANGE")
      ELSE advanced_prepare_write(ap, display_value \div step)

\* From the place of an option in the list of the parameter, counted from 0.
advanced_prepare_write_option(ap, index) ==
  IF ap \notin DOMAIN s_advanced THEN Refused("UNKNOWN_PARAM")
  ELSE LET opts == advanced_param_lookup(ap).enum_opts
       IN  IF index \in 0 .. Len(opts) - 1
           THEN advanced_prepare_write(ap, opts[index + 1])
           ELSE Refused("NOT_IN_ENUM")
-----------------------------------------------------------------------------
(* Reads *)

advanced_decode_raw(ap, raw) ==
  IF ap \in DOMAIN s_advanced /\ advanced_param_lookup(ap).is_signed
  THEN signed_bits(raw, 8) ELSE signed_bits(raw, 16)

advanced_display_value(ap, wire_value) ==
  signed_bits(wire_value * advanced_display_step(ap), 16)

\* The place of the option with a wire code, -1 when there is none.
advanced_enum_option_index_for_wire(ap, wire) ==
  LET opts  == IF ap \in DOMAIN s_advanced THEN advanced_param_lookup(ap).enum_opts ELSE <<>>
      found == {i \in DOMAIN opts : opts[i] = wire}
  IN  IF found = {} THEN -1 ELSE (CHOOSE i \in found : TRUE) - 1

\* The parameters that live at a register; 0 stands for an unknown one.
advanced_params_at(address) ==
  {ap \in DOMAIN s_advanced : address # ADV_REG_UNKNOWN /\ s_advanced[ap].reg = address}
=============================================================================
