------------------------------- MODULE MCWire -------------------------------
(***************************************************************************)
(* The scaled-down wire of the model-checking runs: two adjacent windows   *)
(* laid out as the code's (telemetry first on the wire, holding behind it, *)
(* a gap between their registers), with 2 and 3 registers for 50 and 58.   *)
(***************************************************************************)
EXTENDS Integers, Sequences

MCTelemetry == [field_a |-> 0, field_b |-> 2, reg_base |-> 2005, prefix_len |-> 0]
MCHolding   == [field_a |-> 2, field_b |-> 3, reg_base |-> 2000, prefix_len |-> 0]
MCWindows   == {MCTelemetry, MCHolding}
=============================================================================
