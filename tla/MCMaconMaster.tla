---------------------------- MODULE MCMaconMaster ----------------------------
(* TLC instance of MaconMaster: what a bus may carry around a poll. *)
EXTENDS MaconMaster, MCWire

MCTele    == encode_response(FC_READ, 0, 2, <<12, 40>>)
MCHold    == encode_response(FC_READ, 2, 3, <<1, 85, 3>>)
MCEcho    == encode_request(FC_READ, 0, 2)
MCAck     == encode_command_ack(0, 1)
MCForeign == Seal(write_header(DIR_RESPONSE, FC_READ, 9, 1) \o <<7>>)

Damage(f) == [f EXCEPT ![Len(f)] = (@ + 1) % 256]

\* Headers of commands that claim more than the accumulator holds, as much as
\* a response behind them and a little more, and more than any frame has.
MCLongClaim       == write_header(DIR_REQUEST, FC_CMD, 0, 19)
MCCommandClaim    == write_header(DIR_REQUEST, FC_CMD, 0, 12)
MCImpossibleClaim == write_header(DIR_REQUEST, FC_CMD, 0, 300)

\* A response behind an echo, a damaged frame, a torn one, false headers and
\* junk, and what the next poll finds behind an answer.
MCStreams ==
  {x \o MCTele : x \in {MCEcho, Damage(MCTele), MCImpossibleClaim,
                        SubSeq(MCTele, 1, 7), <<0, 0, 0, 0, 0, 0, 0, 0, 0, 85>>}} \cup
  {<<0, 0, 0>> \o MCCommandClaim \o MCTele \o <<0, 0, 0, 0>>,
   MCForeign \o MCHold, MCHold \o <<0>> \o MCTele,
   MCLongClaim \o MCTele \o MCTele, Damage(encode_command(9, MCAck)) \o MCHold}

\* A window the codec does not map: no request can be built for it.
MCUnmapped == [field_a |-> 9, field_b |-> 1, reg_base |-> 2006, prefix_len |-> 0]
MCPolled   == {MCTelemetry, MCHolding, MCUnmapped}
=============================================================================
