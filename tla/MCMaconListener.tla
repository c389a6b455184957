--------------------------- MODULE MCMaconListener ---------------------------
(* TLC instance of MaconListener: streams put together from a few bursts.  *)
EXTENDS MaconListener, MCWire

MCTele    == encode_response(FC_READ, 0, 2, <<12, 40>>)
MCTele2   == encode_response(FC_READ, 0, 2, <<85, 170>>)
MCHold    == encode_response(FC_READ, 2, 3, <<1, 85, 3>>)
MCRequest == encode_request(FC_READ, 2, 3)
MCCommand == encode_command(0, <<24>>)
MCAck     == encode_command_ack(0, 1)

\* A checksum-valid response of a window the codec does not map.
MCForeign == Seal(write_header(DIR_RESPONSE, FC_READ, 9, 1) \o <<7>>)

Damage(f) == [f EXCEPT ![Len(f)] = (@ + 1) % 256]

\* The bursts a bus may carry: the unit tags a response with one more byte.
MCTagged(f, tag) == f \o <<tag>>

\* Headers of commands that claim as many bytes as a frame may have, and more.
MCLongClaim       == write_header(DIR_REQUEST, FC_CMD, 0, 9)
MCImpossibleClaim == write_header(DIR_REQUEST, FC_CMD, 0, 300)

MCBursts ==
  {MCTagged(MCTele, 20), MCTagged(MCHold, 0), MCRequest, MCCommand, MCAck,
   MCForeign, Damage(MCHold), MCLongClaim, MCImpossibleClaim,
   SubSeq(MCHold, 1, 7), SubSeq(MCTele, 1, 9),
   <<85>>, <<85, 85, 170>>, <<0, 0, 0, 0, 0, 0, 0, 0, 0, 0>>,
   \* a command that embeds a whole frame, intact and damaged
   encode_command(9, MCAck), Damage(encode_command(9, MCAck))}

\* Every burst behind every other, and a response behind two of them that
\* reach into what follows or must be told from it.
MCTriples == {x \o y \o MCTele2 : x \in {Damage(MCHold), MCLongClaim, SubSeq(MCHold, 1, 7)},
                                  y \in {MCTagged(MCTele, 20), MCForeign, MCLongClaim}}
MCStreams == {x \o y : x, y \in MCBursts} \cup MCTriples
=============================================================================
