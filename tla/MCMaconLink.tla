----------------------------- MODULE MCMaconLink -----------------------------
(* TLC instance of MaconLink: what a bus may carry after a request. *)
EXTENDS MaconLink, MCWire

\* The answers to the calls of the configurations.
MCAck(addr) == encode_command_ack(addr, 1)
MCTele      == encode_response(FC_READ, 0, 2, <<200, 12>>)
MCException == Seal(write_header(DIR_RESPONSE, FC_CMD + 128, 0, 1))

Damage(f) == [f EXCEPT ![Len(f)] = (@ + 1) % 256]

\* Echoes, answers of other calls, damaged answers, junk and torn frames.
MCBursts ==
  {MCAck(0), MCAck(1), MCTele, MCException, Damage(MCAck(0)),
   encode_command(0, <<12>>), encode_request(FC_READ, 0, 2),
   encode_command_ack(0, 2), encode_response(FC_READ, 2, 3, <<85, 170, 15>>),
   Seal(write_header(DIR_REQUEST, FC_CMD + 128, 0, 1)),
   <<85>>, <<0, 85>>, <<0, 0, 0, 0, 0, 0, 0>>, SubSeq(MCTele, 1, 7),
   SubSeq(MCAck(3), 3, 9), write_header(DIR_REQUEST, FC_CMD, 0, 9),
   write_header(DIR_REQUEST, FC_CMD, 0, 300)}

\* Pairs of them, and an acknowledgement behind bytes that reach into it or
\* leave the buffer without a frame start.
MCFewBursts == {MCAck(0), MCTele, MCException, Damage(MCAck(0)), <<0, 85>>,
                SubSeq(MCTele, 1, 7)}
MCStreams == {x \o y : x \in MCBursts, y \in MCFewBursts}

\* Setpoints beyond the signed byte of the wire on both sides.
MCCelsius == {-129, 128}
=============================================================================
