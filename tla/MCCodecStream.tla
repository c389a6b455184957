---------------------------- MODULE MCCodecStream ----------------------------
(* TLC instance of CodecStream: single bytes, intact frames and torn ones. *)
EXTENDS CodecStream, MCWire

MCFrames ==
  {encode_request(FC_READ, 0, 2), encode_request(FC_READ, 2, 3),
   encode_response(FC_READ, 0, 2, <<85, 170>>),
   encode_response(FC_READ, 2, 3, <<85, 170, 15>>),
   encode_command(0, <<12>>), encode_command_ack(0, 1)}

\* A checksum-valid frame of a window the codec does not map, a command whose
\* count is implausible, an answer with a foreign function code.
MCForeign ==
  {Seal(write_header(DIR_RESPONSE, FC_READ, 7, 1) \o <<9>>),
   write_header(DIR_REQUEST, FC_CMD, 0, 300),
   Seal(write_header(DIR_RESPONSE, FC_CMD + 128, 0, 1))}

\* Heads of frames that the next piece may or may not complete.
MCTorn == {SubSeq(encode_response(FC_READ, 0, 2, <<1, 2>>), 1, n) : n \in {2, 7, 9}}

MCPieces == MCFrames \cup MCForeign \cup MCTorn \cup {<<b>> : b \in {0, 2, 3, 85, 170}}
=============================================================================
