----------------------------- MODULE CodecStream -----------------------------
(***************************************************************************)
(* A receive buffer that grows by arbitrary pieces: what every consumer of *)
(* the codec (listener, link, master) looks at between two reads.  The     *)
(* properties are the ones those consumers rely on when they call          *)
(* find_frame_start and parse_frame on a buffer that is still growing.     *)
(***************************************************************************)
EXTENDS TuyaCodec

CONSTANTS Pieces,     \* byte strings the bus may append to the buffer
          MaxPieces   \* bound on the number of appended pieces

ASSUME PiecesAssumption == Pieces \subseteq Seq(Byte) /\ MaxPieces \in Nat

VARIABLES buf,    \* the bytes received so far
          left    \* pieces that may still arrive

vars == <<buf, left>>

Init == buf = <<>> /\ left = MaxPieces

\* More bytes of the bus reach the buffer (any transport read of src/).
Grow == /\ left > 0
        /\ \E p \in Pieces : buf' = buf \o p
        /\ left' = left - 1

Next == Grow
Spec == Init /\ [][Next]_vars
-----------------------------------------------------------------------------
\* The buffer holds bytes only.
TypeOK == buf \in Seq(Byte) /\ left \in 0 .. MaxPieces

\* A frame start, once found, stays the answer when more bytes arrive: a
\* consumer may discard what precedes it (find_frame_start, tuya_codec.cpp).
StartStable ==
  [][find_frame_start(buf) < Len(buf)
       => find_frame_start(buf') = find_frame_start(buf)]_vars

\* When no start is found, a header that later completes starts within the
\* last HDR_LEN - 1 bytes: keeping those is enough (listener and master).
TailKeepsStart ==
  [][/\ Len(buf) >= HDR_LEN
     /\ find_frame_start(buf) = Len(buf)
     => find_frame_start(buf') >= Len(buf) - (HDR_LEN - 1)]_vars

\* A verdict other than TRUNCATED is final, and so are the fields it comes
\* with: bytes behind a frame cannot change how it parses (parse_frame).
ParseStable ==
  [][parse_frame(buf) # "TRUNCATED"
       => /\ parse_frame(buf') = parse_frame(buf)
          /\ parse_frame(buf) \in {"OK", "UNKNOWN_WINDOW"}
               => parsed_frame(buf') = parsed_frame(buf)]_vars

\* A frame that waits for bytes at a found start waits for fewer than
\* MAX_FRAME_LEN of them: no consumer needs a larger accumulator.
BoundedWait ==
  /\ plausible_header(buf, 0)
  /\ parse_frame(buf) = "TRUNCATED"
  => Len(buf) < MAX_FRAME_LEN

\* find_frame_start already demands a known window of a read frame, so a
\* frame it hands to parse_frame never comes back as UNKNOWN_WINDOW: the
\* branches the consumers keep for that answer cannot be taken.
FoundIsNeverUnknown ==
  plausible_header(buf, 0)
    => parse_frame(buf) \in {"OK", "TRUNCATED", "BAD_CHECKSUM", "BAD_DIR"}

\* Whatever the encoders build for the calls src/ makes parses back to the
\* fields it was built from, also with other bytes behind it.
StartsWith(f) ==
  f # <<>> /\ Len(f) <= Len(buf) /\ SubSeq(buf, 1, Len(f)) = f

ParsesAs(dir, fc, a, b, payload) ==
  /\ parse_frame(buf) = "OK"
  /\ parsed_frame(buf) = [dir |-> dir, fc |-> fc, field_a |-> a, field_b |-> b,
                          payload |-> payload,
                          frame_len |-> IF carries_payload(dir, fc)
                                        THEN MIN_FRAME_LEN + b
                                        ELSE MIN_FRAME_LEN]

Payload(n) == SubSeq(buf, HDR_LEN + 1, HDR_LEN + n)

ResponseParses(w) ==
  Len(buf) >= HDR_LEN + w.field_b =>
    LET data == Payload(w.field_b)
    IN  StartsWith(encode_response(FC_READ, w.field_a, w.field_b, data))
          => ParsesAs(DIR_RESPONSE, FC_READ, w.field_a, w.field_b, data)

RequestParses(w) ==
  StartsWith(encode_request(FC_READ, w.field_a, w.field_b))
    => ParsesAs(DIR_REQUEST, FC_READ, w.field_a, w.field_b, <<>>)

CommandParses ==
  Len(buf) >= MIN_FRAME_LEN =>
    /\ StartsWith(encode_command(FieldA(buf), Payload(1)))
         => ParsesAs(DIR_REQUEST, FC_CMD, FieldA(buf), 1, Payload(1))
    /\ StartsWith(encode_command_ack(FieldA(buf), FieldB(buf)))
         => ParsesAs(DIR_RESPONSE, FC_CMD, FieldA(buf), FieldB(buf), <<>>)

RoundTrip ==
  /\ \A w \in KNOWN_WINDOWS : RequestParses(w) /\ ResponseParses(w)
  /\ CommandParses
=============================================================================
