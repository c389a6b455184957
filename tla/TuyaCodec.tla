------------------------------ MODULE TuyaCodec ------------------------------
(***************************************************************************)
(* The wire codec of src/src/tuya_codec.cpp and src/include/tuya_codec.h:  *)
(* frame lengths, checksum, parsing, encoding and frame discovery, as      *)
(* operators over sequences of bytes.  A buffer is a sequence, so offset i *)
(* of the code is index i + 1 here; an encoder that refuses returns <<>>   *)
(* where the code returns a length of 0.                                   *)
(*                                                                         *)
(* The window table and the longest frame are parameters, so that TLC can  *)
(* work on short frames; the header layout is the code's.                  *)
(***************************************************************************)
EXTENDS Integers, Sequences

CONSTANTS KNOWN_WINDOWS,   \* the register windows of the protocol
          MAX_FRAME_LEN    \* the longest frame, 256 in the code

Byte == 0 .. 255
Word == 0 .. 256 * 256 - 1

HDR0         == 85     \* 0x55
HDR1         == 170    \* 0xAA
DIR_REQUEST  == 240    \* 0xF0
DIR_RESPONSE == 15     \* 0x0F
FC_READ      == 3
FC_CMD       == 6

HDR_LEN       == 8
CHK_LEN       == 1
MIN_FRAME_LEN == HDR_LEN + CHK_LEN

RegWindow == [field_a : Word, field_b : Word, reg_base : Word, prefix_len : Byte]

ASSUME WindowsAssumption ==
  /\ KNOWN_WINDOWS \subseteq RegWindow
  /\ \A v, w \in KNOWN_WINDOWS :
       v.field_a = w.field_a /\ v.field_b = w.field_b => v = w

ASSUME MaxFrameAssumption ==
  /\ MAX_FRAME_LEN \in Nat
  /\ MAX_FRAME_LEN >= MIN_FRAME_LEN
-----------------------------------------------------------------------------
(* Window lookup, checksum and frame length *)

is_known_window(a, b) ==
  \E w \in KNOWN_WINDOWS : w.field_a = a /\ w.field_b = b

find_window(a, b) ==
  CHOOSE w \in KNOWN_WINDOWS : w.field_a = a /\ w.field_b = b

SumOf(bytes) ==
  LET sum[i \in 0 .. Len(bytes)] == IF i = 0 THEN 0 ELSE sum[i - 1] + bytes[i]
  IN  sum[Len(bytes)]

\* The checksum of a frame of n bytes, the last of which is the checksum: it
\* covers everything between the magic and itself.
compute_checksum(frame, n) == 255 - (SumOf(SubSeq(frame, 3, n - 1)) % 256)

NoLimit(n)   == n   \* faulty variant: no upper limit
AtMostMax(n) == IF n > MAX_FRAME_LEN THEN 0 ELSE n

frame_total_len(dir, count) ==
  IF dir = DIR_REQUEST       THEN AtMostMax(HDR_LEN + CHK_LEN)
  ELSE IF dir = DIR_RESPONSE THEN AtMostMax(HDR_LEN + count + CHK_LEN)
  ELSE 0

command_frame_len(dir, count) ==
  IF dir = DIR_REQUEST       THEN AtMostMax(HDR_LEN + count + CHK_LEN)
  ELSE IF dir = DIR_RESPONSE THEN AtMostMax(HDR_LEN + CHK_LEN)
  ELSE 0

header_dir_ok(dir) == dir \in {DIR_REQUEST, DIR_RESPONSE}
header_fc_ok(fc)   == fc \in {FC_READ, FC_CMD}
-----------------------------------------------------------------------------
(* Parsing *)

U16(hi, lo) == hi * 256 + lo
FieldA(buf) == U16(buf[5], buf[6])
FieldB(buf) == U16(buf[7], buf[8])

declared_len(buf) ==
  IF buf[4] = FC_CMD THEN command_frame_len(buf[3], FieldB(buf))
                     ELSE frame_total_len(buf[3], FieldB(buf))

\* A read response and a command request carry count bytes, the rest nothing.
carries_payload(dir, fc) ==
  \/ fc = FC_READ /\ dir = DIR_RESPONSE
  \/ fc = FC_CMD  /\ dir = DIR_REQUEST

checksum_at_end(buf) ==   \* faulty variant: takes the buffer for the frame
  buf[Len(buf)] = compute_checksum(buf, Len(buf))

checksum_ok(buf) ==
  buf[declared_len(buf)] = compute_checksum(buf, declared_len(buf))

parse_frame(buf) ==
  IF Len(buf) < HDR_LEN                              THEN "TRUNCATED"
  ELSE IF buf[1] # HDR0 \/ buf[2] # HDR1             THEN "BAD_MAGIC"
  ELSE IF ~ header_dir_ok(buf[3])                    THEN "BAD_DIR"
  ELSE IF ~ header_fc_ok(buf[4])                     THEN "BAD_FC"
  ELSE IF declared_len(buf) = 0                      THEN "BAD_DIR"
  ELSE IF Len(buf) < declared_len(buf)               THEN "TRUNCATED"
  ELSE IF ~ checksum_ok(buf)                         THEN "BAD_CHECKSUM"
  ELSE IF /\ buf[4] # FC_CMD
          /\ ~ is_known_window(FieldA(buf), FieldB(buf)) THEN "UNKNOWN_WINDOW"
  ELSE "OK"

ParseResults == {"OK", "BAD_MAGIC", "TRUNCATED", "BAD_DIR", "BAD_FC",
                 "UNKNOWN_WINDOW", "BAD_CHECKSUM"}

\* The ParsedFrame that parse_frame fills in on OK and on UNKNOWN_WINDOW.
parsed_frame(buf) ==
  [dir       |-> buf[3],
   fc        |-> buf[4],
   field_a   |-> FieldA(buf),
   field_b   |-> FieldB(buf),
   frame_len |-> declared_len(buf),
   payload   |-> IF carries_payload(buf[3], buf[4])
                 THEN SubSeq(buf, HDR_LEN + 1, HDR_LEN + FieldB(buf))
                 ELSE <<>>]
-----------------------------------------------------------------------------
(* Encoding *)

little_endian_header(dir, fc, a, b) ==   \* faulty variant
  <<HDR0, HDR1, dir, fc, a % 256, a \div 256, b % 256, b \div 256>>

write_header(dir, fc, a, b) ==
  <<HDR0, HDR1, dir, fc, a \div 256, a % 256, b \div 256, b % 256>>

Seal(body) == Append(body, compute_checksum(body, Len(body) + 1))

encode_request(fc, a, b) ==
  IF header_fc_ok(fc) /\ is_known_window(a, b)
  THEN Seal(write_header(DIR_REQUEST, fc, a, b))
  ELSE <<>>

encode_response(fc, a, b, payload) ==
  IF header_fc_ok(fc) /\ is_known_window(a, b) /\ frame_total_len(DIR_RESPONSE, b) # 0
  THEN Seal(write_header(DIR_RESPONSE, fc, a, b) \o payload)
  ELSE <<>>

encode_command_ack(a, b) == Seal(write_header(DIR_RESPONSE, FC_CMD, a, b))

encode_command(a, data) ==
  IF command_frame_len(DIR_REQUEST, Len(data)) # 0
  THEN Seal(write_header(DIR_REQUEST, FC_CMD, a, Len(data)) \o data)
  ELSE <<>>
-----------------------------------------------------------------------------
(* Frame discovery *)

has_magic(buf, i) ==
  /\ i + HDR_LEN <= Len(buf)
  /\ buf[i + 1] = HDR0
  /\ buf[i + 2] = HDR1
  /\ header_dir_ok(buf[i + 3])
  /\ header_fc_ok(buf[i + 4])

\* Faulty variant: wants a byte behind the header.
header_and_more(buf, i) == i + MIN_FRAME_LEN <= Len(buf) /\ has_magic(buf, i)

\* A complete header that passes the sanity checks starts at offset i.
plausible_header(buf, i) ==
  /\ has_magic(buf, i)
  /\ \/ buf[i + 4] = FC_CMD
     \/ is_known_window(U16(buf[i + 5], buf[i + 6]), U16(buf[i + 7], buf[i + 8]))

last_frame_start(buf) ==   \* faulty variant: the last start, not the first
  LET starts == {i \in 0 .. Len(buf) - 1 : plausible_header(buf, i)}
  IN  IF starts = {} THEN Len(buf)
      ELSE CHOOSE i \in starts : \A j \in starts : j <= i

find_frame_start(buf) ==
  LET starts == {i \in 0 .. Len(buf) - 1 : plausible_header(buf, i)}
  IN  IF starts = {} THEN Len(buf)
      ELSE CHOOSE i \in starts : \A j \in starts : i <= j
=============================================================================
