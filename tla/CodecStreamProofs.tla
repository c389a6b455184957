-------------------------- MODULE CodecStreamProofs --------------------------
(***************************************************************************)
(* The growing receive buffer: its properties for every window table,      *)
(* every frame limit and every way the bytes of the bus are cut.           *)
(***************************************************************************)
EXTENDS CodecStream, WireProofs

\* The buffer always holds bytes (type invariant of CodecStream).
THEOREM TypeCorrect == Spec => []TypeOK
<1>1. Init => TypeOK
  BY PiecesAssumption DEF Init, TypeOK
<1>2. TypeOK /\ [Next]_vars => TypeOK'
  <2> SUFFICES ASSUME TypeOK, [Next]_vars PROVE TypeOK'
    OBVIOUS
  <2>1. CASE Grow
    <3>1. PICK p \in Pieces : buf' = buf \o p
      BY <2>1 DEF Grow
    <3>2. buf' \in Seq(Byte)
      BY <3>1, PiecesAssumption, ConcatProperties DEF TypeOK
    <3>3. left' \in 0 .. MaxPieces
      BY <2>1, PiecesAssumption DEF Grow, TypeOK
    <3>4. QED
      BY <3>2, <3>3 DEF TypeOK
  <2>2. CASE UNCHANGED vars
    BY <2>2 DEF vars, TypeOK
  <2>3. QED
    BY <2>1, <2>2 DEF Next
<1>3. QED
  BY <1>1, <1>2, PTL DEF Spec

\* Every step of the buffer appends bytes, possibly none.
LEMMA StepExtends ==
  ASSUME TypeOK, [Next]_vars
  PROVE  \E more \in Seq(Byte) : buf' = buf \o more
<1>1. CASE Grow
  BY <1>1, PiecesAssumption DEF Grow
<1>2. CASE UNCHANGED vars
  <2>1. <<>> \in Seq(Byte) /\ buf' = buf \o <<>>
    BY <1>2, ConcatEmptySeq, EmptySeq DEF vars, TypeOK
  <2>2. QED
    BY <2>1
<1>3. QED
  BY <1>1, <1>2 DEF Next

\* A frame start that was found does not move when more bytes arrive
\* (find_frame_start, tuya_codec.cpp).
THEOREM StartIsStable == Spec => StartStable
<1>1. ASSUME TypeOK, [Next]_vars, find_frame_start(buf) < Len(buf)
      PROVE  find_frame_start(buf') = find_frame_start(buf)
  <2>1. PICK more \in Seq(Byte) : buf' = buf \o more
    BY <1>1, StepExtends
  <2>2. QED
    BY <1>1, <2>1, StartOfExtension DEF TypeOK
<1>2. QED
  BY <1>1, TypeCorrect, PTL DEF Spec, StartStable

\* Keeping the last HDR_LEN - 1 bytes of a buffer without a frame start loses
\* no header (macon_listener.cpp:62-68, macon_master.cpp:82-88).
THEOREM TailIsEnough == Spec => TailKeepsStart
<1>1. ASSUME TypeOK, [Next]_vars, Len(buf) >= HDR_LEN,
             find_frame_start(buf) = Len(buf)
      PROVE  find_frame_start(buf') >= Len(buf) - (HDR_LEN - 1)
  <2>1. PICK more \in Seq(Byte) : buf' = buf \o more
    BY <1>1, StepExtends
  <2>2. QED
    BY <1>1, <2>1, TailOfExtension DEF TypeOK
<1>2. QED
  BY <1>1, TypeCorrect, PTL DEF Spec, TailKeepsStart

\* The verdict of parse_frame is final once it is not TRUNCATED
\* (parse_frame, tuya_codec.cpp).
THEOREM VerdictIsFinal == Spec => ParseStable
<1>1. ASSUME TypeOK, [Next]_vars, parse_frame(buf) # "TRUNCATED"
      PROVE  /\ parse_frame(buf') = parse_frame(buf)
             /\ parse_frame(buf) \in {"OK", "UNKNOWN_WINDOW"}
                  => parsed_frame(buf') = parsed_frame(buf)
  <2>1. PICK more \in Seq(Byte) : buf' = buf \o more
    BY <1>1, StepExtends
  <2>2. QED
    BY <1>1, <2>1, ParseOfExtension DEF TypeOK
<1>2. QED
  BY <1>1, TypeCorrect, PTL DEF Spec, ParseStable

\* An incomplete frame at a found start waits for fewer than MAX_FRAME_LEN
\* bytes, so a bounded accumulator suffices.
THEOREM WaitIsBounded == Spec => []BoundedWait
<1>1. TypeOK => BoundedWait
  BY ParseAtHeader DEF TypeOK, BoundedWait
<1>2. QED
  BY <1>1, TypeCorrect, PTL

\* What find_frame_start hands to parse_frame never comes back as
\* UNKNOWN_WINDOW: the branches for that answer in listener, link and master
\* are dead.
THEOREM UnknownIsUnreachable == Spec => []FoundIsNeverUnknown
<1>1. TypeOK => FoundIsNeverUnknown
  BY ParseAtHeader DEF TypeOK, FoundIsNeverUnknown
<1>2. QED
  BY <1>1, TypeCorrect, PTL

\* A buffer that starts with a frame of an encoder holds the fields the
\* encoder was given.
LEMMA StartParses ==
  ASSUME NEW dir, NEW fc, NEW a, NEW b, NEW data,
         buf \in Seq(Byte), Encodable(dir, fc, a, b, data),
         StartsWith(Seal(write_header(dir, fc, a, b) \o data))
  PROVE  ParsesAs(dir, fc, a, b, data)
<1> DEFINE f == Seal(write_header(dir, fc, a, b) \o data)
<1>1. Len(f) = MIN_FRAME_LEN + Len(data)
  BY SealedLength DEF Encodable
<1>2. /\ MIN_FRAME_LEN + Len(data) <= Len(buf)
      /\ SubSeq(buf, 1, MIN_FRAME_LEN + Len(data)) = f
  BY <1>1 DEF StartsWith
<1>3. /\ parse_frame(buf) = "OK"
      /\ parsed_frame(buf) = [dir |-> dir, fc |-> fc, field_a |-> a, field_b |-> b,
                              frame_len |-> MIN_FRAME_LEN + Len(data),
                              payload |-> data]
  BY <1>2, SealedFrame
<1>4. MIN_FRAME_LEN + Len(data) = IF carries_payload(dir, fc) THEN MIN_FRAME_LEN + b
                                                            ELSE MIN_FRAME_LEN
  BY DEF Encodable, MIN_FRAME_LEN, HDR_LEN, CHK_LEN
<1>5. QED
  BY <1>3, <1>4 DEF ParsesAs

\* What an encoder builds parses back to the fields it was built from, for
\* every window, address and payload, and whatever bytes follow
\* (encode_* and parse_frame, tuya_codec.cpp).
THEOREM FramesRoundTrip == Spec => []RoundTrip
<1>1. TypeOK => RoundTrip
  <2> SUFFICES ASSUME TypeOK PROVE RoundTrip
    OBVIOUS
  <2>1. buf \in Seq(Byte)
    BY DEF TypeOK
  <2>2. <<>> \in Seq(Byte) /\ Len(<<>>) = 0
    OBVIOUS
  <2>3. \A w \in KNOWN_WINDOWS : /\ w.field_a \in Word /\ w.field_b \in Word
                                /\ is_known_window(w.field_a, w.field_b)
    BY WindowsAssumption DEF RegWindow, is_known_window
  <2>4. ASSUME NEW w \in KNOWN_WINDOWS PROVE RequestParses(w)
    <3> SUFFICES ASSUME StartsWith(encode_request(FC_READ, w.field_a, w.field_b))
                 PROVE  ParsesAs(DIR_REQUEST, FC_READ, w.field_a, w.field_b, <<>>)
      BY DEF RequestParses
    <3> DEFINE h == write_header(DIR_REQUEST, FC_READ, w.field_a, w.field_b)
    <3>1. h \o <<>> = h
      BY DEF write_header
    <3>2. encode_request(FC_READ, w.field_a, w.field_b) = Seal(h \o <<>>)
      BY <2>3, <3>1 DEF encode_request, header_fc_ok
    <3> HIDE DEF h
    <3>3. StartsWith(Seal(h \o <<>>))
      BY <3>2
    <3>4. /\ header_dir_ok(DIR_REQUEST) /\ header_fc_ok(FC_READ)
          /\ ~ carries_payload(DIR_REQUEST, FC_READ)
      BY DEF header_dir_ok, header_fc_ok, carries_payload, DIR_REQUEST, DIR_RESPONSE,
             FC_READ, FC_CMD
    <3>5. MIN_FRAME_LEN + 0 <= MAX_FRAME_LEN
      BY MaxFrameAssumption DEF MIN_FRAME_LEN, HDR_LEN, CHK_LEN
    <3>6. Encodable(DIR_REQUEST, FC_READ, w.field_a, w.field_b, <<>>)
      BY <2>2, <2>3, <3>4, <3>5 DEF Encodable
    <3>7. QED
      BY <2>1, <3>3, <3>6, StartParses DEF h
  <2>5. ASSUME NEW w \in KNOWN_WINDOWS PROVE ResponseParses(w)
    <3> DEFINE data == Payload(w.field_b)
               h == write_header(DIR_RESPONSE, FC_READ, w.field_a, w.field_b)
    <3> SUFFICES ASSUME Len(buf) >= HDR_LEN + w.field_b,
                        StartsWith(encode_response(FC_READ, w.field_a, w.field_b, data))
                 PROVE  ParsesAs(DIR_RESPONSE, FC_READ, w.field_a, w.field_b, data)
      BY DEF ResponseParses
    <3>1. w.field_b \in Nat
      BY <2>3, WordBytes
    <3>2. data \in Seq(Byte) /\ Len(data) = w.field_b
      BY <2>1, <3>1 DEF Payload, HDR_LEN
    <3>3. /\ encode_response(FC_READ, w.field_a, w.field_b, data) = Seal(h \o data)
          /\ frame_total_len(DIR_RESPONSE, w.field_b) # 0
      BY DEF encode_response, StartsWith
    <3>4. MIN_FRAME_LEN + Len(data) <= MAX_FRAME_LEN
      BY <3>1, <3>2, <3>3, MaxFrameAssumption
      DEF frame_total_len, AtMostMax, MIN_FRAME_LEN, HDR_LEN, CHK_LEN, DIR_REQUEST, DIR_RESPONSE
    <3>5. /\ header_dir_ok(DIR_RESPONSE) /\ header_fc_ok(FC_READ)
          /\ carries_payload(DIR_RESPONSE, FC_READ)
      BY DEF header_dir_ok, header_fc_ok, carries_payload
    <3>6. StartsWith(Seal(h \o data))
      BY <3>3
    <3> HIDE DEF data
    <3>7. Encodable(DIR_RESPONSE, FC_READ, w.field_a, w.field_b, data)
      BY <2>3, <3>2, <3>4, <3>5 DEF Encodable
    <3>8. QED
      BY <2>1, <3>6, <3>7, StartParses
  <2>6. CommandParses
    <3> SUFFICES ASSUME Len(buf) >= MIN_FRAME_LEN
                 PROVE  /\ StartsWith(encode_command(FieldA(buf), Payload(1)))
                              => ParsesAs(DIR_REQUEST, FC_CMD, FieldA(buf), 1, Payload(1))
                        /\ StartsWith(encode_command_ack(FieldA(buf), FieldB(buf)))
                              => ParsesAs(DIR_RESPONSE, FC_CMD, FieldA(buf), FieldB(buf), <<>>)
      BY DEF CommandParses
    <3> DEFINE a == FieldA(buf)
               b == FieldB(buf)
               data == Payload(1)
    <3>1. a \in Word /\ b \in Word /\ 1 \in Word
      <4>1. Len(buf) >= HDR_LEN
        BY <2>1 DEF MIN_FRAME_LEN, HDR_LEN, CHK_LEN
      <4>2. 1 \in Word
        BY WordRange
      <4>3. QED
        BY <2>1, <4>1, <4>2, FieldsAreWords
    <3>2. data \in Seq(Byte) /\ Len(data) = 1
      BY <2>1 DEF Payload, MIN_FRAME_LEN, HDR_LEN, CHK_LEN
    <3>3. /\ header_dir_ok(DIR_REQUEST) /\ header_dir_ok(DIR_RESPONSE)
          /\ header_fc_ok(FC_CMD)
          /\ carries_payload(DIR_REQUEST, FC_CMD)
          /\ ~ carries_payload(DIR_RESPONSE, FC_CMD)
      BY DEF header_dir_ok, header_fc_ok, carries_payload, DIR_REQUEST, DIR_RESPONSE,
             FC_READ, FC_CMD
    <3> HIDE DEF a, b, data
    <3>4. ASSUME StartsWith(encode_command(a, data))
          PROVE  ParsesAs(DIR_REQUEST, FC_CMD, a, 1, data)
      <4>1. /\ command_frame_len(DIR_REQUEST, 1) # 0
            /\ StartsWith(Seal(write_header(DIR_REQUEST, FC_CMD, a, 1) \o data))
        BY <3>2, <3>4 DEF encode_command, StartsWith
      <4>2. MIN_FRAME_LEN + 1 <= MAX_FRAME_LEN
        BY <4>1, MaxFrameAssumption
        DEF command_frame_len, AtMostMax, MIN_FRAME_LEN, HDR_LEN, CHK_LEN, DIR_REQUEST
      <4>3. Encodable(DIR_REQUEST, FC_CMD, a, 1, data)
        BY <3>1, <3>2, <3>3, <4>2 DEF Encodable
      <4>4. QED
        BY <2>1, <4>1, <4>3, StartParses
    <3>5. ASSUME StartsWith(encode_command_ack(a, b))
          PROVE  ParsesAs(DIR_RESPONSE, FC_CMD, a, b, <<>>)
      <4> DEFINE h == write_header(DIR_RESPONSE, FC_CMD, a, b)
      <4>1. h \o <<>> = h
        BY DEF write_header
      <4> HIDE DEF h
      <4>2. StartsWith(Seal(h \o <<>>))
        BY <3>5, <4>1 DEF encode_command_ack, h
      <4>3. MIN_FRAME_LEN + 0 <= MAX_FRAME_LEN
        BY MaxFrameAssumption DEF MIN_FRAME_LEN, HDR_LEN, CHK_LEN
      <4>4. Encodable(DIR_RESPONSE, FC_CMD, a, b, <<>>)
        BY <2>2, <3>1, <3>3, <4>3 DEF Encodable
      <4>5. QED
        BY <2>1, <4>2, <4>4, StartParses DEF h
    <3>6. QED
      BY <3>4, <3>5 DEF a, b, data
  <2>7. QED
    BY <2>4, <2>5, <2>6 DEF RoundTrip
<1>2. QED
  BY <1>1, TypeCorrect, PTL
=============================================================================
