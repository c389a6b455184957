--------------------------- MODULE MaconLinkProofs ---------------------------
(***************************************************************************)
(* The transactions of MaconLink for every window table, frame limit, bus  *)
(* and way the transport cuts its bytes.                                   *)
(***************************************************************************)
EXTENDS MaconLink, WireProofs

\* The codec of the stream's definitions is the link's.
LEMMA SameCodec ==
  /\ \A b, i : FS!plausible_header(b, i) = plausible_header(b, i)
  /\ \A b : FS!parse_frame(b) = parse_frame(b)
<1> USE DEF FS!HDR0, FS!HDR1, FS!DIR_REQUEST, FS!DIR_RESPONSE, FS!FC_READ, FS!FC_CMD,
            FS!HDR_LEN, FS!CHK_LEN, FS!MIN_FRAME_LEN, FS!U16, FS!FieldA, FS!FieldB,
            FS!is_known_window, FS!header_dir_ok, FS!header_fc_ok, FS!AtMostMax,
            FS!frame_total_len, FS!command_frame_len, FS!declared_len,
            FS!has_magic, FS!plausible_header, FS!SumOf, FS!compute_checksum,
            FS!checksum_ok, FS!parse_frame,
            HDR0, HDR1, DIR_REQUEST, DIR_RESPONSE, FC_READ, FC_CMD,
            HDR_LEN, CHK_LEN, MIN_FRAME_LEN, U16, FieldA, FieldB,
            is_known_window, header_dir_ok, header_fc_ok, AtMostMax,
            frame_total_len, command_frame_len, declared_len,
            has_magic, plausible_header, SumOf, compute_checksum,
            checksum_ok, parse_frame
<1>1. \A b, i : FS!plausible_header(b, i) = plausible_header(b, i)
  BY Zenon
<1>2. \A b : FS!parse_frame(b) = parse_frame(b)
  BY Zenon
<1>3. QED
  BY <1>1, <1>2

\* The buffer holds the last bytes that were read, all of this call, and has
\* room for the next read.
StoreInv ==
  /\ stream \in Seq(Byte)
  /\ off \in Nat /\ begin \in Nat
  /\ off <= Len(stream)
  /\ store \in Seq(Byte)
  /\ begin + Len(store) <= off
  /\ \A k \in 1 .. Len(store) : store[k] = stream[(off - Len(store)) + k]
  /\ Len(store) <= MAX_FRAME_LEN
  /\ pc = "idle" => store = <<>>
  /\ pc = "read" => Len(store) < MAX_FRAME_LEN

\* What the scan looks at is a frame that starts in front of the buffer.
LEMMA ScanVerdict ==
  ASSUME StoreInv, Scanning, Start = 0
  PROVE  /\ plausible_header(store, 0)
         /\ parse_frame(store) \in {"OK", "TRUNCATED", "BAD_CHECKSUM", "BAD_DIR"}
         /\ parse_frame(store) = "TRUNCATED" => Len(store) < MAX_FRAME_LEN
         /\ parse_frame(store) = "OK" => declared_len(store) \in MIN_FRAME_LEN .. Len(store)
<1>1. store \in Seq(Byte) /\ Len(store) \in Nat /\ Len(store) >= HDR_LEN
  BY DEF StoreInv, Scanning, InDrain
<1>2. plausible_header(store, 0)
  BY <1>1, FindFrameStart DEF Start, HDR_LEN
<1>3. QED
  BY <1>1, <1>2, ParseAtHeader

\* Nothing has been read yet.
LEMMA StoreInit == Init => StoreInv
<1> SUFFICES ASSUME Init PROVE StoreInv
  OBVIOUS
<1>1. /\ stream \in Streams /\ Streams \subseteq Seq(Byte)
      /\ off = 0 /\ begin = 0 /\ store = <<>> /\ pc = "idle"
  BY LinkAssumption DEF Init
<1>2. stream \in Seq(Byte) /\ Len(stream) \in Nat
  BY <1>1
<1>3. store \in Seq(Byte) /\ Len(store) = 0 /\ MAX_FRAME_LEN \in Nat
  BY <1>1, MaxFrameAssumption
<1>4. \A k \in 1 .. Len(store) : store[k] = stream[(off - Len(store)) + k]
  BY <1>3
<1>5. begin \in Nat /\ off \in Nat /\ off <= Len(stream) /\ begin + Len(store) <= off
  BY <1>1, <1>2, <1>3
<1>6. Len(store) <= MAX_FRAME_LEN /\ pc # "read"
  BY <1>1, <1>3
<1>7. QED
  BY <1>1, <1>2, <1>3, <1>4, <1>5, <1>6 DEF StoreInv

\* Every step keeps the buffer the end of what was read.
LEMMA StoreStep == StoreInv /\ [Next]_vars => StoreInv'
<1> SUFFICES ASSUME StoreInv, [Next]_vars PROVE StoreInv'
  OBVIOUS
<1>0. /\ stream \in Seq(Byte) /\ off \in Nat /\ begin \in Nat /\ off <= Len(stream)
      /\ store \in Seq(Byte) /\ begin + Len(store) <= off
      /\ Len(store) <= MAX_FRAME_LEN
      /\ MAX_FRAME_LEN \in Nat /\ MAX_FRAME_LEN >= 9
  BY MaxFrameAssumption DEF StoreInv, MIN_FRAME_LEN, HDR_LEN, CHK_LEN
<1>t. \A k \in 1 .. Len(store) : store[k] = stream[(off - Len(store)) + k]
  BY DEF StoreInv
\* A call begins, or ends, with an empty buffer.
<1>e. ASSUME stream' = stream, off' = off, begin' \in {begin, off}, store' = <<>>
      PROVE  StoreInv'
  <2>1. Len(store') = 0 /\ store' \in Seq(Byte) /\ begin' \in Nat /\ begin' <= off
    BY <1>0, <1>e
  <2>2. stream' \in Seq(Byte) /\ off' \in Nat /\ off' <= Len(stream')
    BY <1>0, <1>e
  <2>3. begin' + Len(store') <= off' /\ Len(store') <= MAX_FRAME_LEN /\ 0 < MAX_FRAME_LEN
    <3>1. \A p, q, m \in Nat : p <= q /\ m >= 9 => p + 0 <= q /\ 0 <= m /\ 0 < m
      OBVIOUS
    <3>2. off' = off /\ off \in Nat /\ MAX_FRAME_LEN \in Nat /\ MAX_FRAME_LEN >= 9
      BY <1>0, <1>e
    <3>3. QED
      BY <2>1, <3>1, <3>2, Zenon
  <2>4. \A k \in 1 .. Len(store') : store'[k] = stream'[(off' - Len(store')) + k]
    BY <2>1
  <2>5. QED
    BY <1>e, <2>1, <2>2, <2>3, <2>4, Zenon DEF StoreInv
\* The buffer loses its front.
<1>d. ASSUME NEW n \in Nat, n <= Len(store), Discard(n), pc = "drain"
      PROVE  StoreInv'
  <2>1. /\ store' = SubSeq(store, n + 1, Len(store))
        /\ stream' = stream /\ off' = off /\ begin' = begin /\ pc' = "drain"
    BY <1>d DEF Discard, history
  <2>2. /\ store' \in Seq(Byte) /\ Len(store') = Len(store) - n
        /\ \A k \in 1 .. Len(store) - n : store'[k] = store[n + k]
    BY <1>0, <1>d, <2>1, SubSeqProperties
  <2>3. \A k \in 1 .. Len(store') : store'[k] = stream[(off - Len(store')) + k]
    <3> TAKE k \in 1 .. Len(store')
    <3>1. /\ k \in 1 .. Len(store) - n /\ n + k \in 1 .. Len(store)
          /\ (off - Len(store)) + (n + k) = (off - Len(store')) + k
      BY <1>0, <1>d, <2>2
    <3>2. QED
      BY <1>t, <2>2, <3>1
  <2>4. Len(store') <= MAX_FRAME_LEN /\ begin' + Len(store') <= off
    BY <1>0, <1>d, <2>1, <2>2
  <2>5. QED
    BY <1>0, <2>1, <2>2, <2>3, <2>4 DEF StoreInv
\* Nothing changes but that the drain is over.
<1>n. ASSUME stream' = stream, off' = off, begin' = begin, store' = store,
             pc' = "read", Len(store) < MAX_FRAME_LEN
      PROVE  StoreInv'
  BY <1>0, <1>t, <1>n DEF StoreInv
<1>r. ASSUME NEW r, Return(r) PROVE StoreInv'
  BY <1>e, <1>r DEF Return, history
<1>c. ASSUME Ready,
             NEW call, NEW frame, NEW expected, NEW r,
             Transact(call, frame, expected) \/ Refuse(call, r)
      PROVE  StoreInv'
  BY <1>e, <1>c DEF Ready, Transact, Refuse, StoreInv
<1>1. CASE SetSetpoint
  BY <1>1, <1>c DEF SetSetpoint, write_byte
<1>2. CASE SetWorkingMode
  BY <1>2, <1>c DEF SetWorkingMode, write_byte
<1>3. CASE WriteRegister
  BY <1>3, <1>c DEF WriteRegister, write_byte
<1>4. CASE ReadSetpoint
  BY <1>4, <1>c DEF ReadSetpoint
<1>5. CASE TakeNack
  BY <1>5, <1>r DEF TakeNack
<1>6. CASE DropJunk
  <2>1. /\ Len(store) >= HDR_LEN /\ pc' = "read"
        /\ stream' = stream /\ off' = off /\ begin' = begin
        /\ store' = <<>> \/ store' = <<store[Len(store)]>>
    BY <1>6 DEF DropJunk, Scanning, InDrain
  <2>2. CASE store' = <<>>
    BY <1>e, <2>1, <2>2
  <2>3. CASE store' = <<store[Len(store)]>>
    <3>1. Len(store) \in 1 .. Len(store) /\ store[Len(store)] \in Byte
      BY <1>0, <2>1 DEF HDR_LEN
    <3>2. store' \in Seq(Byte) /\ Len(store') = 1 /\ store'[1] = store[Len(store)]
      BY <2>3, <3>1
    <3>3. store[Len(store)] = stream[(off - Len(store)) + Len(store)]
      BY <1>t, <3>1
    <3>4. (off - Len(store)) + Len(store) = (off - 1) + 1
      BY <1>0
    <3>5. begin + 1 <= off
      BY <1>0, <2>1 DEF HDR_LEN
    <3>6. QED
      BY <1>0, <2>1, <3>2, <3>3, <3>4, <3>5 DEF StoreInv
  <2>4. QED
    BY <2>1, <2>2, <2>3
<1>7. CASE Resync
  <2>1. Start \in 1 .. Len(store) - 1 /\ Discard(Start) /\ pc = "drain"
    BY <1>7 DEF Resync, Scanning, InDrain
  <2>2. Start \in Nat /\ Start <= Len(store)
    BY <1>0, <2>1
  <2>3. QED
    BY <1>d, <2>1, <2>2
<1>8. CASE AwaitMore
  <2>1. Len(store) < MAX_FRAME_LEN
    BY <1>0, <1>8, ScanVerdict DEF AwaitMore, AtFrame, HDR_LEN
  <2>2. QED
    BY <1>8, <1>n, <2>1 DEF AwaitMore, history
<1>9. CASE TakeAnswer
  BY <1>9, <1>r DEF TakeAnswer
<1>10. CASE SkipFrame
  <2>1. /\ Scanning /\ Start = 0 /\ parse_frame(store) = "OK" /\ pc = "drain"
        /\ Discard(declared_len(store))
    BY <1>10 DEF SkipFrame, AtFrame, Scanning, InDrain, frame_only, parsed_frame
  <2>2. declared_len(store) \in Nat /\ declared_len(store) <= Len(store)
    BY <1>0, <2>1, ScanVerdict DEF MIN_FRAME_LEN, HDR_LEN, CHK_LEN
  <2>3. QED
    BY <1>d, <2>1, <2>2
<1>11. CASE DropByte
  <2>1. Discard(1) /\ pc = "drain" /\ 1 <= Len(store)
    BY <1>0, <1>11 DEF DropByte, Scanning, InDrain, HDR_LEN
  <2>2. QED
    BY <1>d, <2>1
<1>12. CASE StopReading
  BY <1>12, <1>r DEF StopReading
<1>13. CASE Receive
  <2>1. PICK n \in ReadSizes :
          /\ n <= MAX_FRAME_LEN - Len(store) /\ off + n <= Len(stream)
          /\ store' = store \o SubSeq(stream, off + 1, off + n)
          /\ off' = off + n
    BY <1>13 DEF Receive, cap
  <2>2. n \in Nat /\ n > 0
    BY LinkAssumption
  <2> DEFINE more == SubSeq(stream, off + 1, off + n)
  <2>3. /\ more \in Seq(Byte) /\ Len(more) = n
        /\ \A k \in 1 .. n : more[k] = stream[off + k]
    <3>1. /\ off + 1 \in Int /\ off + n \in Int /\ off + 1 <= off + n
          /\ (off + n) - (off + 1) + 1 = n
          /\ \A k \in 1 .. n : off + 1 + k - 1 = off + k
      BY <1>0, <2>1, <2>2
    <3>2. \A i \in off + 1 .. off + n : stream[i] \in Byte
      <4> TAKE i \in off + 1 .. off + n
      <4>1. i \in 1 .. Len(stream)
        BY <1>0, <2>1, <2>2
      <4>2. QED
        BY <1>0, <4>1
    <3>3. /\ SubSeq(stream, off + 1, off + n) \in Seq(Byte)
          /\ Len(SubSeq(stream, off + 1, off + n)) = n
          /\ \A k \in 1 .. n : SubSeq(stream, off + 1, off + n)[k] = stream[off + 1 + k - 1]
      BY <3>1, <3>2, SubSeqProperties
    <3>4. QED
      BY <3>1, <3>3
  <2>4. /\ store' \in Seq(Byte) /\ Len(store') = Len(store) + n
        /\ \A k \in 1 .. Len(store) : store'[k] = store[k]
        /\ \A k \in 1 .. n : store'[Len(store) + k] = more[k]
    <3>1. store' = store \o more
      BY <2>1 DEF more
    <3>2. /\ store \o more \in Seq(Byte) /\ Len(store \o more) = Len(store) + n
          /\ \A i \in 1 .. Len(store) + n :
                (store \o more)[i] = IF i <= Len(store) THEN store[i]
                                                       ELSE more[i - Len(store)]
      BY <1>0, <2>3, ConcatProperties
    <3>3. \A k \in 1 .. n : (store \o more)[Len(store) + k] = more[k]
      <4> TAKE k \in 1 .. n
      <4>1. /\ Len(store) + k \in 1 .. Len(store) + n /\ ~ (Len(store) + k <= Len(store))
            /\ (Len(store) + k) - Len(store) = k
        BY <1>0, <2>2
      <4>2. QED
        BY <3>2, <4>1
    <3>4. \A k \in 1 .. Len(store) : (store \o more)[k] = store[k]
      BY <1>0, <2>2, <3>2
    <3>5. QED
      BY <3>1, <3>2, <3>3, <3>4
  <2>5. \A k \in 1 .. Len(store') : store'[k] = stream[(off' - Len(store')) + k]
    <3> TAKE k \in 1 .. Len(store')
    <3>1. off' - Len(store') = off - Len(store)
      BY <1>0, <2>1, <2>2, <2>4
    <3>2. CASE k <= Len(store)
      BY <1>0, <1>t, <2>2, <2>4, <3>1, <3>2
    <3>3. CASE k > Len(store)
      <4> DEFINE j == k - Len(store)
      <4>1. j \in 1 .. n /\ Len(store) + j = k /\ (off - Len(store)) + k = off + j
        BY <1>0, <2>2, <2>4, <3>3
      <4> HIDE DEF j
      <4>2. QED
        BY <2>3, <2>4, <3>1, <4>1
    <3>4. QED
      BY <1>0, <2>2, <2>4, <3>2, <3>3
  <2>6. stream' = stream /\ begin' = begin /\ pc' = "drain"
    BY <1>13 DEF Receive, history
  <2>7. /\ off' \in Nat /\ off' <= Len(stream) /\ begin + Len(store') <= off'
        /\ Len(store') <= MAX_FRAME_LEN
    BY <1>0, <2>1, <2>2, <2>4
  <2>8. QED
    BY <1>0, <2>4, <2>5, <2>6, <2>7 DEF StoreInv
<1>14. CASE ReadFails
  BY <1>14, <1>r DEF ReadFails
<1>15. CASE UNCHANGED vars
  BY <1>15, <1>0, <1>t DEF vars, history, StoreInv
<1>16. QED
  BY <1>1, <1>2, <1>3, <1>4, <1>5, <1>6, <1>7, <1>8, <1>9, <1>10, <1>11, <1>12,
     <1>13, <1>14, <1>15
  DEF Next, Call, Step

\* The overflow guard of read_matching_frame cannot fire: an answer is never
\* given up because the receive buffer is full.
THEOREM RoomInStore == Spec => []StoreHasRoom
<1>1. StoreInv => StoreHasRoom
  BY DEF StoreInv, StoreHasRoom, cap
<1>2. QED
  BY <1>1, StoreInit, StoreStep, PTL DEF Spec
-----------------------------------------------------------------------------
(* What the scan has passed *)

\* Where in the stream the buffer begins.
HeadAt == off - Len(store)

\* What AnswerAt says of the frame at offset i, whether it was read whole or not.
IsAnswer(i) ==
  /\ FS!Intact(i)
  /\ LET f == parsed_frame(FS!FrameAt(i))
     IN  /\ <<f.dir, f.fc>> = <<DIR_RESPONSE, want.fc>>
         /\ <<f.field_a, f.field_b>> = <<want.a, want.b>>

\* An earlier frame of the call, intact, contains the byte at offset i.
OwnedAt(i) ==
  \E j \in begin .. i - 1 :
    /\ plausible_header(stream, j)
    /\ i < j + declared_len(FS!FrameAt(j))
    /\ parse_frame(SubSeq(stream, j + 1, off)) = "OK"

MayPass(i) == (i \in torn /\ i # begin) \/ OwnedAt(i)

\* Of the answers in front of the buffer each was torn or lies in a frame that
\* was skipped.
Passed == \A i \in begin .. HeadAt - 1 : IsAnswer(i) => MayPass(i)

\* A read begins when there is no header yet or its frame is incomplete.
HeadIncomplete ==
  \/ Len(store) < HDR_LEN
  \/ plausible_header(store, 0) /\ parse_frame(store) = "TRUNCATED"

\* An exception frame that comes first is taken before the scan passes it.
FirstIsTold ==
  /\ HeadAt = begin \/ (begin + HDR_LEN <= off /\ ~ ExceptionAt(begin))
  /\ pc = "read" => ~ ExceptionAt(begin)

ScanInv ==
  /\ StoreInv
  /\ pc \in {"idle", "drain", "read"}
  /\ pc # "idle" => Passed /\ FirstIsTold
  /\ pc = "read" => HeadIncomplete

\* The buffer is a piece of the stream.
LEMMA StoreIsPiece ==
  ASSUME StoreInv
  PROVE  /\ HeadAt \in Nat /\ begin <= HeadAt /\ HeadAt + Len(store) = off
         /\ store = SubSeq(stream, HeadAt + 1, off)
<1>1. /\ stream \in Seq(Byte) /\ off \in Nat /\ begin \in Nat /\ off <= Len(stream)
      /\ store \in Seq(Byte) /\ begin + Len(store) <= off /\ Len(store) \in Nat
      /\ \A k \in 1 .. Len(store) : store[k] = stream[HeadAt + k]
  BY DEF StoreInv, HeadAt
<1>2. HeadAt \in Nat /\ begin <= HeadAt /\ HeadAt + Len(store) = off
  BY <1>1 DEF HeadAt
<1> DEFINE h == HeadAt
           piece == SubSeq(stream, h + 1, off)
<1> HIDE DEF h
<1>3. piece \in Seq(Byte) /\ Len(piece) = off - h /\ \A k \in 1 .. off - h : piece[k] = stream[h + k]
  BY <1>1, <1>2, SubSeqProperties DEF h
<1> HIDE DEF piece
<1>4. Len(piece) = Len(store) /\ \A k \in 1 .. Len(piece) : piece[k] = store[k]
  BY <1>1, <1>2, <1>3 DEF h
<1>5. piece = store
  BY <1>1, <1>3, <1>4, SeqEqual
<1>6. QED
  BY <1>2, <1>5 DEF piece, h

\* The frame at the front of the buffer is the stream's at that place.
LEMMA FrameInFront ==
  ASSUME StoreInv, Len(store) >= HDR_LEN
  PROVE  LET w == FS!FrameAt(HeadAt)
         IN  /\ plausible_header(store, 0) <=> plausible_header(stream, HeadAt)
             /\ declared_len(w) = declared_len(store) /\ declared_len(store) \in Nat
             /\ parse_frame(store) # "TRUNCATED" => parse_frame(w) = parse_frame(store)
             /\ parse_frame(store) = "OK" => parsed_frame(w) = parsed_frame(store)
             /\ parse_frame(store) = "TRUNCATED" => Len(store) < declared_len(store)
<1>1. /\ HeadAt \in Nat /\ HeadAt + HDR_LEN <= off /\ off <= Len(stream)
      /\ Len(stream) \in Nat /\ off \in Nat /\ off - HeadAt = Len(store)
      /\ stream \in Seq(Byte)
  BY StoreIsPiece DEF StoreInv, HDR_LEN
<1>2. store = SubSeq(stream, HeadAt + 1, off)
  BY StoreIsPiece
<1>3. QED
  BY <1>1, <1>2, FrameOfPiece DEF FS!FrameAt

\* Where the buffer has no header, no answer of the stream begins.
LEMMA NothingIntact ==
  ASSUME StoreInv, NEW k \in Nat, k + HDR_LEN <= Len(store), ~ plausible_header(store, k)
  PROVE  ~ FS!Intact(HeadAt + k)
<1>1. /\ HeadAt \in Nat /\ off \in Nat /\ HeadAt + k + HDR_LEN <= off
      /\ off <= Len(stream) /\ stream \in Seq(Byte)
  <2>1. HeadAt \in Nat /\ HeadAt + Len(store) = off
    BY StoreIsPiece
  <2>2. off \in Nat /\ off <= Len(stream) /\ stream \in Seq(Byte) /\ store \in Seq(Byte)
    BY DEF StoreInv
  <2>3. QED
    BY <2>1, <2>2 DEF HDR_LEN
<1>2. ~ plausible_header(stream, HeadAt + k)
  <2>1. store = SubSeq(stream, HeadAt + 1, off)
    BY StoreIsPiece
  <2>2. QED
    BY <1>1, <2>1, HeaderOfPiece
<1>3. QED
  BY <1>2, SameCodec DEF FS!Intact

\* The front moves on over bytes that may be passed.
LEMMA Advance ==
  ASSUME StoreInv, Passed, NEW n \in Nat,
         stream' = stream, begin' = begin, want' = want, off' = off,
         torn \subseteq torn', HeadAt' = HeadAt + n,
         \A i \in HeadAt .. HeadAt + n - 1 :
           IsAnswer(i) => (i \in torn' /\ i # begin) \/ OwnedAt(i)
  PROVE  Passed'
<1>1. HeadAt \in Nat /\ begin \in Nat
  BY StoreIsPiece DEF StoreInv
<1>2. \A i : /\ IsAnswer(i)' <=> IsAnswer(i)
             /\ OwnedAt(i)' <=> OwnedAt(i)
  BY DEF IsAnswer, OwnedAt, FS!Intact, FS!FrameAt
<1> DEFINE h == HeadAt
<1>3. \A i \in begin .. h + n - 1 : i \in begin .. h - 1 \/ i \in h .. h + n - 1
  <2> HIDE DEF h
  <2>1. QED
    BY <1>1 DEF h
<1>4. \A i \in begin .. HeadAt + n - 1 :
        IsAnswer(i) => (i \in torn' /\ i # begin) \/ OwnedAt(i)
  BY <1>3 DEF Passed, MayPass
<1>5. \A i \in begin .. HeadAt + n - 1 : IsAnswer(i)' => MayPass(i)'
  BY <1>2, <1>4 DEF MayPass
<1>6. begin' = begin /\ HeadAt' = HeadAt + n
  OBVIOUS
<1>7. begin' .. HeadAt' - 1 = begin .. HeadAt + n - 1
  BY <1>1, <1>6
<1>8. QED
  BY <1>5, <1>7, Zenon DEF Passed

\* Nor does what was passed change when more bytes are read.
LEMMA PassedGrows ==
  ASSUME StoreInv, Passed,
         stream' = stream, begin' = begin, want' = want, torn' = torn, HeadAt' = HeadAt,
         off' \in Nat, off <= off', off' <= Len(stream)
  PROVE  Passed'
<1>1. /\ HeadAt \in Nat /\ begin \in Nat /\ off \in Nat /\ HeadAt <= off
      /\ stream \in Seq(Byte)
  BY StoreIsPiece DEF StoreInv
<1>2. \A i : IsAnswer(i)' <=> IsAnswer(i)
  BY DEF IsAnswer, FS!Intact, FS!FrameAt
<1>3. ASSUME NEW i \in begin .. HeadAt - 1, OwnedAt(i) PROVE OwnedAt(i)'
  <2>1. PICK j \in begin .. i - 1 :
          /\ plausible_header(stream, j)
          /\ i < j + declared_len(FS!FrameAt(j))
          /\ parse_frame(SubSeq(stream, j + 1, off)) = "OK"
    BY <1>3 DEF OwnedAt
  <2>2. j \in Nat /\ j < off
    BY <1>1
  <2>3. Len(SubSeq(stream, j + 1, off)) = off - j
    BY <1>1, <2>2
  <2>4. j + HDR_LEN <= off
    BY <1>1, <2>1, <2>2, <2>3 DEF parse_frame, HDR_LEN
  <2>5. parse_frame(SubSeq(stream, j + 1, off')) = "OK"
    BY <1>1, <2>1, <2>2, <2>4, FrameOfPiece
  <2>6. QED
    BY <2>1, <2>5 DEF OwnedAt, FS!FrameAt
<1>4. QED
  BY <1>2, <1>3 DEF Passed, MayPass

\* The drain looks at a header: the buffer holds one and it is no exception.
LEMMA FirstScanned ==
  ASSUME StoreInv, FirstIsTold, Scanning
  PROVE  begin + HDR_LEN <= off /\ ~ ExceptionAt(begin)
<1>1. /\ HeadAt \in Nat /\ begin \in Nat /\ off \in Nat /\ begin <= HeadAt
      /\ HeadAt + Len(store) = off /\ Len(store) >= HDR_LEN /\ Len(store) \in Nat
  BY StoreIsPiece DEF StoreInv, Scanning, InDrain
<1>2. CASE HeadAt = begin
  <2>1. begin + HDR_LEN <= off
    BY <1>1, <1>2 DEF HDR_LEN
  <2>2. ~ ExceptionAt(begin)
    <3>1. \A k \in 1 .. Len(store) : store[k] = stream[begin + k]
      BY <1>2 DEF StoreInv, HeadAt
    <3>2. 1 \in 1 .. Len(store) /\ 2 \in 1 .. Len(store) /\ 3 \in 1 .. Len(store)
          /\ 4 \in 1 .. Len(store)
      BY <1>1 DEF HDR_LEN
    <3>3. /\ store[1] = stream[begin + 1] /\ store[2] = stream[begin + 2]
          /\ store[3] = stream[begin + 3] /\ store[4] = stream[begin + 4]
      BY <3>1, <3>2
    <3>4. ExceptionAt(begin) => is_exception(store)
      <4> SUFFICES ASSUME ExceptionAt(begin) PROVE is_exception(store)
        OBVIOUS
      <4>1. SubSeq(stream, begin + 1, begin + 3) = <<HDR0, HDR1, DIR_RESPONSE>>
            /\ stream[begin + 4] >= 128
        BY DEF ExceptionAt
      <4>2. /\ SubSeq(stream, begin + 1, begin + 3)[1] = stream[begin + 1]
            /\ SubSeq(stream, begin + 1, begin + 3)[2] = stream[begin + 2]
            /\ SubSeq(stream, begin + 1, begin + 3)[3] = stream[begin + 3]
        <5>1. stream \in Seq(Byte) /\ begin + 3 <= Len(stream)
          BY <1>1, <2>1 DEF StoreInv, HDR_LEN
        <5>2. QED
          BY <1>1, <5>1
      <4>3. /\ stream[begin + 1] = HDR0 /\ stream[begin + 2] = HDR1
            /\ stream[begin + 3] = DIR_RESPONSE
        <5> DEFINE t == SubSeq(stream, begin + 1, begin + 3)
        <5> HIDE DEF t
        <5>1. t = <<HDR0, HDR1, DIR_RESPONSE>>
          BY <4>1 DEF t
        <5>2. t[1] = HDR0 /\ t[2] = HDR1 /\ t[3] = DIR_RESPONSE
          BY <5>1
        <5>3. QED
          BY <4>2, <5>2 DEF t
      <4>4. QED
        BY <3>3, <4>1, <4>3 DEF is_exception
    <3>5. QED
      BY <3>4 DEF Scanning
  <2>3. QED
    BY <2>1, <2>2
<1>3. CASE HeadAt # begin
  BY <1>3 DEF FirstIsTold
<1>4. QED
  BY <1>2, <1>3

\* The scan starts with nothing passed.
LEMMA ScanInit == Init => ScanInv
  BY StoreInit DEF Init, ScanInv

\* Every step of a call passes only what may be passed.
LEMMA ScanStep == ScanInv /\ [Next]_vars => ScanInv'
<1> SUFFICES ASSUME ScanInv, [Next]_vars PROVE ScanInv'
  OBVIOUS
<1>0. StoreInv /\ StoreInv' /\ pc \in {"idle", "drain", "read"}
  BY StoreStep DEF ScanInv
<1>1. /\ HeadAt \in Nat /\ begin \in Nat /\ off \in Nat /\ begin <= HeadAt
      /\ HeadAt + Len(store) = off /\ Len(store) \in Nat /\ store \in Seq(Byte)
      /\ stream \in Seq(Byte) /\ off <= Len(stream)
  BY <1>0, StoreIsPiece DEF StoreInv
<1>p. pc # "idle" => Passed /\ FirstIsTold
  BY DEF ScanInv
\* A call ends.
<1>r. ASSUME pc' = "idle" PROVE ScanInv'
  BY <1>0, <1>r DEF ScanInv
\* A call begins or is refused.
<1>c. ASSUME Ready, NEW call, NEW frame, NEW expected, NEW r,
             Transact(call, frame, expected) \/ Refuse(call, r)
      PROVE  ScanInv'
  <2>1. CASE pc' = "idle"
    BY <1>r, <2>1
  <2>2. CASE pc' # "idle"
    <3>1. /\ pc' = "drain" /\ store' = <<>> /\ off' = off /\ begin' = off
      BY <1>c, <2>2 DEF Ready, Transact, Refuse
    <3>2. HeadAt' = off /\ begin' = off
      BY <1>1, <3>1 DEF HeadAt
    <3>3. \A i \in begin' .. HeadAt' - 1 : FALSE
      BY <1>1, <3>2
    <3>4. Passed'
      BY <3>3 DEF Passed
    <3>5. FirstIsTold'
      BY <3>1, <3>2 DEF FirstIsTold
    <3>6. QED
      BY <1>0, <3>1, <3>4, <3>5 DEF ScanInv
  <2>3. QED
    BY <2>1, <2>2
\* The drain goes on behind the first n bytes.
<1>d. ASSUME NEW n \in Nat, n <= Len(store), Scanning, Discard(n),
             \A i \in HeadAt .. HeadAt + n - 1 : IsAnswer(i) => OwnedAt(i)
      PROVE  ScanInv'
  <2>1. /\ store' = SubSeq(store, n + 1, Len(store)) /\ pc' = "drain" /\ pc = "drain"
        /\ stream' = stream /\ off' = off /\ begin' = begin /\ want' = want /\ torn' = torn
    BY <1>d DEF Discard, history, Scanning, InDrain
  <2>2. Len(store') = Len(store) - n
    BY <1>1, <1>d, <2>1
  <2>3. HeadAt' = HeadAt + n
    <3>1. off' = off
      BY <2>1
    <3>2. QED
      BY <1>1, <1>d, <2>2, <3>1 DEF HeadAt
  <2>4. Passed'
    BY <1>0, <1>p, <1>d, <2>1, <2>3, Advance
  <2>5. FirstIsTold'
    BY <1>0, <1>p, <1>d, <2>1, FirstScanned DEF FirstIsTold, ExceptionAt
  <2>6. QED
    BY <1>0, <2>1, <2>4, <2>5 DEF ScanInv
<1>2. CASE SetSetpoint
  BY <1>2, <1>c DEF SetSetpoint, write_byte
<1>3. CASE SetWorkingMode
  BY <1>3, <1>c DEF SetWorkingMode, write_byte
<1>4. CASE WriteRegister
  BY <1>4, <1>c DEF WriteRegister, write_byte
<1>5. CASE ReadSetpoint
  BY <1>5, <1>c DEF ReadSetpoint
<1>6. CASE TakeNack
  BY <1>6, <1>r DEF TakeNack, Return
<1>7. CASE DropJunk
  <2>1. /\ Scanning /\ Start = Len(store) /\ pc = "drain" /\ pc' = "read"
        /\ torn' = torn \cup (off - (HDR_LEN - 1) .. off - 2)
        /\ stream' = stream /\ off' = off /\ begin' = begin /\ want' = want
        /\ store' = IF store[Len(store)] = HDR0 THEN <<store[Len(store)]>> ELSE <<>>
        /\ Len(store) >= HDR_LEN
    BY <1>7 DEF DropJunk, Scanning, InDrain
  <2>2. \A k \in 0 .. Len(store) - 1 : ~ plausible_header(store, k)
    BY <1>1, <2>1, FindFrameStart DEF Start
  <2>3. Len(store') \in {0, 1} /\ (Len(store') = 0 => store[Len(store)] # HDR0)
    BY <2>1
  <2> DEFINE n == Len(store) - Len(store')
  <2>4. n \in Nat /\ HeadAt' = HeadAt + n
    BY <1>1, <2>1, <2>3 DEF HeadAt, HDR_LEN
  <2>5. ASSUME NEW i \in HeadAt .. HeadAt + n - 1, IsAnswer(i)
        PROVE  i \in torn' /\ i # begin
    <3> DEFINE k == i - HeadAt
    <3>1. k \in Nat /\ HeadAt + k = i /\ k < Len(store) /\ k <= n - 1
      BY <1>1, <2>1, <2>3, <2>4 DEF HDR_LEN
    <3> HIDE DEF k
    <3>2. FS!Intact(i)
      BY <2>5 DEF IsAnswer
    <3>3. ~ (k + HDR_LEN <= Len(store))
      <4>1. ~ plausible_header(store, k)
        BY <1>1, <2>2, <3>1
      <4>2. QED
        BY <1>0, <3>1, <3>2, <4>1, NothingIntact
    <3>4. i # off - 1
      <4> SUFFICES ASSUME i = off - 1 PROVE FALSE
        OBVIOUS
      <4>1. Len(store') = 0
        BY <1>1, <2>3, <3>1
      <4>2. store[Len(store)] = stream[(off - Len(store)) + Len(store)]
        BY <1>0, <1>1, <2>1 DEF StoreInv, HDR_LEN
      <4>3. (off - Len(store)) + Len(store) = i + 1
        BY <1>1
      <4>4. stream[i + 1] # HDR0
        BY <2>3, <4>1, <4>2, <4>3
      <4>5. plausible_header(stream, i)
        BY <3>2, SameCodec DEF FS!Intact
      <4>6. QED
        BY <4>4, <4>5 DEF plausible_header, has_magic
    <3>5. i \in off - (HDR_LEN - 1) .. off - 2
      BY <1>1, <3>1, <3>3, <3>4 DEF HDR_LEN
    <3>6. begin <= off - HDR_LEN
      BY <1>1, <2>1 DEF HDR_LEN
    <3>7. QED
      BY <1>1, <2>1, <3>5, <3>6 DEF HDR_LEN
  <2> HIDE DEF n
  <2>6. Passed'
    BY <1>0, <1>p, <2>1, <2>4, <2>5, Advance
  <2>7. FirstIsTold'
    BY <1>0, <1>p, <2>1, FirstScanned DEF FirstIsTold, ExceptionAt
  <2>8. HeadIncomplete'
    <3>1. Len(store') < HDR_LEN
      BY <2>3 DEF HDR_LEN
    <3>2. QED
      BY <3>1 DEF HeadIncomplete
  <2>9. QED
    BY <1>0, <2>1, <2>6, <2>7, <2>8 DEF ScanInv
<1>8. CASE Resync
  <2>1. Scanning /\ Start \in 1 .. Len(store) - 1 /\ Discard(Start)
    BY <1>8 DEF Resync
  <2>2. /\ Start \in Nat /\ Start <= Len(store)
        /\ \A k \in 0 .. Start - 1 : ~ plausible_header(store, k)
        /\ Start + HDR_LEN <= Len(store)
    BY <1>1, <2>1, FindFrameStart DEF Start, plausible_header, has_magic
  <2>3. ASSUME NEW i \in HeadAt .. HeadAt + Start - 1 PROVE ~ IsAnswer(i)
    <3> DEFINE k == i - HeadAt
    <3>1. k \in Nat /\ HeadAt + k = i /\ k \in 0 .. Start - 1 /\ k + HDR_LEN <= Len(store)
      BY <1>1, <2>2 DEF HDR_LEN
    <3> HIDE DEF k
    <3>2. ~ FS!Intact(HeadAt + k)
      BY <1>0, <2>2, <3>1, NothingIntact
    <3>3. QED
      BY <3>1, <3>2 DEF IsAnswer
  <2>4. QED
    BY <1>d, <2>1, <2>2, <2>3
<1>9. CASE AwaitMore
  <2>1. /\ pc = "drain" /\ pc' = "read" /\ HeadIncomplete
        /\ stream' = stream /\ off' = off /\ begin' = begin /\ want' = want /\ torn' = torn
        /\ store' = store
    BY <1>0, <1>9, ScanVerdict
    DEF AwaitMore, history, HeadIncomplete, AtFrame, Scanning, InDrain
  <2>2. HeadAt' = HeadAt + 0
    BY <1>1, <2>1 DEF HeadAt
  <2>3. Passed'
    <3>1. \A i \in HeadAt .. HeadAt + 0 - 1 : FALSE
      BY <1>1
    <3>2. 0 \in Nat /\ torn \subseteq torn'
      BY <2>1
    <3>3. QED
      BY <1>0, <1>p, <2>1, <2>2, <3>1, <3>2, Advance
  <2>4. FirstIsTold'
    <3>1. ~ ExceptionAt(begin)
      <4>1. CASE Len(store) < HDR_LEN
        BY <1>1, <1>p, <2>1, <4>1 DEF FirstIsTold, ExceptionAt, HDR_LEN
      <4>2. CASE AtFrame("TRUNCATED")
        BY <1>0, <1>p, <2>1, <4>2, FirstScanned DEF AtFrame
      <4>3. QED
        BY <1>9, <4>1, <4>2 DEF AwaitMore
    <3>2. QED
      BY <1>1, <1>p, <2>1, <2>2, <3>1 DEF FirstIsTold, ExceptionAt
  <2>5. QED
    BY <1>0, <2>1, <2>3, <2>4 DEF ScanInv, HeadIncomplete
<1>10. CASE TakeAnswer
  BY <1>10, <1>r DEF TakeAnswer, Return
<1>11. CASE SkipFrame
  <2> DEFINE n == declared_len(store)
  <2>1. /\ Scanning /\ Start = 0 /\ parse_frame(store) = "OK"
        /\ Discard(n) /\ ~ matches(parsed_frame(store), want) /\ Len(store) >= HDR_LEN
    BY <1>11 DEF SkipFrame, AtFrame, Scanning, InDrain, frame_only, parsed_frame
  <2>2. n \in Nat /\ n <= Len(store) /\ n >= 1 /\ plausible_header(store, 0)
    BY <1>0, <1>1, <2>1, ScanVerdict DEF MIN_FRAME_LEN, HDR_LEN, CHK_LEN
  <2>3. /\ plausible_header(stream, HeadAt)
        /\ declared_len(FS!FrameAt(HeadAt)) = n
        /\ parsed_frame(FS!FrameAt(HeadAt)) = parsed_frame(store)
    BY <1>0, <2>1, <2>2, FrameInFront
  <2>4. ~ IsAnswer(HeadAt)
    BY <2>1, <2>3 DEF IsAnswer, matches
  <2> HIDE DEF n
  <2>5. ASSUME NEW i \in HeadAt + 1 .. HeadAt + n - 1 PROVE OwnedAt(i)
    <3>1. HeadAt \in begin .. i - 1 /\ i < HeadAt + n
      BY <1>1, <2>2
    <3>2. parse_frame(SubSeq(stream, HeadAt + 1, off)) = "OK"
      BY <1>0, <2>1, StoreIsPiece
    <3>3. QED
      BY <2>3, <3>1, <3>2 DEF OwnedAt
  <2>6. \A i \in HeadAt .. HeadAt + n - 1 : i = HeadAt \/ i \in HeadAt + 1 .. HeadAt + n - 1
    BY <1>1, <2>2
  <2>7. QED
    BY <1>d, <2>1, <2>2, <2>4, <2>5, <2>6
<1>12. CASE DropByte
  <2>1. /\ Scanning /\ Start = 0 /\ parse_frame(store) \notin {"OK", "TRUNCATED"}
        /\ Discard(1) /\ Len(store) >= HDR_LEN
    BY <1>12 DEF DropByte, Scanning, InDrain
  <2>2. parse_frame(FS!FrameAt(HeadAt)) # "OK"
    BY <1>0, <2>1, FrameInFront
  <2>3. ~ IsAnswer(HeadAt)
    BY <2>2, SameCodec DEF IsAnswer, FS!Intact
  <2>4. \A i \in HeadAt .. HeadAt + 1 - 1 : i = HeadAt
    BY <1>1
  <2>5. 1 \in Nat /\ 1 <= Len(store)
    BY <1>1, <2>1 DEF HDR_LEN
  <2>6. QED
    BY <1>d, <2>1, <2>3, <2>4, <2>5
<1>13. CASE StopReading
  BY <1>13, <1>r DEF StopReading, Return
<1>14. CASE Receive
  <2>1. PICK n \in ReadSizes :
          /\ off + n <= Len(stream) /\ off' = off + n
          /\ store' = store \o SubSeq(stream, off + 1, off + n)
    BY <1>14 DEF Receive
  <2>2. n \in Nat
    BY LinkAssumption
  <2>3. /\ pc = "read" /\ pc' = "drain" /\ stream' = stream /\ begin' = begin
        /\ want' = want /\ torn' = torn
    BY <1>14 DEF Receive, CanRead, history
  <2>4. Len(store') = Len(store) + n
    <3>1. SubSeq(stream, off + 1, off + n) \in Seq(Byte)
          /\ Len(SubSeq(stream, off + 1, off + n)) = n
      BY <1>1, <2>1, <2>2, SubSeqProperties
    <3>2. QED
      BY <1>1, <2>1, <3>1, ConcatProperties
  <2>5. HeadAt' = HeadAt /\ off' \in Nat /\ off <= off' /\ off' <= Len(stream)
    BY <1>1, <2>1, <2>2, <2>4 DEF HeadAt
  <2>6. Passed'
    BY <1>0, <1>p, <2>3, <2>5, PassedGrows
  <2>7. FirstIsTold'
    <3>1. HeadAt = begin \/ (begin + HDR_LEN <= off /\ ~ ExceptionAt(begin))
      BY <1>p, <2>3 DEF FirstIsTold
    <3>2. begin + HDR_LEN <= off /\ ~ ExceptionAt(begin)
            => begin + HDR_LEN <= off' /\ ~ ExceptionAt(begin)'
      BY <1>1, <2>3, <2>5 DEF ExceptionAt, HDR_LEN
    <3>3. QED
      BY <2>3, <2>5, <3>1, <3>2 DEF FirstIsTold
  <2>8. QED
    BY <1>0, <2>3, <2>6, <2>7 DEF ScanInv
<1>15. CASE ReadFails
  BY <1>15, <1>r DEF ReadFails, Return
<1>16. CASE UNCHANGED vars
  <2>1. /\ stream' = stream /\ off' = off /\ begin' = begin /\ want' = want /\ torn' = torn
        /\ store' = store /\ pc' = pc
    BY <1>16 DEF vars, history
  <2>2. /\ Passed' <=> Passed
        /\ FirstIsTold' <=> FirstIsTold
        /\ HeadIncomplete' <=> HeadIncomplete
    BY <2>1 DEF Passed, IsAnswer, MayPass, OwnedAt, FirstIsTold, HeadIncomplete, HeadAt,
                ExceptionAt, FS!Intact, FS!FrameAt
  <2>3. QED
    BY <1>0, <2>1, <2>2 DEF ScanInv
<1>17. QED
  BY <1>2, <1>3, <1>4, <1>5, <1>6, <1>7, <1>8, <1>9, <1>10, <1>11, <1>12, <1>13,
     <1>14, <1>15, <1>16
  DEF Next, Call, Step
-----------------------------------------------------------------------------
(* What a call returns *)

\* The frame taken as the answer is an answer of the stream.
LEMMA AnswerTaken ==
  ASSUME StoreInv, AtFrame("OK"), matches(parsed_frame(store), want)
  PROVE  /\ HeadAt \in begin .. off - 1
         /\ AnswerAt(HeadAt)
         /\ parsed_frame(FS!FrameAt(HeadAt)) = parsed_frame(store)
<1>1. Scanning /\ Start = 0 /\ parse_frame(store) = "OK" /\ Len(store) >= HDR_LEN
  BY DEF AtFrame, Scanning, InDrain
<1>2. /\ HeadAt \in Nat /\ begin \in Nat /\ off \in Nat /\ begin <= HeadAt
      /\ HeadAt + Len(store) = off /\ Len(store) \in Nat
  BY StoreIsPiece DEF StoreInv
<1>3. plausible_header(store, 0) /\ declared_len(store) \in MIN_FRAME_LEN .. Len(store)
  BY <1>1, ScanVerdict
<1>4. /\ plausible_header(stream, HeadAt)
      /\ declared_len(FS!FrameAt(HeadAt)) = declared_len(store)
      /\ parse_frame(FS!FrameAt(HeadAt)) = "OK"
      /\ parsed_frame(FS!FrameAt(HeadAt)) = parsed_frame(store)
  BY <1>1, <1>3, FrameInFront
<1>5. FS!Intact(HeadAt)
  BY <1>4, SameCodec DEF FS!Intact
<1>6. HeadAt \in begin .. off - 1
  BY <1>1, <1>2 DEF HDR_LEN
<1>7. HeadAt + declared_len(store) <= off
  BY <1>2, <1>3 DEF MIN_FRAME_LEN, HDR_LEN, CHK_LEN
<1>8. QED
  BY <1>4, <1>5, <1>6, <1>7 DEF AnswerAt, matches

\* An exception frame in front of the buffer is one of the stream.
LEMMA ExceptionTaken ==
  ASSUME StoreInv, InDrain, is_exception(store)
  PROVE  HeadAt \in begin .. off - 1 /\ ExceptionAt(HeadAt)
<1>1. /\ HeadAt \in Nat /\ begin \in Nat /\ off \in Nat /\ begin <= HeadAt
      /\ HeadAt + Len(store) = off /\ Len(store) \in Nat /\ Len(store) >= HDR_LEN
      /\ stream \in Seq(Byte) /\ off <= Len(stream)
  BY StoreIsPiece DEF StoreInv, InDrain
<1>2. \A k \in 1 .. Len(store) : store[k] = stream[HeadAt + k]
  BY DEF StoreInv, HeadAt
<1>3. 1 \in 1 .. Len(store) /\ 2 \in 1 .. Len(store) /\ 3 \in 1 .. Len(store)
      /\ 4 \in 1 .. Len(store)
  BY <1>1 DEF HDR_LEN
<1>4. /\ stream[HeadAt + 1] = HDR0 /\ stream[HeadAt + 2] = HDR1
      /\ stream[HeadAt + 3] = DIR_RESPONSE /\ stream[HeadAt + 4] >= 128
  BY <1>2, <1>3 DEF is_exception
<1>5. SubSeq(stream, HeadAt + 1, HeadAt + 3) = <<HDR0, HDR1, DIR_RESPONSE>>
  <2>1. HeadAt + 3 <= Len(stream)
    BY <1>1 DEF HDR_LEN
  <2> DEFINE h == HeadAt
  <2> HIDE DEF h
  <2>2. SubSeq(stream, h + 1, h + 3) = <<stream[h + 1], stream[h + 2], stream[h + 3]>>
    <3> DEFINE t == SubSeq(stream, h + 1, h + 3)
               u == <<stream[h + 1], stream[h + 2], stream[h + 3]>>
    <3>1. h \in Nat /\ h + 3 <= Len(stream)
      BY <1>1, <2>1 DEF h
    <3>2. t \in Seq(Byte) /\ Len(t) = 3 /\ \A k \in 1 .. 3 : t[k] = stream[h + k]
      BY <1>1, <3>1
    <3>3. stream[h + 1] \in Byte /\ stream[h + 2] \in Byte /\ stream[h + 3] \in Byte
      BY <1>1, <3>1, ElementOfSeq
    <3>4. /\ u \in Seq(Byte) /\ Len(u) = 3
          /\ u[1] = stream[h + 1] /\ u[2] = stream[h + 2] /\ u[3] = stream[h + 3]
      BY <3>3
    <3> HIDE DEF t, u
    <3>5. t[1] = u[1] /\ t[2] = u[2] /\ t[3] = u[3]
      BY <3>2, <3>4
    <3>6. Len(t) = Len(u) /\ \A k \in 1 .. Len(t) : t[k] = u[k]
      <4>1. \A k \in 1 .. 3 : k = 1 \/ k = 2 \/ k = 3
        OBVIOUS
      <4>2. QED
        BY <3>2, <3>4, <3>5, <4>1
    <3>7. t = u
      BY <3>2, <3>4, <3>6, SeqEqual
    <3>8. QED
      BY <3>7 DEF t, u
  <2>3. QED
    BY <1>4, <2>2 DEF h
<1>6. QED
  BY <1>1, <1>4, <1>5 DEF ExceptionAt, HDR_LEN

\* What a call returned holds of the stream up to where it stopped.
AnswersInv == OkIsAnAnswer /\ MissedOnlyIfTorn /\ NackIsAnException

\* A step that ends a call with one of the results below, or none that does.
LEMMA AnswersStep == ScanInv /\ AnswersInv /\ [Next]_vars => AnswersInv'
<1> SUFFICES ASSUME ScanInv, AnswersInv, [Next]_vars PROVE AnswersInv'
  OBVIOUS
<1>0. StoreInv /\ (pc # "idle" => Passed /\ FirstIsTold) /\ (pc = "read" => HeadIncomplete)
  BY DEF ScanInv
<1>1. /\ HeadAt \in Nat /\ begin \in Nat /\ off \in Nat /\ begin <= HeadAt
      /\ HeadAt + Len(store) = off /\ Len(store) \in Nat
      /\ stream \in Seq(Byte) /\ off <= Len(stream)
  BY <1>0, StoreIsPiece DEF StoreInv
\* No call is over after the step.
<1>n. ASSUME ~ Answered' PROVE AnswersInv'
  BY <1>n DEF AnswersInv, OkIsAnAnswer, MissedOnlyIfTorn, NackIsAnException
\* A call ends where the stream was read to.
<1>r. ASSUME NEW r, Return(r), pc # "idle"
      PROVE  /\ result' = r /\ stream' = stream /\ off' = off /\ begin' = begin
             /\ want' = want /\ torn' = torn /\ asked' = asked
             /\ \A i : /\ AnswerAt(i)' <=> AnswerAt(i)
                       /\ ClaimedAt(i)' <=> ClaimedAt(i)
                       /\ ExceptionAt(i)' <=> ExceptionAt(i)
                       /\ FS!FrameAt(i)' = FS!FrameAt(i)
  BY <1>r DEF Return, history, AnswerAt, ClaimedAt, ExceptionAt, FS!Intact, FS!FrameAt
<1>c. ASSUME Ready, NEW call, NEW frame, NEW expected, NEW r,
             Transact(call, frame, expected) \/ Refuse(call, r)
      PROVE  AnswersInv'
  <2>1. ~ Answered'
    BY <1>c DEF Ready, Transact, Refuse, Answered
  <2>2. QED
    BY <1>n, <2>1
<1>d. ASSUME pc' # "idle" PROVE AnswersInv'
  BY <1>n, <1>d DEF Answered
\* The transport has nothing more to give.
<1>s. ASSUME pc = "read", NEW r \in {"NoResponse", "BadResponse"}, Return(r)
      PROVE  AnswersInv'
  <2>1. OkIsAnAnswer'
    BY <1>r, <1>s DEF OkIsAnAnswer
  <2>2. NackIsAnException'
    BY <1>0, <1>r, <1>s DEF NackIsAnException, FirstIsTold
  <2>3. ASSUME NEW i \in begin .. off - 1, AnswerAt(i), ~ ClaimedAt(i)
        PROVE  i \in torn /\ i # begin
    <3>1. IsAnswer(i) /\ i + declared_len(FS!FrameAt(i)) <= off
      BY <2>3 DEF AnswerAt, IsAnswer
    <3>2. ~ OwnedAt(i)
      BY <2>3 DEF ClaimedAt, OwnedAt
    <3>3. CASE i \in begin .. HeadAt - 1
      BY <1>0, <1>s, <3>1, <3>2, <3>3 DEF Passed, MayPass
    <3>4. CASE i \in HeadAt .. off - 1
      <4>1. i + MIN_FRAME_LEN <= off
        <5>1. plausible_header(stream, i) /\ parse_frame(FS!FrameAt(i)) = "OK"
          BY <3>1, SameCodec DEF IsAnswer, FS!Intact
        <5>2. i \in Nat /\ i + HDR_LEN <= Len(stream)
          BY <1>1, <5>1 DEF plausible_header, has_magic
        <5>3. FS!FrameAt(i) \in Seq(Byte) /\ Len(FS!FrameAt(i)) >= HDR_LEN
          BY <1>1, <5>2, SubSeqProperties DEF FS!FrameAt, HDR_LEN
        <5>4. plausible_header(FS!FrameAt(i), 0)
          <6>1. i + 0 + HDR_LEN <= Len(stream) /\ i + 0 = i /\ Len(stream) \in Nat
            BY <1>1, <5>2 DEF HDR_LEN
          <6>2. plausible_header(SubSeq(stream, i + 1, Len(stream)), 0)
                  <=> plausible_header(stream, i + 0)
            BY <1>1, <5>2, <6>1, HeaderOfPiece
          <6>3. QED
            BY <5>1, <6>1, <6>2 DEF FS!FrameAt
        <5>5. declared_len(FS!FrameAt(i)) \in MIN_FRAME_LEN .. Len(FS!FrameAt(i))
          BY <5>1, <5>3, <5>4, ParseAtHeader
        <5>6. QED
          BY <1>1, <3>1, <5>2, <5>5 DEF MIN_FRAME_LEN, HDR_LEN, CHK_LEN
      <4>2. CASE Len(store) < HDR_LEN
        BY <1>1, <3>4, <4>1, <4>2 DEF MIN_FRAME_LEN, HDR_LEN, CHK_LEN
      <4>3. CASE Len(store) >= HDR_LEN
        <5>1. plausible_header(store, 0) /\ parse_frame(store) = "TRUNCATED"
          BY <1>0, <1>1, <1>s, <4>3 DEF HeadIncomplete, HDR_LEN
        <5>2. /\ plausible_header(stream, HeadAt)
              /\ declared_len(FS!FrameAt(HeadAt)) = declared_len(store)
              /\ declared_len(store) \in Nat /\ Len(store) < declared_len(store)
          BY <1>0, <4>3, <5>1, FrameInFront
        <5>3. i # HeadAt
          BY <1>1, <3>1, <5>2
        <5>4. HeadAt \in begin .. i - 1 /\ i < HeadAt + declared_len(FS!FrameAt(HeadAt))
          BY <1>1, <3>4, <5>2, <5>3
        <5>5. parse_frame(SubSeq(stream, HeadAt + 1, off)) = "TRUNCATED"
          BY <1>0, <5>1, StoreIsPiece
        <5>6. ClaimedAt(i)
          BY <5>2, <5>4, <5>5 DEF ClaimedAt
        <5>7. QED
          BY <2>3, <5>6
      <4>4. QED
        BY <1>1, <4>2, <4>3 DEF HDR_LEN
    <3>5. QED
      BY <1>1, <3>3, <3>4
  <2>4. MissedOnlyIfTorn'
    BY <1>r, <1>s, <2>3 DEF MissedOnlyIfTorn
  <2>5. QED
    BY <2>1, <2>2, <2>4 DEF AnswersInv
<1>2. CASE Call
  BY <1>2, <1>c DEF Call, SetSetpoint, SetWorkingMode, WriteRegister, ReadSetpoint, write_byte
<1>3. CASE TakeNack
  <2>1. Return("Nack") /\ InDrain /\ is_exception(store) /\ pc # "idle"
    BY <1>3 DEF TakeNack, InDrain
  <2>2. HeadAt \in begin .. off - 1 /\ ExceptionAt(HeadAt)
    BY <1>0, <2>1, ExceptionTaken
  <2>3. QED
    BY <1>r, <2>1, <2>2 DEF AnswersInv, OkIsAnAnswer, MissedOnlyIfTorn, NackIsAnException
<1>4. CASE TakeAnswer
  <2> DEFINE f == parsed_frame(store)
  <2>1. AtFrame("OK") /\ matches(f, want) /\ pc # "idle" /\ Scanning
    BY <1>4 DEF TakeAnswer, AtFrame, Scanning, InDrain
  <2>2. PICK r \in {"Ok", "BadResponse"} : Return(r)
    BY <1>4 DEF TakeAnswer
  <2>3. r = "Ok" /\ asked.op = "read_setpoint" => out' = int8_of(f.payload[asked.addr + 1])
    BY <1>4, <2>2 DEF TakeAnswer, Return
  <2>4. /\ HeadAt \in begin .. off - 1 /\ AnswerAt(HeadAt)
        /\ parsed_frame(FS!FrameAt(HeadAt)) = f
    BY <1>0, <2>1, AnswerTaken
  <2> HIDE DEF f
  <2>5. OkIsAnAnswer'
    BY <1>r, <2>1, <2>2, <2>3, <2>4 DEF OkIsAnAnswer
  <2>6. MissedOnlyIfTorn'
    BY <1>r, <2>1, <2>2 DEF MissedOnlyIfTorn
  <2>7. ~ ExceptionAt(begin)
    BY <1>0, <2>1, FirstScanned
  <2>8. NackIsAnException'
    BY <1>r, <2>1, <2>2, <2>7 DEF NackIsAnException
  <2>9. QED
    BY <2>5, <2>6, <2>8 DEF AnswersInv
<1>5. CASE StopReading
  BY <1>5, <1>s DEF StopReading
<1>6. CASE ReadFails
  BY <1>6, <1>s DEF ReadFails, CanRead
<1>7. CASE DropJunk
  BY <1>7, <1>d DEF DropJunk
<1>8. CASE Resync
  BY <1>8, <1>d DEF Resync, Discard, Scanning, InDrain
<1>9. CASE AwaitMore
  BY <1>9, <1>d DEF AwaitMore
<1>10. CASE SkipFrame
  BY <1>10, <1>d DEF SkipFrame, Discard, AtFrame, Scanning, InDrain
<1>11. CASE DropByte
  BY <1>11, <1>d DEF DropByte, Discard, Scanning, InDrain
<1>12. CASE Receive
  BY <1>12, <1>d DEF Receive
<1>13. CASE UNCHANGED vars
  BY <1>13
  DEF vars, history, AnswersInv, OkIsAnAnswer, MissedOnlyIfTorn, NackIsAnException, Answered,
      AnswerAt, ClaimedAt, ExceptionAt, FS!Intact, FS!FrameAt
<1>14. QED
  BY <1>2, <1>3, <1>4, <1>5, <1>6, <1>7, <1>8, <1>9, <1>10, <1>11, <1>12, <1>13
  DEF Next, Step

\* Nothing was called yet.
LEMMA AnswersInit == Init => AnswersInv
BY DEF Init, AnswersInv, OkIsAnAnswer, MissedOnlyIfTorn, NackIsAnException, Answered

\* Ok tells of an answer on the bus: whatever echoes, junk and answers of other
\* calls the bus carries, the frame that ends the call is intact and has the
\* direction, function, address and count the request calls for
\* (read_matching_frame, macon_link.cpp).
THEOREM OkTellsAnAnswer == Spec => []OkIsAnAnswer
<1>1. AnswersInv => OkIsAnAnswer
  BY DEF AnswersInv
<1>2. QED
  BY <1>1, ScanInit, ScanStep, AnswersInit, AnswersStep, PTL DEF Spec

\* NoResponse tells that no answer came, but for one whose header a read tore
\* behind junk or that stands in bytes another header claims.
THEOREM OnlyTornIsMissed == Spec => []MissedOnlyIfTorn
<1>1. AnswersInv => MissedOnlyIfTorn
  BY DEF AnswersInv
<1>2. QED
  BY <1>1, ScanInit, ScanStep, AnswersInit, AnswersStep, PTL DEF Spec

\* Nack tells of an exception frame on the bus, and one that comes first is
\* never passed over.
THEOREM NackTellsAnException == Spec => []NackIsAnException
<1>1. AnswersInv => NackIsAnException
  BY DEF AnswersInv
<1>2. QED
  BY <1>1, ScanInit, ScanStep, AnswersInit, AnswersStep, PTL DEF Spec
-----------------------------------------------------------------------------
(* What a write puts on the bus *)

\* The frame of a one-byte command, applied by the slave, sets the register
\* its address names to its byte, and nothing else.
LEMMA CommandWrites ==
  ASSUME NEW a \in Word, NEW byte \in Byte, NEW r, registers_at(a) = {r},
         encode_command(a, <<byte>>) # <<>>
  PROVE  LET f   == encode_command(a, <<byte>>)
             g   == parsed_frame(f)
             img == apply_write(EmptyImage, g.field_a, g.payload)
         IN  /\ parse_frame(f) = "OK" /\ g.dir = DIR_REQUEST /\ g.fc = FC_CMD
             /\ DOMAIN img = {r} /\ img[r] = byte
<1> DEFINE f == encode_command(a, <<byte>>)
<1>1. /\ parse_frame(f) = "OK"
      /\ parsed_frame(f).dir = DIR_REQUEST /\ parsed_frame(f).fc = FC_CMD
      /\ parsed_frame(f).field_a = a /\ parsed_frame(f).payload = <<byte>>
  BY CommandFrame
<1>2. apply_write(EmptyImage, a, <<byte>>)
        = [q \in DOMAIN EmptyImage \cup {r} |-> IF q = r THEN byte ELSE EmptyImage[q]]
  <2>1. a \in Nat
    BY WordBytes
  <2>2. registers_at(a) = {r}
    OBVIOUS
  <2>3. \A b \in Nat : registers_at(b) = {r} =>
          apply_write(EmptyImage, b, <<byte>>)
            = [q \in DOMAIN EmptyImage \cup {r} |-> IF q = r THEN byte ELSE EmptyImage[q]]
    BY WriteOfByte
  <2>4. QED
    BY <2>1, <2>2, <2>3, Zenon
<1> DEFINE img == [q \in DOMAIN EmptyImage \cup {r} |-> IF q = r THEN byte ELSE EmptyImage[q]]
<1>3. DOMAIN img = {r} /\ img[r] = byte
  BY DEF EmptyImage
<1>4. QED
  BY <1>1, <1>2, <1>3

\* The address write_register takes for a register of a window is the address
\* of that register, in 16 bits.
LEMMA RegisterAddress ==
  ASSUME NEW reg, windows_of(reg) # {}
  PROVE  LET w == CHOOSE w \in windows_of(reg) : TRUE
         IN  /\ registers_at(wire_addr(w, reg)) = {reg}
             /\ wire_addr(w, reg) \in Word
<1> DEFINE w == CHOOSE w \in windows_of(reg) : TRUE
<1>1. w \in windows_of(reg)
  OBVIOUS
<1> HIDE DEF w
<1>2. w \in KNOWN_WINDOWS /\ reg \in reg_range(w)
  BY <1>1 DEF windows_of
<1>3. registers_at(wire_addr(w, reg)) = {reg}
  BY <1>2, LinkAssumption, AddressOfRegister
<1>4. wire_addr(w, reg) \in Word
  <2>1. wire_addr(w, reg) \in Nat /\ wire_addr(w, reg) \in wire_range(w)
    BY <1>2, WireAddress
  <2>2. w.field_a \in Nat /\ w.field_b \in Nat /\ w.prefix_len \in Nat
    BY <1>2, WindowType
  <2>3. w.field_a + w.field_b \in Word
    BY <1>2, LinkAssumption
  <2>4. w.field_a + w.field_b <= 65535
    BY <2>3, WordRange
  <2>5. wire_addr(w, reg) <= w.field_a + w.field_b - 1
    BY <2>1, <2>2 DEF wire_range
  <2>6. QED
    BY <2>1, <2>2, <2>4, <2>5, WordRange
<1>5. QED
  BY <1>3, <1>4 DEF w

\* The register and the byte of what the caller asked for.
Asks(call, r, byte) ==
  \/ /\ call.op = "set_setpoint"
     /\ r = Telemetry.reg_base + call.addr /\ int8_of(byte) = Clamped(call.celsius)
  \/ call.op = "set_working_mode" /\ r = Telemetry.reg_base + MODE_ADDR /\ byte = call.mode
  \/ call.op = "write_register" /\ r = call.reg /\ byte = call.value

\* It is what AskedRegister and IsAskedValue say.
LEMMA AsksThat ==
  ASSUME NEW r, NEW byte, Asks(asked, r, byte)
  PROVE  AskedRegister = r /\ IsAskedValue(byte)
<1>1. CASE asked.op = "set_setpoint"
  BY <1>1 DEF Asks, AskedRegister, IsAskedValue
<1>2. CASE asked.op = "set_working_mode"
  BY <1>2 DEF Asks, AskedRegister, IsAskedValue
<1>3. CASE asked.op = "write_register"
  BY <1>3 DEF Asks, AskedRegister, IsAskedValue
<1>4. QED
  BY <1>1, <1>2, <1>3 DEF Asks

\* The property without the cases: a frame was sent that writes what was
\* asked for, or none was and what could not be written was refused.
Writes(call, f) ==
  \E a \in Word, byte \in Byte : \E r :
    registers_at(a) = {r} /\ f = encode_command(a, <<byte>>) /\ Asks(call, r, byte)

Refusable(call) ==
  \/ call.op = "set_working_mode" /\ ~ working_mode_selectable(call.mode)
  \/ call.op = "write_register" /\ \A w \in KNOWN_WINDOWS : call.reg \notin reg_range(w)

WriteOps == {"set_setpoint", "set_working_mode", "write_register"}

WriteInv ==
  asked.op \in WriteOps =>
    /\ sent # <<>> => Writes(asked, sent)
    /\ pc = "idle" /\ result = "UnsupportedRegister" => sent = <<>> /\ Refusable(asked)

\* Nothing was asked for yet.
LEMMA WriteInit == Init => WriteInv
BY DEF Init, NoCall, WriteInv, WriteOps

LEMMA WriteStep == WriteInv /\ [Next]_vars => WriteInv'
<1> SUFFICES ASSUME WriteInv, [Next]_vars PROVE WriteInv'
  OBVIOUS
\* A call returns, or goes on.
<1>s. ASSUME asked' = asked, sent' = sent,
             pc' = "idle" => result' # "UnsupportedRegister"
      PROVE  WriteInv'
  BY <1>s DEF WriteInv
\* A byte is written.
<1>w. ASSUME Ready, NEW call, NEW a \in Word, NEW byte \in Byte, NEW r,
             registers_at(a) = {r}, Asks(call, r, byte), write_byte(call, a, byte)
      PROVE  WriteInv'
  <2>1. asked' = call /\ sent' \in {<<>>, encode_command(a, <<byte>>)}
    BY <1>w DEF write_byte, Transact, Refuse
  <2>2. pc' = "idle" => result' # "UnsupportedRegister"
    BY <1>w DEF write_byte, Transact, Refuse
  <2>3. sent' # <<>> => Writes(call, sent')
    BY <1>w, <2>1 DEF Writes
  <2>4. QED
    BY <2>1, <2>2, <2>3 DEF WriteInv
\* What cannot be written is refused.
<1>u. ASSUME NEW call, Refusable(call), Refuse(call, "UnsupportedRegister")
      PROVE  WriteInv'
  <2>1. asked' = call /\ sent' = <<>>
    BY <1>u DEF Refuse
  <2>2. QED
    BY <1>u, <2>1 DEF WriteInv
<1>1. CASE SetSetpoint
  <2>1. PICK addr \in SetpointAddrs, c \in Celsius :
          write_byte([op |-> "set_setpoint", addr |-> addr, celsius |-> c],
                     addr, setpoint_byte(c))
    BY <1>1 DEF SetSetpoint
  <2>2. addr \in Word /\ registers_at(addr) = {Telemetry.reg_base + addr} /\ c \in Int
    BY LinkAssumption
  <2>3. setpoint_byte(c) \in Byte /\ int8_of(setpoint_byte(c)) = Clamped(c)
    BY <2>2, SetpointByte DEF Clamped
  <2>4. Asks([op |-> "set_setpoint", addr |-> addr, celsius |-> c],
             Telemetry.reg_base + addr, setpoint_byte(c))
    BY <2>3 DEF Asks
  <2>5. QED
    BY <1>1, <1>w, <2>1, <2>2, <2>3, <2>4 DEF SetSetpoint
<1>2. CASE SetWorkingMode
  <2>1. PICK mode \in Modes :
          LET call == [op |-> "set_working_mode", mode |-> mode]
          IN  IF working_mode_selectable(mode)
              THEN write_byte(call, MODE_ADDR, mode)
              ELSE Refuse(call, "UnsupportedRegister")
    BY <1>2 DEF SetWorkingMode
  <2> DEFINE call == [op |-> "set_working_mode", mode |-> mode]
  <2>2. mode \in Byte /\ MODE_ADDR \in Word
        /\ registers_at(MODE_ADDR) = {Telemetry.reg_base + MODE_ADDR}
    BY LinkAssumption
  <2>3. Asks(call, Telemetry.reg_base + MODE_ADDR, mode)
    BY DEF Asks
  <2>4. ~ working_mode_selectable(mode) => Refusable(call)
    BY DEF Refusable
  <2> HIDE DEF call
  <2>5. QED
    BY <1>2, <1>w, <1>u, <2>1, <2>2, <2>3, <2>4 DEF SetWorkingMode, call
<1>3. CASE WriteRegister
  <2>1. PICK reg \in RegisterNumbers, v \in Values :
          LET call == [op |-> "write_register", reg |-> reg, value |-> v]
          IN  IF windows_of(reg) = {}
              THEN Refuse(call, "UnsupportedRegister")
              ELSE LET w == CHOOSE w \in windows_of(reg) : TRUE
                   IN  write_byte(call, wire_addr(w, reg), v)
    BY <1>3 DEF WriteRegister
  <2> DEFINE call == [op |-> "write_register", reg |-> reg, value |-> v]
             w == CHOOSE w \in windows_of(reg) : TRUE
  <2>2. CASE windows_of(reg) = {}
    <3>1. Refusable(call)
      BY <2>2 DEF Refusable, windows_of
    <3>2. Refuse(call, "UnsupportedRegister")
      BY <2>1, <2>2
    <3> HIDE DEF call
    <3>3. QED
      BY <1>u, <3>1, <3>2
  <2>3. CASE windows_of(reg) # {}
    <3>1. registers_at(wire_addr(w, reg)) = {reg} /\ wire_addr(w, reg) \in Word
      BY <2>3, RegisterAddress
    <3>2. write_byte(call, wire_addr(w, reg), v)
      BY <2>1, <2>3
    <3>3. Asks(call, reg, v)
      BY DEF Asks
    <3>4. v \in Byte
      BY LinkAssumption
    <3> HIDE DEF w, call
    <3>5. QED
      BY <1>3, <1>w, <3>1, <3>2, <3>3, <3>4 DEF WriteRegister
  <2>4. QED
    BY <2>2, <2>3
<1>4. CASE ReadSetpoint
  <2>1. PICK addr \in SetpointAddrs :
          asked' = [op |-> "read_setpoint", addr |-> addr]
    BY <1>4 DEF ReadSetpoint, Transact, Refuse
  <2>2. QED
    BY <2>1 DEF WriteInv, WriteOps
<1>5. CASE TakeNack
  BY <1>5, <1>s DEF TakeNack, Return, history
<1>6. CASE TakeAnswer
  BY <1>6, <1>s DEF TakeAnswer, Return, history
<1>7. CASE StopReading
  BY <1>7, <1>s DEF StopReading, Return, history
<1>8. CASE ReadFails
  BY <1>8, <1>s DEF ReadFails, Return, history
<1>9. CASE DropJunk \/ Resync \/ AwaitMore \/ SkipFrame \/ DropByte \/ Receive
  BY <1>9, <1>s
  DEF DropJunk, Resync, AwaitMore, SkipFrame, DropByte, Receive, Discard, AtFrame,
      Scanning, InDrain, history
<1>10. CASE UNCHANGED vars
  BY <1>10 DEF vars, history, WriteInv
<1>11. QED
  BY <1>1, <1>2, <1>3, <1>4, <1>5, <1>6, <1>7, <1>8, <1>9, <1>10 DEF Next, Call, Step

\* The slave that applies the frame of a write stores the value asked for in
\* the register asked for and nowhere else, and only what cannot be written is
\* refused (MaconLink::set_setpoint, set_working_mode, write_register).
THEOREM WritesAreThoseAsked == Spec => []WritesWhatWasAsked
<1>1. WriteInv => WritesWhatWasAsked
  <2> SUFFICES ASSUME WriteInv, asked.op \in WriteOps
               PROVE  WritesWhatWasAsked
    BY DEF WritesWhatWasAsked, WriteOps
  <2>1. ASSUME sent # <<>>
        PROVE  LET f == parsed_frame(sent)
                   img == apply_write(EmptyImage, f.field_a, f.payload)
               IN  /\ parse_frame(sent) = "OK" /\ f.dir = DIR_REQUEST /\ f.fc = FC_CMD
                   /\ DOMAIN img = {AskedRegister}
                   /\ IsAskedValue(img[AskedRegister])
    <3>0. PICK a \in Word, byte \in Byte : \E r :
            registers_at(a) = {r} /\ sent = encode_command(a, <<byte>>) /\ Asks(asked, r, byte)
      BY <2>1 DEF WriteInv, Writes
    <3>1. PICK r :
            registers_at(a) = {r} /\ sent = encode_command(a, <<byte>>) /\ Asks(asked, r, byte)
      BY <3>0
    <3>2. AskedRegister = r /\ IsAskedValue(byte)
      BY <3>1, AsksThat
    <3> DEFINE g == parsed_frame(sent)
               img == apply_write(EmptyImage, g.field_a, g.payload)
    <3>3. /\ parse_frame(sent) = "OK" /\ g.dir = DIR_REQUEST /\ g.fc = FC_CMD
          /\ DOMAIN img = {r} /\ img[r] = byte
      <4>1. registers_at(a) = {r} /\ encode_command(a, <<byte>>) # <<>>
        BY <2>1, <3>1
      <4>2. LET e == encode_command(a, <<byte>>)
                h == parsed_frame(e)
                i == apply_write(EmptyImage, h.field_a, h.payload)
            IN  /\ parse_frame(e) = "OK" /\ h.dir = DIR_REQUEST /\ h.fc = FC_CMD
                /\ DOMAIN i = {r} /\ i[r] = byte
        BY <4>1, CommandWrites
      <4>3. QED
        BY <3>1, <4>2, Zenon
    <3> HIDE DEF img
    <3>4. IsAskedValue(img[AskedRegister])
      BY <3>2, <3>3, Zenon
    <3>5. QED
      BY <3>2, <3>3, <3>4, Zenon DEF img
  <2>2. QED
    BY <2>1 DEF WriteInv, WritesWhatWasAsked, Refusable
<1>2. QED
  BY <1>1, WriteInit, WriteStep, PTL DEF Spec
-----------------------------------------------------------------------------
(* The types *)

\* What StoreInv does not say of the types; the address of a read is told with
\* them, for its value is taken from the payload there.
TypeInv ==
  /\ stream \in Streams
  /\ reads \in 0 .. MAX_READS /\ calls \in 0 .. MaxCalls
  /\ pc \in {"idle", "drain", "read"}
  /\ result \in Results \cup {"none"}
  /\ want \in [fc : Byte, a : Nat, b : Nat]
  /\ out \in -128 .. 127
  /\ sent \in Seq(Byte) /\ torn \subseteq Int
  /\ asked.op = "read_setpoint" => asked.addr \in Nat

LEMMA TypeInit == Init => TypeInv
<1>1. NoWant \in [fc : Byte, a : Nat, b : Nat]
  BY DEF NoWant, Byte
<1>2. QED
  BY <1>1, LinkAssumption DEF Init, TypeInv, NoCall

LEMMA TypeStep == StoreInv /\ TypeInv /\ [Next]_vars => TypeInv'
<1> SUFFICES ASSUME StoreInv, TypeInv, [Next]_vars PROVE TypeInv'
  OBVIOUS
<1>0. /\ stream \in Streams
      /\ reads \in 0 .. MAX_READS /\ calls \in 0 .. MaxCalls
      /\ pc \in {"idle", "drain", "read"}
      /\ result \in Results \cup {"none"}
      /\ want \in [fc : Byte, a : Nat, b : Nat]
      /\ out \in -128 .. 127
      /\ sent \in Seq(Byte) /\ torn \subseteq Int
      /\ asked.op = "read_setpoint" => asked.addr \in Nat
  BY DEF TypeInv
<1>m. MAX_READS \in Nat /\ MaxCalls \in Nat /\ 0 \in 0 .. MAX_READS
  BY LinkAssumption
\* A call is refused, or its frame is written.
<1>r. ASSUME Ready, NEW call, NEW r \in Results, Refuse(call, r),
             call.op = "read_setpoint" => call.addr \in Nat
      PROVE  TypeInv'
  <2>1. calls' \in 0 .. MaxCalls
    BY <1>0, <1>m, <1>r DEF Ready, Refuse
  <2>2. <<>> \in Seq(Byte)
    OBVIOUS
  <2>3. QED
    BY <1>0, <1>r, <2>1, <2>2 DEF Refuse, TypeInv
<1>c. ASSUME Ready, NEW call, NEW frame \in Seq(Byte),
             NEW expected \in [fc : Byte, a : Nat, b : Nat],
             Transact(call, frame, expected),
             call.op = "read_setpoint" => call.addr \in Nat
      PROVE  TypeInv'
  <2>1. CASE Refuse(call, "WriteFailed")
    BY <1>r, <1>c, <2>1 DEF Results
  <2>2. CASE ~ Refuse(call, "WriteFailed")
    <3>1. calls' \in 0 .. MaxCalls
      BY <1>0, <1>m, <1>c, <2>2 DEF Ready, Transact
    <3>2. QED
      BY <1>0, <1>m, <1>c, <2>2, <3>1 DEF Transact, TypeInv
  <2>3. QED
    BY <2>1, <2>2
<1>w. ASSUME Ready, NEW call, NEW a \in Word, NEW byte \in Byte,
             write_byte(call, a, byte), call.op # "read_setpoint"
      PROVE  TypeInv'
  <2>1. encode_command(a, <<byte>>) \in Seq(Byte)
    BY CommandType
  <2>2. a \in Nat /\ FC_CMD \in Byte
    BY WordBytes DEF FC_CMD, Byte
  <2>3. [fc |-> FC_CMD, a |-> a, b |-> 1] \in [fc : Byte, a : Nat, b : Nat]
    BY <2>2
  <2>4. QED
    BY <1>c, <1>w, <2>1, <2>3 DEF write_byte
\* A call returns, or its scan goes on.
<1>e. ASSUME NEW r \in Results, Return(r), out' \in -128 .. 127
      PROVE  TypeInv'
  BY <1>0, <1>e DEF Return, history, TypeInv
<1>d. ASSUME NEW n, Discard(n) PROVE TypeInv'
  BY <1>0, <1>d DEF Discard, history, TypeInv
<1>1. CASE SetSetpoint
  <2>1. PICK addr \in SetpointAddrs, c \in Celsius :
          write_byte([op |-> "set_setpoint", addr |-> addr, celsius |-> c],
                     addr, setpoint_byte(c))
    BY <1>1 DEF SetSetpoint
  <2>2. addr \in Word /\ c \in Int
    BY LinkAssumption
  <2>3. setpoint_byte(c) \in Byte
    BY <2>2, SetpointByte
  <2>4. QED
    BY <1>1, <1>w, <2>1, <2>2, <2>3 DEF SetSetpoint
<1>2. CASE SetWorkingMode
  <2>1. PICK mode \in Modes :
          LET call == [op |-> "set_working_mode", mode |-> mode]
          IN  \/ write_byte(call, MODE_ADDR, mode)
              \/ Refuse(call, "UnsupportedRegister")
    BY <1>2 DEF SetWorkingMode
  <2>2. mode \in Byte /\ MODE_ADDR \in Word /\ "UnsupportedRegister" \in Results
    BY LinkAssumption DEF Results
  <2>3. QED
    BY <1>2, <1>w, <1>r, <2>1, <2>2 DEF SetWorkingMode
<1>3. CASE WriteRegister
  <2>1. PICK reg \in RegisterNumbers, v \in Values :
          LET call == [op |-> "write_register", reg |-> reg, value |-> v]
          IN  IF windows_of(reg) = {}
              THEN Refuse(call, "UnsupportedRegister")
              ELSE LET w == CHOOSE w \in windows_of(reg) : TRUE
                   IN  write_byte(call, wire_addr(w, reg), v)
    BY <1>3 DEF WriteRegister
  <2> DEFINE call == [op |-> "write_register", reg |-> reg, value |-> v]
             w == CHOOSE w \in windows_of(reg) : TRUE
  <2>2. call.op # "read_setpoint" /\ v \in Byte /\ "UnsupportedRegister" \in Results
    BY LinkAssumption DEF Results
  <2>3. CASE windows_of(reg) = {}
    <3>1. Refuse(call, "UnsupportedRegister")
      BY <2>1, <2>3
    <3> HIDE DEF call
    <3>2. QED
      BY <1>3, <1>r, <2>2, <3>1 DEF WriteRegister
  <2>4. CASE windows_of(reg) # {}
    <3>1. write_byte(call, wire_addr(w, reg), v)
      BY <2>1, <2>4
    <3>2. wire_addr(w, reg) \in Word
      BY <2>4, RegisterAddress
    <3> HIDE DEF call, w
    <3>3. QED
      BY <1>3, <1>w, <2>2, <3>1, <3>2 DEF WriteRegister
  <2>5. QED
    BY <2>3, <2>4
<1>4. CASE ReadSetpoint
  <2> DEFINE frame == encode_request(FC_READ, Telemetry.field_a, Telemetry.field_b)
             expected == [fc |-> FC_READ, a |-> Telemetry.field_a, b |-> Telemetry.field_b]
  <2>1. PICK addr \in SetpointAddrs :
          Transact([op |-> "read_setpoint", addr |-> addr], frame, expected)
    BY <1>4 DEF ReadSetpoint
  <2>2. Telemetry \in KNOWN_WINDOWS /\ addr \in Nat
    BY LinkAssumption, WordBytes
  <2>3. frame \in Seq(Byte)
    BY <2>2, RequestType
  <2>4. expected \in [fc : Byte, a : Nat, b : Nat]
    <3>1. Telemetry.field_a \in Nat /\ Telemetry.field_b \in Nat /\ FC_READ \in Byte
      BY <2>2, WindowType DEF FC_READ, Byte
    <3>2. QED
      BY <3>1
  <2> HIDE DEF frame, expected
  <2>5. QED
    BY <1>4, <1>c, <2>1, <2>2, <2>3, <2>4 DEF ReadSetpoint
<1>5. CASE TakeNack
  BY <1>0, <1>5, <1>e DEF TakeNack, Results
<1>6. CASE TakeAnswer
  <2>1. out' \in -128 .. 127
    <3>1. CASE out' = out
      BY <1>0, <3>1
    <3>2. CASE out' # out
      <4> DEFINE payload == parsed_frame(store).payload
      <4>1. /\ asked.op = "read_setpoint" /\ ~ (Len(payload) <= asked.addr)
            /\ out' = int8_of(payload[asked.addr + 1])
        BY <1>6, <3>2 DEF TakeAnswer
      <4>2. payload \in Seq(Byte)
        BY <1>6, PayloadType DEF TakeAnswer, AtFrame, StoreInv
      <4> HIDE DEF payload
      <4>3. asked.addr + 1 \in 1 .. Len(payload)
        BY <1>0, <4>1, <4>2
      <4>4. payload[asked.addr + 1] \in Byte
        BY <4>2, <4>3
      <4>5. QED
        BY <4>1, <4>4, SignedByte
    <3>3. QED
      BY <3>1, <3>2
  <2>2. \E r \in Results : Return(r)
    BY <1>6 DEF TakeAnswer, Results
  <2>3. QED
    BY <1>e, <2>1, <2>2
<1>7. CASE StopReading
  BY <1>0, <1>7, <1>e DEF StopReading, Results
<1>8. CASE ReadFails
  BY <1>0, <1>8, <1>e DEF ReadFails, Results
<1>9. CASE DropJunk
  <2>1. torn' \subseteq Int
    BY <1>0, <1>9 DEF DropJunk, StoreInv, HDR_LEN
  <2>2. QED
    BY <1>0, <1>9, <2>1 DEF DropJunk, TypeInv
<1>10. CASE Resync \/ SkipFrame \/ DropByte
  BY <1>10, <1>d DEF Resync, SkipFrame, DropByte
<1>11. CASE AwaitMore
  BY <1>0, <1>11 DEF AwaitMore, history, TypeInv
<1>12. CASE Receive
  <2>1. reads' \in 0 .. MAX_READS
    BY <1>0, <1>m, <1>12 DEF Receive, CanRead
  <2>2. QED
    BY <1>0, <1>12, <2>1 DEF Receive, history, TypeInv
<1>13. CASE UNCHANGED vars
  BY <1>0, <1>13 DEF vars, history, TypeInv
<1>14. QED
  BY <1>1, <1>2, <1>3, <1>4, <1>5, <1>6, <1>7, <1>8, <1>9, <1>10, <1>11, <1>12, <1>13
  DEF Next, Call, Step

\* The types of the link: its buffer never outgrows a frame nor what the call
\* has read, and the value of a setpoint is that of a signed byte
\* (read_matching_frame and read_setpoint, macon_link.cpp).
THEOREM TypesOfLink == Spec => []TypeOK
<1>1. StoreInv /\ TypeInv => TypeOK
  <2> SUFFICES ASSUME StoreInv, TypeInv PROVE TypeOK
    OBVIOUS
  <2>1. /\ off \in Nat /\ begin \in Nat /\ Len(store) \in Nat /\ off <= Len(stream)
        /\ begin + Len(store) <= off /\ Len(stream) \in Nat
    BY DEF StoreInv
  <2>2. off \in 0 .. Len(stream) /\ begin \in 0 .. off /\ Len(store) <= off - begin
    BY <2>1
  <2>3. QED
    BY <2>2 DEF StoreInv, TypeInv, TypeOK, cap
<1>2. QED
  BY <1>1, StoreInit, StoreStep, TypeInit, TypeStep, PTL DEF Spec
=============================================================================
