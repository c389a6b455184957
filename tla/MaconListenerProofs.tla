------------------------ MODULE MaconListenerProofs ------------------------
(***************************************************************************)
(* The listener for every window table, frame limit, accumulator size not  *)
(* below that limit, stream of the bus and way the consumer cuts it.       *)
(***************************************************************************)
EXTENDS MaconListener, WireProofs, FiniteSetTheorems

(* The accumulator *)

\* The inductive invariant: what the accumulator holds, and that a drain
\* leaves less than a whole frame behind.
BufferInv ==
  /\ stream \in Seq(Byte)
  /\ base \in Nat /\ off \in Nat /\ lim \in Nat /\ consumed \in Nat
  /\ off <= lim /\ lim <= Len(stream)
  /\ base + consumed <= off
  /\ off - base <= kAccSize
  /\ pc \in {"idle", "append", "drain", "compact"}
  /\ ~ making_room
  /\ AccIsStreamSlice
  /\ pc \in {"idle", "append"} => consumed = 0 /\ off - base < MAX_FRAME_LEN
  /\ pc = "compact" => off - (base + consumed) < MAX_FRAME_LEN

\* What a drain looks at is the part of the stream between its position and
\* what was copied.
RestFacts ==
  /\ acc \in Seq(Byte) /\ Len(acc) = off - base
  /\ Rest = SubSeq(stream, base + consumed + 1, off)
  /\ Rest \in Seq(Byte) /\ Len(Rest) = off - (base + consumed)

LEMMA RestIsPiece == BufferInv => RestFacts
<1> SUFFICES ASSUME BufferInv PROVE RestFacts
  OBVIOUS
<1>1. /\ acc = SubSeq(stream, base + 1, off)
      /\ base \in Nat /\ off \in Nat /\ consumed \in Nat /\ stream \in Seq(Byte)
      /\ base + consumed <= off /\ off <= Len(stream)
  BY DEF BufferInv, AccIsStreamSlice
<1>2. /\ acc \in Seq(Byte) /\ Len(acc) = off - base
      /\ Rest = SubSeq(stream, base + consumed + 1, off)
  BY <1>1, PieceOfPiece DEF Rest
<1>3. Rest \in Seq(Byte) /\ Len(Rest) = off - (base + consumed)
  BY <1>1, <1>2, SubSeqProperties
<1>4. QED
  BY <1>2, <1>3 DEF RestFacts

\* The frame a drain takes lies within the accumulator.
LEMMA DrainVerdict ==
  ASSUME BufferInv, InDrain, Start = 0
  PROVE  /\ plausible_header(Rest, 0)
         /\ parse_frame(Rest) \in {"OK", "TRUNCATED", "BAD_CHECKSUM", "BAD_DIR"}
         /\ parse_frame(Rest) = "TRUNCATED" => Len(Rest) < MAX_FRAME_LEN
         /\ parse_frame(Rest) = "OK" => declared_len(Rest) \in MIN_FRAME_LEN .. Len(Rest)
<1>1. Rest \in Seq(Byte) /\ Len(Rest) \in Nat /\ Len(Rest) >= HDR_LEN
  BY RestIsPiece DEF InDrain, RestFacts
<1>2. plausible_header(Rest, 0)
  BY <1>1, FindFrameStart DEF Start, HDR_LEN
<1>3. QED
  BY <1>1, <1>2, ParseAtHeader

LEMMA BufferInit == Init => BufferInv
<1> SUFFICES ASSUME Init PROVE BufferInv
  OBVIOUS
<1>1. stream \in Seq(Byte) /\ kAccSize \in Nat /\ 0 < MAX_FRAME_LEN
  BY ListenerAssumption, MaxFrameAssumption DEF Init, MIN_FRAME_LEN, HDR_LEN, CHK_LEN
<1>2. SubSeq(stream, 1, 0) = <<>>
  BY <1>1, SubSeqEmpty
<1>3. QED
  BY <1>1, <1>2 DEF Init, BufferInv, AccIsStreamSlice

\* Every step of every call keeps the accumulator a piece of the stream and
\* leaves room in it.
LEMMA BufferStep == BufferInv /\ [Next]_vars => BufferInv'
<1> SUFFICES ASSUME BufferInv, [Next]_vars PROVE BufferInv'
  OBVIOUS
<1> USE DEF BufferInv, AccIsStreamSlice
<1>0. /\ kAccSize \in Nat /\ MAX_FRAME_LEN \in Nat
      /\ kAccSize >= MAX_FRAME_LEN /\ MAX_FRAME_LEN >= 9
  BY ListenerAssumption, MaxFrameAssumption DEF MIN_FRAME_LEN, HDR_LEN, CHK_LEN
<1>r. /\ acc \in Seq(Byte) /\ Len(acc) = off - base
      /\ Rest = SubSeq(stream, base + consumed + 1, off)
      /\ Rest \in Seq(Byte) /\ Len(Rest) = off - (base + consumed)
  BY RestIsPiece DEF RestFacts
<1>1. CASE FeedBytes
  <2>1. PICK n \in ChunkSizes : off + n <= Len(stream) /\ lim' = off + n
    BY <1>1 DEF FeedBytes
  <2>2. n \in Nat
    BY ListenerAssumption
  <2>3. QED
    BY <1>1, <2>1, <2>2 DEF FeedBytes
<1>2. CASE ResetBuffer
  <2>1. base' = off /\ acc' = <<>> /\ off' = off /\ stream' = stream
    BY <1>2, <1>r DEF ResetBuffer
  <2>2. acc' = SubSeq(stream', base' + 1, off')
    BY <2>1, SubSeqEmpty
  <2>3. QED
    BY <1>0, <1>2, <2>1, <2>2 DEF ResetBuffer
<1>3. CASE ClearCatalog
  BY <1>3 DEF ClearCatalog
<1>4. CASE TakeBytes
  <2> DEFINE take == IF lim - off > Space THEN Space ELSE lim - off
  <2>0. /\ pc = "append" /\ making_room' = (Space = 0)
        /\ off' = off + take /\ acc' = acc \o SubSeq(stream, off + 1, off + take)
        /\ stream' = stream /\ base' = base /\ lim' = lim /\ consumed' = consumed
        /\ pc' = "drain"
    BY <1>4, Zenon DEF TakeBytes, history
  <2>1. Space \in Nat /\ Space = kAccSize - (off - base) /\ Space > 0 /\ consumed = 0
    BY <1>0, <2>0, <1>r DEF Space
  <2>2. Space # 0
    BY <2>1
  <2>6. ~ making_room'
    BY <2>0, <2>2, Zenon
  <2>3. take \in Nat /\ take <= Space /\ off + take <= lim
    BY <2>1
  <2> HIDE DEF take
  <2>4. acc' = SubSeq(stream, base + 1, off + take)
    <3>1. SubSeq(stream, base + 1, off) \o SubSeq(stream, off + 1, off + take)
            = SubSeq(stream, base + 1, off + take)
      BY <2>3, ConcatAdjacentSubSeq
    <3>2. QED
      BY <2>0, <3>1, Zenon
  <2>5. QED
    <3>1. off' - base' <= kAccSize /\ base' + consumed' <= off' /\ off' <= lim' /\ off' \in Nat
      BY <1>0, <2>0, <2>1, <2>3
    <3>2. QED
      BY <2>0, <2>4, <2>6, <3>1
<1>5. CASE Compact
  <2>1. pc = "compact" /\ consumed' = 0 /\ making_room' = FALSE
        /\ pc' = (IF MoreToCopy THEN "append" ELSE "idle")
        /\ off' = off /\ lim' = lim /\ stream' = stream
        /\ acc' = Rest /\ base' = base + consumed
    BY <1>5 DEF Compact, Remainder, Rest
  <2>2. off - (base + consumed) < MAX_FRAME_LEN
    BY <2>1
  <2>3. QED
    BY <1>0, <1>r, <2>1, <2>2
<1>6. CASE DrainDone
  <2>1. Len(Rest) < HDR_LEN
    BY <1>6 DEF DrainDone
  <2>2. off - (base + consumed) < MAX_FRAME_LEN
    BY <1>0, <1>r, <2>1 DEF HDR_LEN
  <2>3. QED
    BY <1>6, <2>2 DEF DrainDone, history
<1>7. CASE DropJunk
  <2>1. consumed' = off - base - (HDR_LEN - 1) /\ Len(Rest) >= HDR_LEN
    BY <1>7, <1>r DEF DropJunk, InDrain, TailLen
  <2>2. base + consumed' = off - 7 /\ consumed' \in Nat
    BY <1>r, <2>1 DEF HDR_LEN
  <2>3. QED
    BY <1>0, <1>7, <2>2 DEF DropJunk, history
<1>8. CASE Resync
  <2>1. consumed' = consumed + Start /\ Start \in 1 .. Len(Rest) - 1
    BY <1>8 DEF Resync
  <2>2. consumed' \in Nat /\ base + consumed' <= off
    BY <1>r, <2>1
  <2>3. QED
    BY <1>8, <2>2 DEF Resync, InDrain, history
<1>9. CASE AcceptFrame
  <2>1. InDrain /\ Start = 0 /\ parse_frame(Rest) \in {"OK", "UNKNOWN_WINDOW"}
        /\ consumed' = consumed + parsed_frame(Rest).frame_len
    BY <1>9 DEF AcceptFrame
  <2>2. declared_len(Rest) \in MIN_FRAME_LEN .. Len(Rest)
    BY <2>1, DrainVerdict
  <2>3. parsed_frame(Rest).frame_len = declared_len(Rest)
    BY DEF parsed_frame
  <2>4. consumed' \in Nat /\ base + consumed' <= off
    BY <1>r, <2>1, <2>2, <2>3 DEF MIN_FRAME_LEN, HDR_LEN, CHK_LEN
  <2>5. /\ stream' = stream /\ off' = off /\ lim' = lim /\ acc' = acc
        /\ pc' = pc /\ making_room' = making_room /\ base' = base /\ pc = "drain"
    BY <1>9 DEF AcceptFrame, InDrain
  <2>6. QED
    BY <2>4, <2>5
<1>10. CASE AwaitMore
  <2>1. Len(Rest) < MAX_FRAME_LEN
    BY <1>10, DrainVerdict DEF AwaitMore
  <2>2. QED
    BY <1>r, <1>10, <2>1 DEF AwaitMore, history
<1>11. CASE RejectFrame
  <2>1. consumed' = consumed + 2 /\ Len(Rest) >= HDR_LEN
    BY <1>11 DEF RejectFrame, InDrain, MagicLen
  <2>2. consumed' \in Nat /\ base + consumed' <= off
    BY <1>r, <2>1 DEF HDR_LEN
  <2>3. QED
    BY <1>11, <2>2 DEF RejectFrame, InDrain, history
<1>12. CASE UNCHANGED vars
  BY <1>12 DEF vars, history
<1>13. QED
  BY <1>1, <1>2, <1>3, <1>4, <1>5, <1>6, <1>7, <1>8, <1>9, <1>10, <1>11, <1>12
  DEF Next, Step

\* The inductive invariant holds in every reachable state.
THEOREM BufferInvariant == Spec => []BufferInv
  BY BufferInit, BufferStep, PTL DEF Spec

\* Appending and compacting lose, double and reorder no byte (feed_bytes).
THEOREM SliceOfStream == Spec => []AccIsStreamSlice
<1>1. BufferInv => AccIsStreamSlice
  BY DEF BufferInv
<1>2. QED
  BY <1>1, BufferInvariant, PTL

\* The safety valve of feed_bytes never fires (macon_listener.cpp:143-154).
THEOREM RoomInAccumulator == Spec => []AccumulatorHasRoom
<1>1. BufferInv => AccumulatorHasRoom
  BY RestIsPiece, ListenerAssumption, MaxFrameAssumption
  DEF BufferInv, AccumulatorHasRoom, Space, RestFacts
<1>2. QED
  BY <1>1, BufferInvariant, PTL
-----------------------------------------------------------------------------
(* The listener implements FrameStream *)

\* The codec of the abstract receiver is the listener's.
LEMMA SameCodec ==
  /\ \A b, i : FS!plausible_header(b, i) = plausible_header(b, i)
  /\ \A b : FS!declared_len(b) = declared_len(b)
  /\ \A b : FS!parse_frame(b) = parse_frame(b)
<1> USE DEF FS!HDR0, FS!HDR1, FS!DIR_REQUEST, FS!DIR_RESPONSE, FS!FC_READ, FS!FC_CMD,
            FS!HDR_LEN, FS!CHK_LEN, FS!MIN_FRAME_LEN, FS!U16, FS!FieldA, FS!FieldB,
            FS!is_known_window, FS!header_dir_ok, FS!header_fc_ok, FS!AtMostMax,
            FS!frame_total_len, FS!command_frame_len, FS!declared_len,
            FS!has_magic, FS!plausible_header, FS!SumOf, FS!compute_checksum,
            FS!checksum_ok, FS!parse_frame,
            HDR0, HDR1, DIR_REQUEST, DIR_RESPONSE, FC_READ, FC_CMD,
            HDR_LEN, CHK_LEN, MIN_FRAME_LEN, U16, FieldA, FieldB,
            is_known_window, header_dir_ok, header_fc_ok, AtMostMax,
            frame_total_len, command_frame_len, declared_len,
            has_magic, plausible_header, SumOf, compute_checksum,
            checksum_ok, parse_frame
<1>1. \A b, i : FS!plausible_header(b, i) = plausible_header(b, i)
  BY Zenon
<1>2. \A b : FS!declared_len(b) = declared_len(b)
  BY Zenon
<1>3. \A b : FS!parse_frame(b) = parse_frame(b)
  BY Zenon
<1>4. QED
  BY <1>1, <1>2, <1>3

\* No header starts before the one a drain finds, in the stream as in the
\* accumulator.
LEMMA NoStartSkipped ==
  ASSUME BufferInv, InDrain,
         NEW n \in Nat, n <= Start, n + HDR_LEN <= Len(Rest) + 1
  PROVE  \A i \in base + consumed .. base + consumed + n - 1 :
            ~ FS!plausible_header(stream, i)
<1> DEFINE p == base + consumed
<1>1. /\ p \in Nat /\ off \in Nat /\ off <= Len(stream) /\ stream \in Seq(Byte)
      /\ Rest = SubSeq(stream, p + 1, off)
      /\ Rest \in Seq(Byte) /\ Len(Rest) = off - p
  BY RestIsPiece DEF BufferInv, RestFacts
<1>2. \A k \in 0 .. Start - 1 : ~ plausible_header(Rest, k)
  BY <1>1, FindFrameStart DEF Start
<1>3. Start \in Nat
  <2>1. Start \in 0 .. Len(Rest)
    BY <1>1, FindFrameStart DEF Start
  <2>2. QED
    BY <1>1, <2>1
<1> HIDE DEF p
<1>4. \A i \in p .. p + n - 1 : ~ plausible_header(stream, i)
  <2> TAKE i \in p .. p + n - 1
  <2> DEFINE k == i - p
  <2>1. k \in Nat /\ k < n /\ p + k = i
    BY <1>1
  <2> HIDE DEF k
  <2>2. ~ plausible_header(Rest, k)
    BY <1>2, <1>3, <2>1
  <2>3. p + k + HDR_LEN <= off
    BY <1>1, <2>1 DEF HDR_LEN
  <2>4. QED
    BY <1>1, <2>1, <2>2, <2>3, HeaderOfPiece
<1>5. QED
  BY <1>4, SameCodec DEF p

\* What the abstract receiver sees at its position is what the drain sees.
LEMMA SameView ==
  ASSUME BufferInv, InDrain, Start = 0
  PROVE  /\ FS!HeadReceived
         /\ FS!From(base + consumed) = Rest
<1> DEFINE p == base + consumed
<1>1. /\ p \in Nat /\ off \in Nat /\ off <= Len(stream) /\ stream \in Seq(Byte)
      /\ Rest = SubSeq(stream, p + 1, off)
      /\ Len(Rest) = off - p /\ Len(Rest) >= HDR_LEN
  BY RestIsPiece DEF BufferInv, InDrain, RestFacts
<1> HIDE DEF p
<1>2. plausible_header(Rest, 0)
  BY DrainVerdict
<1>3. plausible_header(stream, p)
  BY <1>1, <1>2, HeaderOfPiece DEF HDR_LEN
<1>4. plausible_header(SubSeq(stream, 1, off), p)
  <2>1. 0 + p + HDR_LEN <= off
    BY <1>1 DEF HDR_LEN
  <2>2. plausible_header(SubSeq(stream, 0 + 1, off), p) <=> plausible_header(stream, 0 + p)
    BY <1>1, <2>1, HeaderOfPiece
  <2>3. 0 + p = p /\ 0 + 1 = 1
    BY <1>1
  <2>4. QED
    BY <1>3, <2>2, <2>3
<1>5. QED
  BY <1>1, <1>4, SameCodec DEF p, FS!HeadReceived, FS!From

LEMMA ReadsInit == Init => FS!Init
  BY ListenerAssumption DEF Init, FS!Init, FS!Byte, Byte

\* Every step of the listener is a step of the abstract receiver or leaves
\* its position, its frames and the arrived bytes alone.
LEMMA ReadsStep == BufferInv /\ [Next]_vars => [FS!Next]_(FS!vars)
<1> SUFFICES ASSUME BufferInv, [Next]_vars PROVE [FS!Next]_(FS!vars)
  OBVIOUS
<1> DEFINE p == base + consumed
<1>0. /\ base \in Nat /\ consumed \in Nat /\ off \in Nat /\ lim \in Nat
      /\ off <= lim /\ lim <= Len(stream) /\ p \in Nat /\ p <= off
      /\ stream \in Seq(Byte)
      /\ Len(acc) = off - base /\ Len(Rest) = off - p
      /\ Rest \in Seq(Byte)
  BY RestIsPiece DEF BufferInv, RestFacts
<1>1. CASE FeedBytes
  BY <1>1 DEF FeedBytes, FS!vars
<1>2. CASE ResetBuffer
  <2>1. consumed = 0 /\ consumed' = 0 /\ base' = off /\ p = base
    BY <1>0, <1>2 DEF ResetBuffer, BufferInv
  <2>2. stream' = stream /\ off' = off /\ accepted' = accepted
        /\ dropped' = dropped \cup (base .. base + Len(acc) - 1)
    BY <1>2 DEF ResetBuffer
  <2>3. CASE base = off
    <3>1. base .. base + Len(acc) - 1 = {}
      BY <1>0, <2>3
    <3>2. QED
      BY <2>1, <2>2, <2>3, <3>1, <1>0 DEF FS!vars
  <2>4. CASE base < off
    BY <1>0, <2>1, <2>2, <2>4 DEF FS!Next, FS!Reset
  <2>5. QED
    BY <1>0, <2>1, <2>3, <2>4
<1>3. CASE ClearCatalog
  BY <1>3 DEF ClearCatalog, FS!vars
<1>4. CASE TakeBytes
  <2> DEFINE take == IF lim - off > Space THEN Space ELSE lim - off
  <2>1. /\ pc = "append" /\ off' = off + take /\ stream' = stream /\ base' = base
        /\ consumed' = consumed /\ accepted' = accepted /\ dropped' = dropped
    BY <1>4, Zenon DEF TakeBytes, history
  <2>2. Space \in Nat
    BY <1>0, <2>1, ListenerAssumption, MaxFrameAssumption DEF Space, BufferInv
  <2>3. take \in Nat /\ off + take <= Len(stream)
    BY <1>0, <2>2
  <2> HIDE DEF take
  <2>4. CASE take = 0
    BY <1>0, <2>1, <2>4 DEF FS!vars
  <2>5. CASE take # 0
    BY <1>0, <2>1, <2>3, <2>5 DEF FS!Next, FS!Arrive
  <2>6. QED
    BY <2>4, <2>5
<1>5. CASE Compact
  <2>1. /\ base' + consumed' = base + consumed /\ dropped' = dropped
        /\ stream' = stream /\ off' = off /\ accepted' = accepted
    BY <1>0, <1>5 DEF Compact, BufferInv
  <2>2. QED
    BY <2>1 DEF FS!vars
<1>6. CASE DrainDone
  BY <1>6 DEF DrainDone, history, FS!vars
<1>7. CASE DropJunk
  <2>1. InDrain /\ Start = Len(Rest) /\ consumed' = Len(acc) - TailLen
        /\ Len(Rest) >= HDR_LEN /\ base' = base
        /\ stream' = stream /\ off' = off /\ accepted' = accepted /\ dropped' = dropped
    BY <1>7 DEF DropJunk, InDrain, history
  <2> DEFINE n == Len(Rest) - (HDR_LEN - 1)
  <2>2. n \in Nat /\ n > 0 /\ n <= Start /\ n + HDR_LEN <= Len(Rest) + 1
        /\ base' + consumed' = p + n /\ p + n <= off
    BY <1>0, <2>1 DEF HDR_LEN, TailLen
  <2> HIDE DEF n
  <2>3. \A i \in p .. p + n - 1 : ~ FS!plausible_header(stream, i)
    BY <2>1, <2>2, NoStartSkipped
  <2> HIDE DEF p
  <2>4. FS!SkipJunk
    BY <1>0, <2>1, <2>2, <2>3 DEF FS!SkipJunk, p
  <2>5. QED
    BY <2>4 DEF FS!Next
<1>8. CASE Resync
  <2>1. InDrain /\ Start \in 1 .. Len(Rest) - 1 /\ consumed' = consumed + Start
        /\ base' = base
        /\ stream' = stream /\ off' = off /\ accepted' = accepted /\ dropped' = dropped
    BY <1>8 DEF Resync, history
  <2>2. plausible_header(Rest, Start)
    BY <1>0, <2>1, FindFrameStart DEF Start
  <2>3. Start + HDR_LEN <= Len(Rest)
    BY <2>2 DEF plausible_header, has_magic
  <2>4. base' + consumed' = p + Start /\ p + Start <= off /\ Start \in Nat
        /\ Start + HDR_LEN <= Len(Rest) + 1
    <3>1. Start \in Nat /\ Start <= Len(Rest)
      BY <1>0, <2>1
    <3> HIDE DEF Start
    <3>2. QED
      BY <1>0, <2>1, <2>3, <3>1 DEF HDR_LEN
  <2>5. \A i \in p .. p + Start - 1 : ~ FS!plausible_header(stream, i)
    BY <2>1, <2>4, NoStartSkipped
  <2> HIDE DEF p
  <2>6. FS!SkipJunk
    BY <1>0, <2>1, <2>4, <2>5 DEF FS!SkipJunk, p
  <2>7. QED
    BY <2>6 DEF FS!Next
<1>9. CASE AcceptFrame
  <2>1. InDrain /\ Start = 0 /\ parse_frame(Rest) \in {"OK", "UNKNOWN_WINDOW"}
        /\ consumed' = consumed + parsed_frame(Rest).frame_len /\ base' = base
        /\ accepted' = accepted \cup {p}
        /\ stream' = stream /\ off' = off /\ dropped' = dropped
    BY <1>9 DEF AcceptFrame
  <2>2. declared_len(Rest) \in Nat
    BY <2>1, DrainVerdict DEF MIN_FRAME_LEN, HDR_LEN, CHK_LEN
  <2>3. base' + consumed' = p + declared_len(Rest)
    BY <1>0, <2>1, <2>2 DEF parsed_frame
  <2>4. FS!Accept
    BY <2>1, <2>3, SameView, SameCodec DEF FS!Accept
  <2>5. QED
    BY <2>4 DEF FS!Next
<1>10. CASE AwaitMore
  BY <1>10 DEF AwaitMore, history, FS!vars
<1>11. CASE RejectFrame
  <2>1. InDrain /\ Start = 0 /\ consumed' = consumed + 2 /\ base' = base
        /\ parse_frame(Rest) \in {"BAD_MAGIC", "BAD_DIR", "BAD_FC", "BAD_CHECKSUM"}
        /\ stream' = stream /\ off' = off /\ accepted' = accepted /\ dropped' = dropped
    BY <1>11 DEF RejectFrame, MagicLen, history
  <2>2. parse_frame(Rest) \in {"BAD_CHECKSUM", "BAD_DIR"}
    BY <2>1, DrainVerdict
  <2>3. base' + consumed' = p + 2
    BY <1>0, <2>1
  <2>4. FS!Reject
    BY <2>1, <2>2, <2>3, SameView, SameCodec DEF FS!Reject
  <2>5. QED
    BY <2>4 DEF FS!Next
<1>12. CASE UNCHANGED vars
  BY <1>12 DEF vars, history, FS!vars
<1>13. QED
  BY <1>1, <1>2, <1>3, <1>4, <1>5, <1>6, <1>7, <1>8, <1>9, <1>10, <1>11, <1>12
  DEF Next, Step

\* The listener takes the frames a left-to-right reading of the stream takes,
\* however the consumer cuts the bytes into calls.
THEOREM Implements == Spec => ReadsTheStream
  BY ReadsInit, ReadsStep, BufferInvariant, PTL DEF Spec, ReadsTheStream, FS!Spec
-----------------------------------------------------------------------------
(* What the reading of the stream gives the listener *)

FP == INSTANCE FrameStreamProofs WITH avail <- off, pos <- base + consumed

\* The facts proved about the abstract receiver are about this instance of it.
LEMMA SameReading ==
  /\ FP!Init <=> FS!Init
  /\ [FP!Next]_(FP!vars) <=> [FS!Next]_(FS!vars)
  /\ FP!IntactFrameTaken <=> FS!IntactFrameTaken
  /\ FP!TakenFramesIntact <=> FS!TakenFramesIntact
<1>1. /\ \A b, i : FP!plausible_header(b, i) = FS!plausible_header(b, i)
      /\ \A b : FP!declared_len(b) = FS!declared_len(b)
      /\ \A b : FP!parse_frame(b) = FS!parse_frame(b)
  BY Zenon
  DEF FS!HDR0, FS!HDR1, FS!DIR_REQUEST, FS!DIR_RESPONSE, FS!FC_READ, FS!FC_CMD,
      FS!HDR_LEN, FS!CHK_LEN, FS!MIN_FRAME_LEN, FS!U16, FS!FieldA, FS!FieldB,
      FS!is_known_window, FS!header_dir_ok, FS!header_fc_ok, FS!AtMostMax,
      FS!frame_total_len, FS!command_frame_len, FS!declared_len,
      FS!has_magic, FS!plausible_header, FS!SumOf, FS!compute_checksum,
      FS!checksum_ok, FS!parse_frame,
      FP!HDR0, FP!HDR1, FP!DIR_REQUEST, FP!DIR_RESPONSE, FP!FC_READ, FP!FC_CMD,
      FP!HDR_LEN, FP!CHK_LEN, FP!MIN_FRAME_LEN, FP!U16, FP!FieldA, FP!FieldB,
      FP!is_known_window, FP!header_dir_ok, FP!header_fc_ok, FP!AtMostMax,
      FP!frame_total_len, FP!command_frame_len, FP!declared_len,
      FP!has_magic, FP!plausible_header, FP!SumOf, FP!compute_checksum,
      FP!checksum_ok, FP!parse_frame
<1>2. FP!Init <=> FS!Init
  BY DEF FP!Init, FS!Init, FP!Byte, FS!Byte
<1>3. FP!Next <=> FS!Next
  BY <1>1, Zenon
  DEF FP!Next, FP!Arrive, FP!SkipJunk, FP!Accept, FP!Reject, FP!Reset,
      FP!HeadReceived, FP!From,
      FS!Next, FS!Arrive, FS!SkipJunk, FS!Accept, FS!Reject, FS!Reset,
      FS!HeadReceived, FS!From
<1>4. [FP!Next]_(FP!vars) <=> [FS!Next]_(FS!vars)
  BY <1>3 DEF FP!vars, FS!vars
<1>5. /\ FP!IntactFrameTaken <=> FS!IntactFrameTaken
      /\ FP!TakenFramesIntact <=> FS!TakenFramesIntact
  BY <1>1, Zenon
  DEF FP!IntactFrameTaken, FP!TakenFramesIntact, FP!Intact, FP!Covered, FP!FrameAt,
      FS!IntactFrameTaken, FS!TakenFramesIntact, FS!Intact, FS!Covered, FS!FrameAt
<1>6. QED
  BY <1>2, <1>4, <1>5

\* Its assumptions are those of the listener.
LEMMA SameAssumptions ==
  /\ FP!WindowsAssumption
  /\ FP!MaxFrameAssumption
  /\ FP!ImageAssumption
  /\ FP!RangesAssumption
<1>1. FP!WindowsAssumption
  BY WindowsAssumption, Zenon
  DEF FP!WindowsAssumption, WindowsAssumption, FP!RegWindow, RegWindow,
      FP!Word, Word, FP!Byte, Byte
<1>2. FP!MaxFrameAssumption
  BY MaxFrameAssumption, Zenon
  DEF FP!MaxFrameAssumption, MaxFrameAssumption, FP!MIN_FRAME_LEN, MIN_FRAME_LEN,
      FP!HDR_LEN, HDR_LEN, FP!CHK_LEN, CHK_LEN
<1>3. FP!ImageAssumption
  BY ImageAssumption, Zenon DEF FP!ImageAssumption, ImageAssumption, FP!Registers, Registers
<1>4. FP!RangesAssumption
  BY RangesAssumption, Zenon
  DEF FP!RangesAssumption, RangesAssumption, FP!reg_range, reg_range,
      FP!wire_range, wire_range
<1>5. QED
  BY <1>1, <1>2, <1>3, <1>4

\* Every frame the listener decodes was on the bus, and no byte of the bus is
\* read as part of two frames.
THEOREM NothingDecodedTwice == Spec => []FS!TakenFramesIntact
<1>1. Init => FP!ReadInv
  BY ReadsInit, SameReading, SameAssumptions, FP!ReadInit, Zenon
<1>2. FP!ReadInv /\ BufferInv /\ [Next]_vars => FP!ReadInv'
  BY ReadsStep, SameReading, SameAssumptions, FP!ReadStep, Zenon
<1>3. FP!ReadInv => FS!TakenFramesIntact
  BY SameReading DEF FP!ReadInv
<1>4. QED
  BY <1>1, <1>2, <1>3, BufferInvariant, PTL DEF Spec

\* A drain leaves at most a torn header or the head of one frame behind, and
\* nothing but the next call changes that.
Settled ==
  pc \in {"idle", "append", "compact"} =>
    \/ Len(Rest) < HDR_LEN
    \/ plausible_header(Rest, 0) /\ parse_frame(Rest) = "TRUNCATED"

\* What the drain left is what the next call finds.
LEMMA SettledStep == BufferInv /\ Settled /\ [Next]_vars => Settled'
<1> SUFFICES ASSUME BufferInv, Settled, [Next]_vars PROVE Settled'
  OBVIOUS
<1>0. BufferInv'
  BY BufferStep
<1>1. /\ Rest = SubSeq(stream, base + consumed + 1, off)
      /\ Len(Rest) = off - (base + consumed)
      /\ base \in Nat /\ consumed \in Nat /\ off \in Nat
      /\ Len(acc) = off - base
  BY RestIsPiece DEF BufferInv, RestFacts
<1>2. /\ Rest' = SubSeq(stream', base' + consumed' + 1, off')
      /\ Len(Rest') = off' - (base' + consumed')
  <2>1. (BufferInv => RestFacts)'
    BY RestIsPiece, PTL
  <2>2. QED
    BY <1>0, <2>1 DEF RestFacts
<1>3. ASSUME pc \in {"idle", "append", "compact"}, stream' = stream, off' = off,
             base' + consumed' = base + consumed
      PROVE  Settled'
  <2>1. Rest' = Rest
    BY <1>1, <1>2, <1>3
  <2>2. QED
    BY <1>3, <2>1 DEF Settled
<1>4. CASE FeedBytes
  BY <1>3, <1>4 DEF FeedBytes
<1>5. CASE ResetBuffer
  <2>1. base' = off /\ consumed' = 0 /\ off' = off
    BY <1>1, <1>5 DEF ResetBuffer, BufferInv
  <2>2. Len(Rest') < HDR_LEN
    BY <1>1, <1>2, <2>1 DEF HDR_LEN
  <2>3. QED
    BY <2>2 DEF Settled
<1>6. CASE ClearCatalog
  BY <1>3, <1>6 DEF ClearCatalog
<1>7. CASE TakeBytes
  BY <1>7, Zenon DEF TakeBytes, Settled
<1>8. CASE Compact
  <2>1. /\ pc = "compact" /\ stream' = stream /\ off' = off
        /\ base' + consumed' = base + consumed
    BY <1>1, <1>8 DEF Compact, BufferInv
  <2>2. QED
    BY <1>3, <2>1
<1>9. CASE DrainDone
  <2>1. Len(Rest) < HDR_LEN /\ Len(Rest') = Len(Rest)
    BY <1>1, <1>2, <1>9 DEF DrainDone, history
  <2>2. QED
    BY <2>1 DEF Settled
<1>10. CASE DropJunk
  <2>1. consumed' = Len(acc) - (HDR_LEN - 1) /\ base' = base /\ off' = off
    BY <1>10 DEF DropJunk, TailLen, history
  <2>2. Len(Rest') < HDR_LEN
    BY <1>1, <1>2, <2>1 DEF HDR_LEN
  <2>3. QED
    BY <2>2 DEF Settled
<1>11. CASE Resync \/ AcceptFrame \/ RejectFrame
  <2>1. pc' = "drain"
    BY <1>11 DEF Resync, AcceptFrame, RejectFrame, InDrain
  <2>2. QED
    BY <2>1 DEF Settled
<1>12. CASE AwaitMore
  <2>1. InDrain /\ Start = 0 /\ parse_frame(Rest) = "TRUNCATED"
    BY <1>12 DEF AwaitMore
  <2>2. plausible_header(Rest, 0)
    BY <2>1, DrainVerdict
  <2>3. Rest' = Rest
    BY <1>1, <1>2, <1>12 DEF AwaitMore, history
  <2>4. QED
    BY <2>1, <2>2, <2>3 DEF Settled
<1>13. CASE UNCHANGED vars
  BY <1>13 DEF vars, history, Settled, Rest
<1>14. QED
  BY <1>4, <1>5, <1>6, <1>7, <1>8, <1>9, <1>10, <1>11, <1>12, <1>13 DEF Next, Step

\* Nothing behind the position of a settled listener is complete.
LEMMA NothingComplete ==
  ASSUME BufferInv, Settled, pc = "idle",
         NEW i \in Nat, base <= i, i < off,
         FS!Intact(i), i + declared_len(FS!FrameAt(i)) <= off
  PROVE  FS!Covered(i)
<1> DEFINE p == base + consumed
           F == FS!FrameAt(p)
<1>1. /\ p = base /\ p \in Nat /\ off \in Nat /\ off <= Len(stream) /\ p <= off
      /\ stream \in Seq(Byte)
      /\ Rest = SubSeq(stream, p + 1, off) /\ Rest \in Seq(Byte) /\ Len(Rest) = off - p
  BY RestIsPiece DEF BufferInv, RestFacts
<1>2. declared_len(FS!FrameAt(i)) \in Nat /\ declared_len(FS!FrameAt(i)) >= MIN_FRAME_LEN
  <2>1. plausible_header(stream, i) /\ parse_frame(FS!FrameAt(i)) = "OK"
    BY SameCodec DEF FS!Intact
  <2>2. i + HDR_LEN <= Len(stream)
    BY <2>1 DEF plausible_header, has_magic
  <2>3. FS!FrameAt(i) \in Seq(Byte) /\ Len(FS!FrameAt(i)) >= HDR_LEN
    BY <1>1, <2>2, SubSeqProperties DEF FS!FrameAt, HDR_LEN
  <2>4. declared_len(FS!FrameAt(i)) # 0
    BY <2>1 DEF parse_frame
  <2>5. QED
    BY <2>1, <2>3, <2>4, DeclaredLength, MaxFrameAssumption
<1>3. Len(Rest) >= HDR_LEN
  BY <1>1, <1>2 DEF MIN_FRAME_LEN, HDR_LEN, CHK_LEN
<1>4. plausible_header(Rest, 0) /\ parse_frame(Rest) = "TRUNCATED"
  <2>1. ~ (Len(Rest) < HDR_LEN)
    BY <1>1, <1>3 DEF HDR_LEN
  <2>2. QED
    BY <2>1, Zenon DEF Settled
<1>5. plausible_header(stream, p)
  <2>1. p + 0 + HDR_LEN <= off /\ p + 0 = p
    BY <1>1, <1>3 DEF HDR_LEN
  <2>2. plausible_header(SubSeq(stream, p + 1, off), 0) <=> plausible_header(stream, p + 0)
    BY <1>1, <2>1, HeaderOfPiece
  <2>3. QED
    BY <1>1, <1>4, <2>1, <2>2
<1>6. declared_len(F) = declared_len(Rest)
  <2> DEFINE more == SubSeq(stream, off + 1, Len(stream))
  <2>1. /\ p + 1 \in 1 .. Len(stream) + 1 /\ off \in (p + 1) - 1 .. Len(stream)
        /\ Len(stream) \in off .. Len(stream)
    BY <1>1
  <2>5. F = SubSeq(stream, p + 1, off) \o more
    BY <1>1, <2>1, ConcatAdjacentSubSeq DEF FS!FrameAt
  <2>6. more \in Seq(Byte)
    BY <1>1, SubSeqProperties
  <2> HIDE DEF more, F
  <2>2. \A k \in 1 .. Len(Rest) : F[k] = Rest[k]
    BY <1>1, <2>5, <2>6, ConcatProperties
  <2>3. F[3] = Rest[3] /\ F[4] = Rest[4] /\ F[7] = Rest[7] /\ F[8] = Rest[8]
    <3>1. /\ 3 \in 1 .. Len(Rest) /\ 4 \in 1 .. Len(Rest)
          /\ 7 \in 1 .. Len(Rest) /\ 8 \in 1 .. Len(Rest)
      BY <1>1, <1>3 DEF HDR_LEN
    <3>2. QED
      BY <2>2, <3>1
  <2>4. QED
    BY <2>3 DEF declared_len, FieldB
<1> HIDE DEF F, p
<1>8. declared_len(Rest) \in Nat
  <2>1. Rest \in Seq(Byte)
    BY <1>1
  <2> HIDE DEF Rest
  <2>2. QED
    BY <1>3, <2>1, DeclaredLength, MaxFrameAssumption
<1>7. Len(Rest) < declared_len(Rest)
  <2>1. Len(Rest) \in Nat
    BY <1>1
  <2>2. QED
    BY <1>3, <1>4, <1>8, <2>1 DEF parse_frame, HDR_LEN
<1>9. i # p
  BY <1>1, <1>6, <1>7, <1>8 DEF F
<1>10. p \in 0 .. i - 1 /\ i < p + declared_len(F)
  BY <1>1, <1>6, <1>7, <1>8, <1>9
<1>11. QED
  BY <1>5, <1>10, SameCodec DEF FS!Covered, F

\* When a call returns no intact frame is waiting or lost: the property that
\* the tests of the listener approach case by case.
THEOREM NoFrameLeftBehind == Spec => []NothingLeftBehind
<1>1. Init => FP!ReadInv /\ Settled
  <2>1. Init => FP!ReadInv
    BY ReadsInit, SameReading, SameAssumptions, FP!ReadInit, Zenon
  <2>2. Init => Settled
    BY BufferInit, RestIsPiece DEF Init, Settled, HDR_LEN, RestFacts
  <2>3. QED
    BY <2>1, <2>2
<1>2. FP!ReadInv /\ Settled /\ BufferInv /\ [Next]_vars => FP!ReadInv' /\ Settled'
  BY ReadsStep, SettledStep, SameReading, SameAssumptions, FP!ReadStep, Zenon
<1>3. FP!ReadInv /\ Settled /\ BufferInv => NothingLeftBehind
  <2> SUFFICES ASSUME FP!ReadInv, Settled, BufferInv, pc = "idle",
                      NEW i \in 0 .. off - 1,
                      FS!Intact(i), i + declared_len(FS!FrameAt(i)) <= off,
                      ~ FS!Covered(i), i \notin dropped
               PROVE  i \in accepted
    BY DEF NothingLeftBehind
  <2>1. FS!IntactFrameTaken
    BY SameReading DEF FP!ReadInv
  <2>2. base + consumed = base /\ base \in Nat /\ off \in Nat
    BY DEF BufferInv
  <2>3. CASE i < base
    BY <2>1, <2>2, <2>3 DEF FS!IntactFrameTaken
  <2>4. CASE base <= i
    BY <2>2, <2>4, NothingComplete
  <2>5. QED
    BY <2>2, <2>3, <2>4
<1>4. QED
  BY <1>1, <1>2, <1>3, BufferInvariant, PTL DEF Spec
-----------------------------------------------------------------------------
(* What a step of the listener does to what it tells *)

At == base + consumed

told == <<stream, accepted, image, catalog, result, callStart, clearedAt>>

\* A step that takes no frame.
Passes ==
  /\ UNCHANGED told
  /\ At' >= At
  /\ \/ stats' = stats /\ off' = off
     \/ stats' = [stats EXCEPT !.resync = @ + 1] /\ off' = off
     \/ stats' = [stats EXCEPT !.checksum_err = @ + 1] /\ off' = off
     \/ \E n \in Nat : stats' = [stats EXCEPT !.bytes_rx = @ + n] /\ off' = off + n

\* What AcceptFrame does, of the frame that starts in the stream where the
\* listener is.
TakesFrame ==
  LET f == Taken(At)
  IN  /\ UNCHANGED <<stream, off, callStart, clearedAt>>
      /\ At' > At
      /\ accepted' = accepted \cup {At}
      /\ f.dir \in {DIR_REQUEST, DIR_RESPONSE}
      /\ f.payload \in Seq(Byte)
      /\ stats' = count_frame(stats, f.dir = DIR_REQUEST)
      /\ IF is_ingested(f)
         THEN LET data == window_data(f)
                  at   == window_of(f).reg_base
              IN  /\ image' = ingest_bytes(image, at, data)
                  /\ result' = [any_response |-> TRUE,
                                coverage |-> join_coverage(result.coverage,
                                               coverage_of(at, Len(data)))]
         ELSE UNCHANGED <<image, result>>
      /\ catalog' = IF f.dir = DIR_RESPONSE
                    THEN record(catalog, Key(f), TRUE, f.payload)
                    ELSE catalog

LEMMA AcceptTakes == BufferInv /\ AcceptFrame => TakesFrame
<1> SUFFICES ASSUME BufferInv, AcceptFrame PROVE TakesFrame
  OBVIOUS
<1> DEFINE p == base + consumed
           g == parsed_frame(Rest)
           f == Taken(p)
<1>1. /\ p \in Nat /\ off \in Nat /\ off <= Len(stream) /\ stream \in Seq(Byte)
      /\ base \in Nat /\ consumed \in Nat
      /\ Rest = SubSeq(stream, p + 1, off) /\ Rest \in Seq(Byte) /\ Len(Rest) = off - p
  BY RestIsPiece DEF BufferInv, RestFacts
<1>2. InDrain /\ Start = 0 /\ Len(Rest) >= HDR_LEN
  BY DEF AcceptFrame, InDrain
<1>3. /\ plausible_header(Rest, 0) /\ parse_frame(Rest) = "OK"
      /\ declared_len(Rest) \in MIN_FRAME_LEN .. Len(Rest)
  <2>1. /\ plausible_header(Rest, 0)
        /\ parse_frame(Rest) \in {"OK", "TRUNCATED", "BAD_CHECKSUM", "BAD_DIR"}
        /\ parse_frame(Rest) = "OK" => declared_len(Rest) \in MIN_FRAME_LEN .. Len(Rest)
    BY <1>2, DrainVerdict
  <2>2. parse_frame(Rest) \in {"OK", "UNKNOWN_WINDOW"}
    BY DEF AcceptFrame
  <2>3. QED
    BY <2>1, <2>2
<1>4. g = f
  <2> HIDE DEF p
  <2>1. p + HDR_LEN <= off /\ Len(stream) \in Nat /\ Len(stream) <= Len(stream)
    BY <1>1, <1>2 DEF HDR_LEN
  <2>2. parse_frame(SubSeq(stream, p + 1, off)) = "OK"
          => parsed_frame(SubSeq(stream, p + 1, Len(stream)))
               = parsed_frame(SubSeq(stream, p + 1, off))
    BY <1>1, <2>1, FrameOfPiece
  <2>3. QED
    BY <1>1, <1>3, <2>2, Zenon DEF Taken, FS!FrameAt
<1>5. g.dir \in {DIR_REQUEST, DIR_RESPONSE}
  <2>1. g.dir = Rest[3]
    BY DEF parsed_frame
  <2>2. header_dir_ok(Rest[3])
    BY <1>3, Zenon DEF parse_frame
  <2>3. QED
    BY <2>1, <2>2, Zenon DEF header_dir_ok
<1>6. g.payload \in Seq(Byte)
  BY <1>1, <1>3, PayloadType
<1>7. g.frame_len = declared_len(Rest)
  BY DEF parsed_frame
<1>8. /\ UNCHANGED <<stream, off, base, callStart, clearedAt>>
      /\ accepted' = accepted \cup {p}
      /\ consumed' = consumed + g.frame_len
      /\ stats' = count_frame(stats, g.dir = DIR_REQUEST)
      /\ catalog' = IF g.dir = DIR_RESPONSE
                    THEN record(catalog, <<g.field_a, g.field_b>>, TRUE, g.payload)
                    ELSE catalog
      /\ IF is_ingested(g)
         THEN LET data == window_data(g)
                  at   == window_of(g).reg_base
              IN  /\ image' = ingest_bytes(image, at, data)
                  /\ result' = [any_response |-> TRUE,
                                coverage |-> join_coverage(result.coverage,
                                               coverage_of(at, Len(data)))]
         ELSE UNCHANGED <<image, result>>
  BY <1>3, Zenon DEF AcceptFrame
<1>9. base' + consumed' > p
  <2>1. declared_len(Rest) \in Nat /\ declared_len(Rest) > 0
    BY <1>1, <1>3 DEF MIN_FRAME_LEN, HDR_LEN, CHK_LEN
  <2>2. QED
    BY <1>1, <1>7, <1>8, <2>1
<1> HIDE DEF f, g
<1>10. QED
  BY <1>4, <1>5, <1>6, <1>8, <1>9, Zenon DEF TakesFrame, At, Key, f, p

\* Every other step of a drain passes over bytes.
LEMMA StepKinds ==
  BufferInv /\ [Next]_vars => TakesFrame \/ FeedBytes \/ ClearCatalog \/ Passes
<1> SUFFICES ASSUME BufferInv, [Next]_vars, ~ AcceptFrame, ~ FeedBytes, ~ ClearCatalog
             PROVE  Passes
  BY AcceptTakes
<1> USE DEF told
<1>1. /\ base \in Nat /\ consumed \in Nat /\ off \in Nat /\ off <= Len(stream)
      /\ lim \in Nat /\ off <= lim /\ At <= off /\ At \in Nat
      /\ Len(acc) = off - base /\ Len(Rest) = off - At
  BY RestIsPiece DEF BufferInv, RestFacts, At
<1>2. CASE ResetBuffer
  <2>1. consumed = 0 /\ consumed' = 0 /\ base' = off /\ off' = off /\ stats' = stats
    BY <1>1, <1>2 DEF ResetBuffer, BufferInv
  <2>2. At' >= At
    BY <1>1, <2>1 DEF At
  <2>3. QED
    BY <1>2, <2>1, <2>2 DEF ResetBuffer, Passes
<1>3. CASE TakeBytes
  <2> DEFINE take == IF lim - off > Space THEN Space ELSE lim - off
  <2>1. /\ pc = "append" /\ off' = off + take
        /\ stats' = [stats EXCEPT !.bytes_rx = @ + take]
        /\ UNCHANGED told /\ UNCHANGED <<base, consumed>>
    BY <1>3, Zenon DEF TakeBytes, history
  <2>2. Space \in Nat
    BY <1>1, <2>1, ListenerAssumption, MaxFrameAssumption DEF Space, BufferInv
  <2>3. take \in Nat
    BY <1>1, <2>2
  <2> HIDE DEF take
  <2>4. At' >= At
    BY <1>1, <2>1 DEF At
  <2>5. QED
    BY <2>1, <2>3, <2>4, Zenon DEF Passes
<1>4. CASE Compact
  <2>1. At' = At /\ off' = off
    BY <1>1, <1>4 DEF Compact, BufferInv, At
  <2>2. stats' = stats \/ stats' = [stats EXCEPT !.resync = @ + 1]
    BY <1>4, Zenon DEF Compact
  <2>3. UNCHANGED told /\ At' >= At
    BY <1>1, <1>4, <2>1 DEF Compact
  <2>4. QED
    BY <2>1, <2>2, <2>3, Zenon DEF Passes
<1>5. CASE DrainDone \/ AwaitMore
  <2>1. UNCHANGED told /\ stats' = stats /\ off' = off /\ At' = At
    BY <1>5 DEF DrainDone, AwaitMore, history, At
  <2>2. QED
    BY <1>1, <2>1 DEF Passes
<1>6. CASE DropJunk
  <2>1. /\ UNCHANGED told /\ stats' = stats /\ off' = off /\ base' = base
        /\ consumed' = Len(acc) - (HDR_LEN - 1) /\ Len(Rest) >= HDR_LEN
    BY <1>6 DEF DropJunk, InDrain, TailLen, history
  <2>2. At' >= At
    BY <1>1, <2>1 DEF At, HDR_LEN
  <2>3. QED
    BY <2>1, <2>2 DEF Passes
<1>7. CASE Resync
  <2>1. /\ UNCHANGED told /\ stats' = [stats EXCEPT !.resync = @ + 1]
        /\ off' = off /\ base' = base /\ consumed' = consumed + Start
        /\ Start \in 1 .. Len(Rest) - 1
    BY <1>7, Zenon DEF Resync, history
  <2>2. At' >= At
    BY <1>1, <2>1 DEF At
  <2>3. QED
    BY <2>1, <2>2, Zenon DEF Passes
<1>8. CASE RejectFrame
  <2>1. /\ UNCHANGED told
        /\ stats' = stats \/ stats' = [stats EXCEPT !.checksum_err = @ + 1]
        /\ off' = off /\ base' = base /\ consumed' = consumed + MagicLen
    BY <1>8, Zenon DEF RejectFrame, history
  <2>2. At' >= At
    BY <1>1, <2>1 DEF At, MagicLen
  <2>3. QED
    BY <2>1, <2>2, Zenon DEF Passes
<1>9. CASE UNCHANGED vars
  <2>1. UNCHANGED told /\ stats' = stats /\ off' = off /\ At' = At
    BY <1>9 DEF vars, history, At
  <2>2. QED
    BY <1>1, <2>1 DEF Passes
<1>10. QED
  BY <1>2, <1>3, <1>4, <1>5, <1>6, <1>7, <1>8, <1>9 DEF Next, Step

\* The frames taken lie before the listener's position, and so do the places
\* where its call began and where its catalog was cleared: the next frame it
\* takes is new to all of them.
AtInv ==
  /\ IsFiniteSet(accepted)
  /\ \A i \in accepted : i \in Nat /\ i < At
  /\ callStart \in Nat /\ callStart <= At
  /\ clearedAt \in Nat /\ clearedAt <= At

LEMMA AtInit == Init => AtInv
BY FS_EmptySet DEF Init, AtInv, At

LEMMA AtType == BufferInv => At \in Nat
BY DEF BufferInv, At

LEMMA AtStep == BufferInv /\ AtInv /\ [Next]_vars => AtInv'
<1> SUFFICES ASSUME BufferInv, AtInv, [Next]_vars PROVE AtInv'
  OBVIOUS
<1>1. At \in Nat
  BY AtType
<1>2. At' \in Nat
  <2>1. (BufferInv => At \in Nat)'
    BY AtType, PTL
  <2>2. QED
    BY <2>1, BufferStep
<1>3. CASE TakesFrame
  <2>1. /\ accepted' = accepted \cup {At} /\ At' > At
        /\ callStart' = callStart /\ clearedAt' = clearedAt
    BY <1>3 DEF TakesFrame
  <2>2. IsFiniteSet(accepted')
    BY <2>1, FS_AddElement DEF AtInv
  <2>3. QED
    BY <1>1, <1>2, <2>1, <2>2 DEF AtInv
<1>4. CASE FeedBytes
  <2>1. /\ accepted' = accepted /\ At' = At /\ clearedAt' = clearedAt
        /\ callStart' = base /\ base = At
    BY <1>4 DEF FeedBytes, BufferInv, At
  <2>2. QED
    BY <1>1, <2>1 DEF AtInv
<1>5. CASE ClearCatalog
  <2>1. /\ accepted' = accepted /\ At' = At /\ callStart' = callStart
        /\ clearedAt' = base /\ base = At
    BY <1>5 DEF ClearCatalog, BufferInv, At
  <2>2. QED
    BY <1>1, <2>1 DEF AtInv
<1>6. CASE Passes
  BY <1>1, <1>2, <1>6 DEF Passes, told, AtInv
<1>7. QED
  BY <1>3, <1>4, <1>5, <1>6, StepKinds

\* A frame of the stream is the same frame in the next state.
LEMMA SameFrames ==
  ASSUME stream' = stream
  PROVE  /\ \A i : Taken(i)' = Taken(i)
         /\ \A i, r : Carries(i, r)' <=> Carries(i, r)
<1>1. \A i : Taken(i)' = Taken(i)
  BY DEF Taken, FS!FrameAt
<1>2. QED
  BY <1>1 DEF Carries

LEMMA StreamStays == [Next]_vars => stream' = stream
BY DEF Next, Step, FeedBytes, ResetBuffer, ClearCatalog, TakeBytes, Compact, DrainDone,
       DropJunk, Resync, AcceptFrame, AwaitMore, RejectFrame, vars
-----------------------------------------------------------------------------
(* The counters *)

StatsType == [bytes_rx : Nat, frames_ok : Nat, req_frames : Nat,
              resp_frames : Nat, checksum_err : Nat, resync : Nat]

\* The counters, one by one.
StatsOf(bytes, ok, req, resp, bad, resync) ==
  [bytes_rx |-> bytes, frames_ok |-> ok, req_frames |-> req,
   resp_frames |-> resp, checksum_err |-> bad, resync |-> resync]

LEMMA StatsFields ==
  ASSUME NEW st \in StatsType
  PROVE  st = StatsOf(st.bytes_rx, st.frames_ok, st.req_frames, st.resp_frames,
                      st.checksum_err, st.resync)
BY DEF StatsType, StatsOf

LEMMA CountBytes ==
  ASSUME NEW st \in StatsType, NEW n \in Nat
  PROVE  [st EXCEPT !.bytes_rx = @ + n] =
           StatsOf(st.bytes_rx + n, st.frames_ok, st.req_frames, st.resp_frames,
                   st.checksum_err, st.resync)
BY StatsFields DEF StatsOf, StatsType

LEMMA CountResync ==
  ASSUME NEW st \in StatsType
  PROVE  [st EXCEPT !.resync = @ + 1] =
           StatsOf(st.bytes_rx, st.frames_ok, st.req_frames, st.resp_frames,
                   st.checksum_err, st.resync + 1)
BY StatsFields DEF StatsOf, StatsType

LEMMA CountDamage ==
  ASSUME NEW st \in StatsType
  PROVE  [st EXCEPT !.checksum_err = @ + 1] =
           StatsOf(st.bytes_rx, st.frames_ok, st.req_frames, st.resp_frames,
                   st.checksum_err + 1, st.resync)
BY StatsFields DEF StatsOf, StatsType

LEMMA CountFrame ==
  ASSUME NEW st \in StatsType, NEW isRequest \in BOOLEAN
  PROVE  count_frame(st, isRequest) =
           StatsOf(st.bytes_rx, st.frames_ok + 1,
                   st.req_frames + IF isRequest THEN 1 ELSE 0,
                   st.resp_frames + IF isRequest THEN 0 ELSE 1,
                   st.checksum_err, st.resync)
<1> DEFINE q == st.req_frames + IF isRequest THEN 1 ELSE 0
           p == st.resp_frames + IF isRequest THEN 0 ELSE 1
           k == st.frames_ok + 1
           b == st.bytes_rx
           e == st.checksum_err
           y == st.resync
           u == st.frames_ok
           v == st.req_frames
           w == st.resp_frames
<1>1. count_frame(st, isRequest) =
        [st EXCEPT !.frames_ok = k, !.req_frames = q, !.resp_frames = p]
  BY Zenon DEF count_frame
<1>2. st = StatsOf(b, u, v, w, e, y)
  BY StatsFields
<1> HIDE DEF q, p, k, b, e, y, u, v, w
<1>3. \A s : [s EXCEPT !.frames_ok = k, !.req_frames = q, !.resp_frames = p]
               = [[[s EXCEPT !.frames_ok = k] EXCEPT !.req_frames = q] EXCEPT !.resp_frames = p]
  OBVIOUS
<1>4. [StatsOf(b, u, v, w, e, y) EXCEPT !.frames_ok = k] = StatsOf(b, k, v, w, e, y)
  BY DEF StatsOf
<1>5. [StatsOf(b, k, v, w, e, y) EXCEPT !.req_frames = q] = StatsOf(b, k, q, w, e, y)
  BY DEF StatsOf
<1>6. [StatsOf(b, k, q, w, e, y) EXCEPT !.resp_frames = p] = StatsOf(b, k, q, p, e, y)
  BY DEF StatsOf
<1>7. count_frame(st, isRequest) = StatsOf(b, k, q, p, e, y)
  <2> DEFINE s1 == [st EXCEPT !.frames_ok = k]
             s2 == [s1 EXCEPT !.req_frames = q]
             s3 == [s2 EXCEPT !.resp_frames = p]
  <2>1. count_frame(st, isRequest) = s3
    BY <1>1, <1>3, Zenon
  <2>2. s1 = StatsOf(b, k, v, w, e, y)
    BY <1>2, <1>4, Zenon
  <2> HIDE DEF s1
  <2>3. s2 = StatsOf(b, k, q, w, e, y)
    BY <2>2, <1>5, Zenon
  <2> HIDE DEF s2
  <2>4. s3 = StatsOf(b, k, q, p, e, y)
    BY <2>3, <1>6, Zenon
  <2>5. QED
    BY <2>1, <2>4, Zenon
<1>8. QED
  BY <1>7 DEF q, p, k, b, e, y

StatsInv == stats \in StatsType /\ StatsTellTheStream

\* The responses among one more frame.
LEMMA OneMore ==
  ASSUME NEW S, IsFiniteSet(S), NEW i, i \notin S, NEW T, T \in SUBSET S
  PROVE  /\ IsFiniteSet(T)
         /\ Cardinality(S) \in Nat /\ Cardinality(T) \in Nat
         /\ Cardinality(S \cup {i}) = Cardinality(S) + 1
         /\ Cardinality(T \cup {i}) = Cardinality(T) + 1
<1>1. IsFiniteSet(T)
  BY FS_Subset
<1>2. Cardinality(S) \in Nat /\ Cardinality(T) \in Nat
  BY <1>1, FS_CardinalityType
<1>3. Cardinality(S \cup {i}) = Cardinality(S) + 1
  BY FS_AddElement
<1>4. Cardinality(T \cup {i}) = Cardinality(T) + 1
  BY <1>1, FS_AddElement
<1>5. QED
  BY <1>1, <1>2, <1>3, <1>4

LEMMA StatsInit == Init => StatsInv
<1> SUFFICES ASSUME Init PROVE StatsInv
  OBVIOUS
<1>1. Responses({}) = {} /\ Cardinality({}) = 0
  BY FS_EmptySet DEF Responses
<1>2. stats = StatsOf(0, 0, 0, 0, 0, 0) /\ off = 0 /\ accepted = {}
  BY DEF Init, ZeroStats, StatsOf
<1>3. QED
  BY <1>1, <1>2 DEF StatsInv, StatsTellTheStream, StatsType, StatsOf

LEMMA StatsStep ==
  BufferInv /\ AtInv /\ StatsInv /\ [Next]_vars => StatsInv'
<1> SUFFICES ASSUME BufferInv, AtInv, StatsInv, [Next]_vars PROVE StatsInv'
  OBVIOUS
<1>1. stats \in StatsType /\ stats.bytes_rx = off /\ off \in Nat
  BY DEF StatsInv, StatsTellTheStream, BufferInv
<1>2. stream' = stream
  BY StreamStays
<1>3. Responses(accepted)' = {i \in accepted' : Taken(i).dir = DIR_RESPONSE}
  BY <1>2, SameFrames DEF Responses
<1>4. ASSUME NEW b \in Nat, NEW k \in Nat, NEW q \in Nat, NEW r \in Nat,
             NEW e \in Nat, NEW y \in Nat, stats' = StatsOf(b, k, q, r, e, y), off' = b,
             Cardinality(accepted') = k, Cardinality(Responses(accepted)') = r, q = k - r
      PROVE  StatsInv'
  <2>1. /\ stats'.bytes_rx = b /\ stats'.frames_ok = k /\ stats'.req_frames = q
        /\ stats'.resp_frames = r /\ stats' \in StatsType
    BY <1>4 DEF StatsOf, StatsType
  <2>2. QED
    BY <1>4, <2>1 DEF StatsInv, StatsTellTheStream
<1> DEFINE b == stats.bytes_rx
           k == stats.frames_ok
           q == stats.req_frames
           r == stats.resp_frames
           e == stats.checksum_err
           y == stats.resync
<1>5. /\ b \in Nat /\ k \in Nat /\ q \in Nat /\ r \in Nat /\ e \in Nat /\ y \in Nat
      /\ stats = StatsOf(b, k, q, r, e, y)
  BY <1>1, StatsFields DEF StatsType
<1>6. b = off /\ k = Cardinality(accepted) /\ r = Cardinality(Responses(accepted)) /\ q = k - r
  BY DEF StatsInv, StatsTellTheStream
<1> HIDE DEF b, k, q, r, e, y
<1>7. CASE TakesFrame
  <2> DEFINE f == Taken(At)
             isRequest == f.dir = DIR_REQUEST
  <2>1. /\ accepted' = accepted \cup {At} /\ off' = off
        /\ stats' = count_frame(stats, isRequest)
        /\ f.dir \in {DIR_REQUEST, DIR_RESPONSE}
    BY <1>7 DEF TakesFrame
  <2> HIDE DEF f
  <2>2. At \notin accepted /\ IsFiniteSet(accepted) /\ Responses(accepted) \in SUBSET accepted
    BY AtType DEF AtInv, Responses
  <2>3. /\ Cardinality(accepted') = k + 1
        /\ Cardinality(Responses(accepted)) \in Nat
        /\ Cardinality(Responses(accepted) \cup {At}) = r + 1
    BY <1>6, <2>1, <2>2, OneMore
  <2>4. CASE isRequest
    <3>1. f.dir # DIR_RESPONSE
      BY <2>4 DEF DIR_REQUEST, DIR_RESPONSE
    <3>2. Responses(accepted)' = Responses(accepted)
      BY <1>3, <2>1, <3>1 DEF Responses, f
    <3>3. stats' = StatsOf(b, k + 1, q + 1, r + 0, e, y)
      BY <1>1, <2>1, <2>4, CountFrame DEF b, k, q, r, e, y
    <3>4. r + 0 = r /\ q + 1 = (k + 1) - r /\ k + 1 \in Nat /\ q + 1 \in Nat
      BY <1>5, <1>6
    <3>5. stats' = StatsOf(b, k + 1, q + 1, r, e, y) /\ off' = b
      BY <1>6, <2>1, <3>3, <3>4, Zenon
    <3>6. Cardinality(Responses(accepted)') = r
      BY <1>6, <3>2, Zenon
    <3> HIDE DEF isRequest
    <3>7. QED
      BY <1>4, <1>5, <2>3, <3>4, <3>5, <3>6, Zenon
  <2>5. CASE ~ isRequest
    <3>1. f.dir = DIR_RESPONSE
      BY <2>1, <2>5
    <3>2. Responses(accepted)' = Responses(accepted) \cup {At}
      BY <1>3, <2>1, <3>1 DEF Responses, f
    <3>3. stats' = StatsOf(b, k + 1, q + 0, r + 1, e, y)
      BY <1>1, <2>1, <2>5, CountFrame DEF b, k, q, r, e, y
    <3>4. q + 0 = q /\ q = (k + 1) - (r + 1) /\ k + 1 \in Nat /\ r + 1 \in Nat
      BY <1>5, <1>6
    <3>5. stats' = StatsOf(b, k + 1, q, r + 1, e, y) /\ off' = b
      BY <1>6, <2>1, <3>3, <3>4, Zenon
    <3>6. Cardinality(Responses(accepted)') = r + 1
      BY <2>3, <3>2, Zenon
    <3> HIDE DEF isRequest
    <3>7. QED
      BY <1>4, <1>5, <2>3, <3>4, <3>5, <3>6, Zenon
  <2>6. QED
    BY <2>4, <2>5
<1>8. ASSUME accepted' = accepted
      PROVE  Cardinality(accepted') = k /\ Cardinality(Responses(accepted)') = r
  BY <1>2, <1>3, <1>6, <1>8 DEF Responses
<1>9. CASE FeedBytes \/ ClearCatalog
  <2>1. accepted' = accepted /\ stats' = stats /\ off' = off
    BY <1>9 DEF FeedBytes, ClearCatalog
  <2>2. QED
    BY <1>4, <1>5, <1>6, <1>8, <2>1
<1>10. CASE Passes
  <2>1. /\ Cardinality(accepted') = k /\ Cardinality(Responses(accepted)') = r /\ q = k - r
    BY <1>6, <1>8, <1>10 DEF Passes, told
  <2>2. CASE stats' = stats /\ off' = off
    BY <1>4, <1>5, <1>6, <2>1, <2>2
  <2>3. CASE stats' = [stats EXCEPT !.resync = @ + 1] /\ off' = off
    <3>1. stats' = StatsOf(b, k, q, r, e, y + 1) /\ off' = b /\ y + 1 \in Nat
      BY <1>1, <1>5, <1>6, <2>3, CountResync DEF b, k, q, r, e, y
    <3>2. QED
      BY <1>4, <1>5, <2>1, <3>1, Zenon
  <2>4. CASE stats' = [stats EXCEPT !.checksum_err = @ + 1] /\ off' = off
    <3>1. stats' = StatsOf(b, k, q, r, e + 1, y) /\ off' = b /\ e + 1 \in Nat
      BY <1>1, <1>5, <1>6, <2>4, CountDamage DEF b, k, q, r, e, y
    <3>2. QED
      BY <1>4, <1>5, <2>1, <3>1, Zenon
  <2>5. CASE \E n \in Nat : stats' = [stats EXCEPT !.bytes_rx = @ + n] /\ off' = off + n
    <3>1. PICK n \in Nat : stats' = [stats EXCEPT !.bytes_rx = @ + n] /\ off' = off + n
      BY <2>5
    <3>2. stats' = StatsOf(b + n, k, q, r, e, y) /\ off' = b + n /\ b + n \in Nat
      BY <1>1, <1>5, <1>6, <3>1, CountBytes DEF b, k, q, r, e, y
    <3>3. QED
      BY <1>4, <1>5, <2>1, <3>2, Zenon
  <2>6. QED
    BY <1>10, <2>2, <2>3, <2>4, <2>5, Zenon DEF Passes
<1>11. QED
  BY <1>7, <1>9, <1>10, StepKinds

\* The counters tell the history of the stream, however the consumer cuts it:
\* every byte once, every frame once, as a request or as a response.
THEOREM StatsAreTrue == Spec => []StatsTellTheStream
<1>1. StatsInv => StatsTellTheStream
  BY DEF StatsInv
<1>2. QED
  BY <1>1, BufferInvariant, AtInit, AtStep, StatsInit, StatsStep, PTL DEF Spec
-----------------------------------------------------------------------------
(* The image and the result of a call *)

\* The window whose bytes a frame brings.
LEMMA IngestedWindow ==
  ASSUME NEW i, is_ingested(Taken(i)), Taken(i).payload \in Seq(Byte)
  PROVE  /\ window_of(Taken(i)).reg_base \in Nat
         /\ Len(window_data(Taken(i))) \in Nat
<1> DEFINE f == Taken(i)
           w == window_of(f)
<1>1. is_known_window(f.field_a, f.field_b)
  BY DEF is_ingested
<1>2. w \in KNOWN_WINDOWS
  <2>1. PICK v \in KNOWN_WINDOWS : v.field_a = f.field_a /\ v.field_b = f.field_b
    BY <1>1 DEF is_known_window
  <2>2. QED
    BY <2>1, FindWindow DEF window_of
<1>3. w.reg_base \in Nat /\ w.prefix_len \in Nat
  BY <1>2, WindowType
<1>4. Len(window_data(f)) \in Nat
  <2> DEFINE p == f.payload
             k == w.prefix_len
  <2>1. p \in Seq(Byte) /\ k \in Nat
    BY <1>3
  <2> HIDE DEF p, k
  <2>2. Len(SubSeq(p, k + 1, Len(p))) \in Nat
    BY <2>1
  <2>3. QED
    BY <2>2 DEF window_data, p, k
<1>5. QED
  BY <1>3, <1>4

\* The frame that is taken is later than any that was.
LEMMA LatestFrame ==
  ASSUME BufferInv, AtInv
  PROVE  At \notin accepted /\ \A i \in accepted : i <= At
<1>1. At \in Nat
  BY AtType
<1>2. QED
  BY <1>1 DEF AtInv

\* The registers of the latest frame take its bytes, the others keep theirs.
LEMMA ImageStep ==
  BufferInv /\ AtInv /\ ImageIsLatest /\ [Next]_vars => ImageIsLatest'
<1> SUFFICES ASSUME BufferInv, AtInv, ImageIsLatest, [Next]_vars PROVE ImageIsLatest'
  OBVIOUS
<1>1. stream' = stream
  BY StreamStays
<1>2. /\ \A i : Taken(i)' = Taken(i)
      /\ \A i, r : Carries(i, r)' <=> Carries(i, r)
  BY <1>1, SameFrames
<1>3. ASSUME UNCHANGED <<accepted, image>> PROVE ImageIsLatest'
  BY <1>2, <1>3, Zenon DEF ImageIsLatest
<1>4. CASE TakesFrame
  <2> DEFINE f == Taken(At)
             data == window_data(f)
             at == window_of(f).reg_base
  <2>1. /\ accepted' = accepted \cup {At} /\ f.payload \in Seq(Byte)
        /\ is_ingested(f) => image' = ingest_bytes(image, at, data)
        /\ ~ is_ingested(f) => image' = image
    BY <1>4 DEF TakesFrame
  <2>2. \A r : Carries(At, r) <=> is_ingested(f) /\ r \in at .. at + Len(data) - 1
    BY DEF Carries
  <2>3. At \notin accepted /\ \A i \in accepted : i <= At
    BY LatestFrame
  <2>4. At <= At
    BY AtType
  <2> HIDE DEF f, data, at
  <2>5. SUFFICES ASSUME NEW r \in Registers
                 PROVE  LET by == {i \in accepted' : Carries(i, r)}
                        IN  /\ r \in DOMAIN image' <=> by # {}
                            /\ r \in DOMAIN image' =>
                                 \E i \in by :
                                   /\ \A j \in by : j <= i
                                   /\ image'[r] = window_data(Taken(i))
                                                    [r - window_of(Taken(i)).reg_base + 1]
    BY <1>2, Zenon DEF ImageIsLatest
  <2> DEFINE old == {i \in accepted : Carries(i, r)}
             by  == {i \in accepted' : Carries(i, r)}
  <2>6. /\ r \in DOMAIN image <=> old # {}
        /\ r \in DOMAIN image =>
             \E i \in old :
               /\ \A j \in old : j <= i
               /\ image[r] = window_data(Taken(i))[r - window_of(Taken(i)).reg_base + 1]
    BY Zenon DEF ImageIsLatest
  <2>7. CASE Carries(At, r)
    <3>1. is_ingested(f) /\ r \in at .. at + Len(data) - 1
      BY <2>2, <2>7
    <3>2. r \in (at .. at + Len(data) - 1) \cap Registers
      BY <3>1
    <3>3. /\ r \in DOMAIN image'
          /\ image'[r] = data[r - at + 1]
      BY <2>1, <3>1, <3>2 DEF ingest_bytes
    <3>4. At \in by
      BY <2>1, <2>7
    <3>5. \A j \in by : j <= At
      BY <2>1, <2>3, <2>4
    <3> HIDE DEF by
    <3>6. image'[r] = window_data(Taken(At))[r - window_of(Taken(At)).reg_base + 1]
      BY <3>3, Zenon DEF f, at, data
    <3>7. QED
      BY <3>3, <3>4, <3>5, <3>6, Zenon DEF by
  <2>8. CASE ~ Carries(At, r)
    <3>1. by = old
      BY <2>1, <2>8
    <3>2. (r \in DOMAIN image' <=> r \in DOMAIN image)
          /\ (r \in DOMAIN image => image'[r] = image[r])
      <4>1. CASE is_ingested(f)
        <5>1. r \notin (at .. at + Len(data) - 1) \cap Registers
          BY <2>2, <2>8, <4>1
        <5>2. QED
          BY <2>1, <4>1, <5>1, Zenon DEF ingest_bytes
      <4>2. QED
        BY <2>1, <4>1
    <3> HIDE DEF by, old
    <3>3. QED
      BY <2>6, <3>1, <3>2, Zenon DEF by
  <2>9. QED
    BY <2>7, <2>8
<1>5. CASE FeedBytes \/ ClearCatalog
  BY <1>3, <1>5 DEF FeedBytes, ClearCatalog
<1>6. CASE Passes
  BY <1>3, <1>6 DEF Passes, told
<1>7. QED
  BY <1>4, <1>5, <1>6, StepKinds

\* The image is what the latest response of each register brought, and knows
\* no register that none did: requests, acknowledgements, damaged frames and
\* frames inside others leave it alone.
THEOREM ImageTellsTheLatest == Spec => []ImageIsLatest
<1>1. Init => ImageIsLatest
  BY DEF Init, ImageIsLatest, EmptyImage
<1>2. QED
  BY <1>1, BufferInvariant, AtInit, AtStep, ImageStep, PTL DEF Spec

\* The result of the call so far.
FreshFrames == {i \in accepted : i >= callStart /\ is_ingested(Taken(i))}
Touched(r)  == \E i \in FreshFrames : Carries(i, r)

ResultInv ==
  result = [any_response |-> FreshFrames # {},
            coverage |-> [status_updated    |-> Touched(REG_OPERATING_MODE),
                          telemetry_updated |-> Touched(REG_COMPRESSOR_FREQ)]]

LEMMA ResultStep == BufferInv /\ AtInv /\ ResultInv /\ [Next]_vars => ResultInv'
<1> SUFFICES ASSUME BufferInv, AtInv, ResultInv, [Next]_vars PROVE ResultInv'
  OBVIOUS
<1>1. stream' = stream
  BY StreamStays
<1>2. /\ \A i : Taken(i)' = Taken(i)
      /\ \A i, r : Carries(i, r)' <=> Carries(i, r)
  BY <1>1, SameFrames
<1>3. FreshFrames' = {i \in accepted' : i >= callStart' /\ is_ingested(Taken(i))}
  BY <1>2 DEF FreshFrames
<1>4. \A r : Touched(r)' <=> \E i \in FreshFrames' : Carries(i, r)
  BY <1>2 DEF Touched
<1>5. ASSUME FreshFrames' = FreshFrames, result' = result PROVE ResultInv'
  <2>1. \A r : Touched(r)' <=> Touched(r)
    BY <1>4, <1>5 DEF Touched
  <2>2. QED
    BY <1>5, <2>1 DEF ResultInv
<1>6. ASSUME UNCHANGED <<accepted, callStart, result>> PROVE ResultInv'
  BY <1>3, <1>5, <1>6 DEF FreshFrames
<1>7. CASE TakesFrame
  <2> DEFINE f == Taken(At)
             n == Len(window_data(f))
             at == window_of(f).reg_base
  <2>1. /\ accepted' = accepted \cup {At} /\ callStart' = callStart
        /\ f.payload \in Seq(Byte)
        /\ is_ingested(f) =>
             result' = [any_response |-> TRUE,
                        coverage |-> join_coverage(result.coverage, coverage_of(at, n))]
        /\ ~ is_ingested(f) => result' = result
    BY <1>7 DEF TakesFrame
  <2>2. At >= callStart
    BY AtType DEF AtInv
  <2>3. CASE ~ is_ingested(f)
    <3>1. FreshFrames' = FreshFrames
      BY <1>3, <2>1, <2>3 DEF FreshFrames
    <3>2. QED
      BY <1>5, <2>1, <2>3, <3>1
  <2>4. CASE is_ingested(f)
    <3>1. FreshFrames' = FreshFrames \cup {At}
      BY <1>3, <2>1, <2>2, <2>4 DEF FreshFrames
    <3>2. at \in Nat /\ n \in Nat
      BY <2>1, <2>4, IngestedWindow
    <3>3. \A r : Carries(At, r) <=> r \in at .. at + n - 1
      BY <2>4 DEF Carries
    <3> HIDE DEF at, n, f
    <3>4. \A r \in Registers : Carries(At, r) <=> at <= r /\ r < at + n
      <4> TAKE r \in Registers
      <4>1. r \in Int
        BY ImageAssumption DEF Registers
      <4>2. r \in at .. at + n - 1 <=> at <= r /\ r < at + n
        BY <3>2, <4>1
      <4>3. QED
        BY <3>3, <4>2
    <3>5. \A r \in Registers : Touched(r)' <=> Touched(r) \/ (at <= r /\ r < at + n)
      BY <1>4, <3>1, <3>4 DEF Touched
    <3>6. REG_OPERATING_MODE \in Registers /\ REG_COMPRESSOR_FREQ \in Registers
      BY ImageAssumption
    <3>7. result' = [any_response |-> TRUE,
                     coverage |-> [status_updated    |-> Touched(REG_OPERATING_MODE)',
                                   telemetry_updated |-> Touched(REG_COMPRESSOR_FREQ)']]
      <4>1. /\ result.coverage.status_updated = Touched(REG_OPERATING_MODE)
            /\ result.coverage.telemetry_updated = Touched(REG_COMPRESSOR_FREQ)
        BY Zenon DEF ResultInv
      <4>2. /\ Touched(REG_OPERATING_MODE)' =
                 (Touched(REG_OPERATING_MODE)
                   \/ (at <= REG_OPERATING_MODE /\ REG_OPERATING_MODE < at + n))
            /\ Touched(REG_COMPRESSOR_FREQ)' =
                 (Touched(REG_COMPRESSOR_FREQ)
                   \/ (at <= REG_COMPRESSOR_FREQ /\ REG_COMPRESSOR_FREQ < at + n))
        <5>1. \A r \in Registers :
                Touched(r)' = (Touched(r) \/ (at <= r /\ r < at + n))
          <6> TAKE r \in Registers
          <6>1. Touched(r)' <=> Touched(r) \/ (at <= r /\ r < at + n)
            BY <3>5
          <6>2. QED
            BY <6>1, Zenon DEF Touched
        <5>2. QED
          BY <3>6, <5>1, Zenon
      <4>3. QED
        BY <2>1, <2>4, <4>1, <4>2, Zenon DEF join_coverage, coverage_of
    <3>8. (FreshFrames' # {}) = TRUE
      BY <3>1
    <3>9. QED
      BY <3>7, <3>8, Zenon DEF ResultInv
  <2>5. QED
    BY <2>3, <2>4
<1>8. CASE FeedBytes
  <2>1. accepted' = accepted /\ callStart' = base /\ base = At /\ result' = NoResult
    BY <1>8 DEF FeedBytes, BufferInv, At
  <2>2. FreshFrames' = {}
    <3>1. \A i \in accepted : ~ (i >= callStart')
      BY <2>1, AtType DEF AtInv
    <3>2. QED
      BY <1>3, <2>1, <3>1
  <2>3. \A r : Touched(r)' <=> FALSE
    BY <1>4, <2>2
  <2>4. /\ (FreshFrames' # {}) = FALSE /\ Touched(REG_OPERATING_MODE)' = FALSE
        /\ Touched(REG_COMPRESSOR_FREQ)' = FALSE
    BY <2>2, <2>3
  <2>5. QED
    BY <2>1, <2>4, Zenon DEF ResultInv, NoResult, NoCoverage
<1>9. CASE ClearCatalog
  BY <1>6, <1>9 DEF ClearCatalog
<1>10. CASE Passes
  BY <1>6, <1>10 DEF Passes, told
<1>11. QED
  BY <1>7, <1>8, <1>9, <1>10, StepKinds

\* The result of a call tells exactly the windows that were ingested during it,
\* also when a frame began in an earlier call.
THEOREM ResultIsTrue == Spec => []ResultTellsTheCall
<1>1. Init => ResultInv
  <2> SUFFICES ASSUME Init PROVE ResultInv
    OBVIOUS
  <2>1. FreshFrames = {} /\ result = NoResult
    BY DEF Init, FreshFrames
  <2>2. /\ (FreshFrames # {}) = FALSE /\ Touched(REG_OPERATING_MODE) = FALSE
        /\ Touched(REG_COMPRESSOR_FREQ) = FALSE
    BY <2>1 DEF Touched
  <2>3. QED
    BY <2>1, <2>2, Zenon DEF ResultInv, NoResult, NoCoverage
<1>2. ResultInv => ResultTellsTheCall
  BY Zenon DEF ResultInv, ResultTellsTheCall, FreshFrames, Touched
<1>3. QED
  BY <1>1, <1>2, BufferInvariant, AtInit, AtStep, ResultStep, PTL DEF Spec
-----------------------------------------------------------------------------
(* The catalog *)

\* The decoded responses since the catalog was cleared, and those of a key.
Since == Responses({i \in accepted : i >= clearedAt})
Of(k) == {i \in Since : Key(Taken(i)) = k}

CatalogInv ==
  /\ IsFiniteSet(DOMAIN catalog)
  /\ \A k \in DOMAIN catalog : catalog[k].hits = Cardinality(Of(k)) /\ Of(k) # {}
  /\ \A i \in Since : Key(Taken(i)) \in DOMAIN catalog
                        \/ Cardinality(DOMAIN catalog) = kMax
  /\ Cardinality(DOMAIN catalog) <= kMax

LEMMA CatalogCounted == CatalogInv <=> IsFiniteSet(DOMAIN catalog) /\ CatalogCounts
BY Zenon DEF CatalogInv, CatalogCounts, Since, Of

\* Recording a key gives it an entry, or finds the catalog full.
HasRoom(cat, key) == key \in DOMAIN cat \/ Cardinality(DOMAIN cat) < kMax

RecordedIn(cat, key, new) ==
  /\ DOMAIN new = DOMAIN cat \cup {key}
  /\ new[key].hits = hits_with(cat, key)
  /\ \A k \in DOMAIN cat : k # key => new[k] = cat[k]

LEMMA Recorded ==
  ASSUME NEW cat, NEW key, NEW known, NEW payload
  PROVE  /\ HasRoom(cat, key) => RecordedIn(cat, key, record(cat, key, known, payload))
         /\ ~ HasRoom(cat, key) => record(cat, key, known, payload) = cat
<1> DEFINE entry == [known |-> known, hits |-> hits_with(cat, key),
                     payload |-> Captured(payload)]
           new == record(cat, key, known, payload)
<1>1. HasRoom(cat, key)
        => new = [k \in DOMAIN cat \cup {key} |-> IF k = key THEN entry ELSE cat[k]]
  BY Zenon DEF record, HasRoom
<1>2. ~ HasRoom(cat, key) => new = cat
  BY Zenon DEF record, HasRoom
<1>3. entry.hits = hits_with(cat, key)
  OBVIOUS
<1> HIDE DEF new, entry
<1>4. HasRoom(cat, key) => /\ DOMAIN new = DOMAIN cat \cup {key}
                           /\ new[key] = entry
                           /\ \A k \in DOMAIN cat : k # key => new[k] = cat[k]
  BY <1>1
<1>5. QED
  BY <1>2, <1>3, <1>4, Zenon DEF new, RecordedIn

\* One more response of a key is one more in its count.
LEMMA CatalogStep ==
  BufferInv /\ AtInv /\ CatalogInv /\ [Next]_vars => CatalogInv'
<1> SUFFICES ASSUME BufferInv, AtInv, CatalogInv, [Next]_vars PROVE CatalogInv'
  OBVIOUS
<1>1. stream' = stream
  BY StreamStays
<1>2. \A i : Taken(i)' = Taken(i)
  BY <1>1, SameFrames
<1>3. Since' = {i \in accepted' : i >= clearedAt' /\ Taken(i).dir = DIR_RESPONSE}
  BY <1>2 DEF Since, Responses
<1>4. Since = {i \in accepted : i >= clearedAt /\ Taken(i).dir = DIR_RESPONSE}
  BY DEF Since, Responses
<1>5. ASSUME NEW k PROVE Of(k)' = {i \in Since' : Key(Taken(i)) = k}
  BY <1>2 DEF Of, Key
<1>6. ASSUME Since' = Since, catalog' = catalog PROVE CatalogInv'
  <2>1. \A k : Of(k)' = Of(k)
    BY <1>5, <1>6 DEF Of
  <2>2. \A i : Key(Taken(i))' = Key(Taken(i))
    BY <1>2 DEF Key
  <2>3. QED
    BY <1>6, <2>1, <2>2, Zenon DEF CatalogInv
<1>7. ASSUME UNCHANGED <<accepted, clearedAt, catalog>> PROVE CatalogInv'
  <2>1. Since' = Since
    BY <1>3, <1>4, <1>7
  <2>2. QED
    BY <1>6, <1>7, <2>1
<1>8. CASE TakesFrame
  <2> DEFINE f == Taken(At)
             key == Key(f)
  <2>1. /\ accepted' = accepted \cup {At} /\ clearedAt' = clearedAt
        /\ f.dir = DIR_RESPONSE => catalog' = record(catalog, key, TRUE, f.payload)
        /\ f.dir # DIR_RESPONSE => catalog' = catalog
    BY <1>8 DEF TakesFrame
  <2>2. At >= clearedAt /\ At \notin accepted
    BY AtType DEF AtInv
  <2>3. CASE f.dir # DIR_RESPONSE
    <3>1. Since' = Since
      BY <1>3, <1>4, <2>1, <2>3
    <3>2. QED
      BY <1>6, <2>1, <2>3, <3>1
  <2>4. CASE f.dir = DIR_RESPONSE
    <3>0. PICK k0 : k0 = key
      OBVIOUS
    <3>1. Since' = Since \cup {At} /\ At \notin Since
      BY <1>3, <1>4, <2>1, <2>2, <2>4
    <3>2. \A k : k # k0 => Of(k)' = Of(k)
      <4> TAKE k
      <4> HAVE k # k0
      <4>1. Of(k)' = {i \in Since' : Key(Taken(i)) = k} /\ Key(Taken(At)) # k
        BY <1>5, <3>0
      <4>2. QED
        BY <3>1, <4>1 DEF Of
    <3>3. Of(k0)' = Of(k0) \cup {At}
      <4>1. Of(k0)' = {i \in Since' : Key(Taken(i)) = k0} /\ Key(Taken(At)) = k0
        BY <1>5, <3>0
      <4>2. QED
        BY <3>1, <4>1 DEF Of
    <3>4. /\ Cardinality(Of(k0)) \in Nat
          /\ Cardinality(Of(k0) \cup {At}) = Cardinality(Of(k0)) + 1
      <4>1. Of(k0) \in SUBSET accepted /\ IsFiniteSet(accepted)
        BY <1>4 DEF Of, AtInv
      <4>2. QED
        BY <2>2, <4>1, OneMore
    <3>5. /\ HasRoom(catalog, k0) => RecordedIn(catalog, k0, catalog')
          /\ ~ HasRoom(catalog, k0) => catalog' = catalog
      <4>1. catalog' = record(catalog, k0, TRUE, f.payload)
        BY <2>1, <2>4, <3>0
      <4>2. \A payload :
              /\ HasRoom(catalog, k0)
                   => RecordedIn(catalog, k0, record(catalog, k0, TRUE, payload))
              /\ ~ HasRoom(catalog, k0) => record(catalog, k0, TRUE, payload) = catalog
        BY Recorded
      <4>3. QED
        BY <4>1, <4>2, Zenon
    <3>6. \A i \in Since' : i \in Since \/ i = At
      BY <3>1
    <3>7. /\ Cardinality(DOMAIN catalog) \in Nat /\ kMax \in Nat
          /\ Cardinality(DOMAIN catalog) <= kMax /\ IsFiniteSet(DOMAIN catalog)
      BY FS_CardinalityType, CatalogAssumption DEF CatalogInv
    <3>8. \A i : Key(Taken(i))' = Key(Taken(i))
      BY <1>2 DEF Key
    <3>9. k0 = Key(Taken(At))
      BY <3>0
    <3> HIDE DEF f, key
    <3>10. CASE k0 \in DOMAIN catalog
      <4>1. /\ DOMAIN catalog' = DOMAIN catalog
            /\ catalog'[k0].hits = 1 + catalog[k0].hits
            /\ \A k \in DOMAIN catalog : k # k0 => catalog'[k] = catalog[k]
        BY <3>5, <3>10 DEF hits_with, HasRoom, RecordedIn
      <4>2. catalog[k0].hits = Cardinality(Of(k0))
        BY <3>10 DEF CatalogInv
      <4>3. catalog'[k0].hits = Cardinality(Of(k0)') /\ Of(k0)' # {}
        BY <3>3, <3>4, <4>1, <4>2
      <4>4. \A k \in DOMAIN catalog' : catalog'[k].hits = Cardinality(Of(k)') /\ Of(k)' # {}
        <5> TAKE k \in DOMAIN catalog'
        <5>1. CASE k = k0
          BY <4>3, <5>1
        <5>2. CASE k # k0
          <6>1. /\ k \in DOMAIN catalog /\ catalog'[k] = catalog[k] /\ Of(k)' = Of(k)
            BY <3>2, <4>1, <5>2
          <6>2. QED
            BY <6>1, Zenon DEF CatalogInv
        <5>3. QED
          BY <5>1, <5>2
      <4>5. \A i \in Since' : Key(Taken(i))' \in DOMAIN catalog'
                                \/ Cardinality(DOMAIN catalog') = kMax
        <5> TAKE i \in Since'
        <5>1. CASE i = At
          BY <3>8, <3>9, <3>10, <4>1, <5>1, Zenon
        <5>2. CASE i \in Since
          BY <3>8, <4>1, <5>2, Zenon DEF CatalogInv
        <5>3. QED
          BY <3>6, <5>1, <5>2
      <4>6. QED
        BY <3>7, <4>1, <4>4, <4>5, Zenon DEF CatalogInv
    <3>11. CASE k0 \notin DOMAIN catalog /\ Cardinality(DOMAIN catalog) < kMax
      <4>1. /\ DOMAIN catalog' = DOMAIN catalog \cup {k0}
            /\ catalog'[k0].hits = 1
            /\ \A k \in DOMAIN catalog : k # k0 => catalog'[k] = catalog[k]
        BY <3>5, <3>11 DEF hits_with, HasRoom, RecordedIn
      <4>2. Of(k0) = {}
        <5>1. \A i \in Since : Key(Taken(i)) # k0
          <6> TAKE i \in Since
          <6>1. Key(Taken(i)) \in DOMAIN catalog \/ Cardinality(DOMAIN catalog) = kMax
            BY DEF CatalogInv
          <6>2. QED
            BY <3>7, <3>11, <6>1
        <5>2. QED
          BY <5>1 DEF Of
      <4>3. catalog'[k0].hits = Cardinality(Of(k0)') /\ Of(k0)' # {}
        <5>1. Cardinality(Of(k0)) = 0
          BY <4>2, FS_EmptySet
        <5>2. Cardinality(Of(k0)') = 1
          BY <3>3, <3>4, <5>1
        <5>3. QED
          BY <3>3, <4>1, <5>2
      <4>4. \A k \in DOMAIN catalog' : catalog'[k].hits = Cardinality(Of(k)') /\ Of(k)' # {}
        <5> TAKE k \in DOMAIN catalog'
        <5>1. CASE k = k0
          BY <4>3, <5>1
        <5>2. CASE k # k0
          <6>1. /\ k \in DOMAIN catalog /\ catalog'[k] = catalog[k] /\ Of(k)' = Of(k)
            BY <3>2, <4>1, <5>2
          <6>2. QED
            BY <6>1, Zenon DEF CatalogInv
        <5>3. QED
          BY <5>1, <5>2
      <4>5. /\ IsFiniteSet(DOMAIN catalog')
            /\ Cardinality(DOMAIN catalog') = Cardinality(DOMAIN catalog) + 1
        BY <3>7, <3>11, <4>1, FS_AddElement
      <4>6. \A i \in Since' : Key(Taken(i))' \in DOMAIN catalog'
        <5> TAKE i \in Since'
        <5>1. CASE i = At
          BY <3>8, <3>9, <4>1, <5>1
        <5>2. CASE i \in Since
          <6>1. Key(Taken(i)) \in DOMAIN catalog \/ Cardinality(DOMAIN catalog) = kMax
            BY <5>2 DEF CatalogInv
          <6>2. Key(Taken(i)) \in DOMAIN catalog
            BY <3>7, <3>11, <6>1
          <6>3. QED
            BY <3>8, <4>1, <6>2
        <5>3. QED
          BY <3>6, <5>1, <5>2
      <4>7. Cardinality(DOMAIN catalog') <= kMax
        BY <3>7, <3>11, <4>5
      <4>8. QED
        BY <4>4, <4>5, <4>6, <4>7, Zenon DEF CatalogInv
    <3>12. CASE k0 \notin DOMAIN catalog /\ ~ (Cardinality(DOMAIN catalog) < kMax)
      <4>1. catalog' = catalog /\ Cardinality(DOMAIN catalog) = kMax
        BY <3>5, <3>7, <3>12 DEF HasRoom
      <4>2. \A k \in DOMAIN catalog' : Of(k)' = Of(k)
        BY <3>2, <3>12, <4>1
      <4>3. QED
        BY <4>1, <4>2, Zenon DEF CatalogInv
    <3>13. QED
      BY <3>10, <3>11, <3>12
  <2>5. QED
    BY <2>3, <2>4
<1>9. CASE ClearCatalog
  <2>1. accepted' = accepted /\ catalog' = EmptyCatalog /\ clearedAt' = At
    BY <1>9 DEF ClearCatalog, BufferInv, At
  <2>2. \A i \in accepted : ~ (i >= clearedAt')
    BY <2>1, AtType DEF AtInv
  <2>3. Since' = {}
    BY <1>3, <2>1, <2>2
  <2>4. DOMAIN catalog' = {}
    BY <2>1 DEF EmptyCatalog
  <2>5. IsFiniteSet({}) /\ Cardinality({}) = 0 /\ 0 <= kMax
    BY FS_EmptySet, CatalogAssumption
  <2>6. QED
    BY <2>3, <2>4, <2>5 DEF CatalogInv
<1>10. CASE FeedBytes
  BY <1>7, <1>10 DEF FeedBytes
<1>11. CASE Passes
  BY <1>7, <1>11 DEF Passes, told
<1>12. QED
  BY <1>8, <1>9, <1>10, <1>11, StepKinds

LEMMA CatalogInit == Init => CatalogInv
<1> SUFFICES ASSUME Init PROVE CatalogInv
  OBVIOUS
<1>1. DOMAIN catalog = {} /\ Since = {}
  BY DEF Init, EmptyCatalog, Since, Responses
<1>2. IsFiniteSet({}) /\ Cardinality({}) = 0 /\ 0 <= kMax
  BY FS_EmptySet, CatalogAssumption
<1>3. QED
  BY <1>1, <1>2 DEF CatalogInv

\* The catalog counts every decoded response since it was cleared, under its
\* own key, and is never fuller than it may be; only a key for which there was
\* no room is missing.
THEOREM CatalogIsTrue == Spec => []CatalogCounts
<1>1. CatalogInv => CatalogCounts
  BY CatalogCounted
<1>2. QED
  BY <1>1, BufferInvariant, AtInit, AtStep, CatalogInit, CatalogStep, PTL DEF Spec
-----------------------------------------------------------------------------
(* Types *)

\* What no other invariant says of the types.
RestOfTypes ==
  /\ stream \in Streams
  /\ resets \in 0 .. MaxResets
  /\ dropped \subseteq Nat
  /\ making_room \in BOOLEAN

LEMMA RestOfTypesStep == BufferInv /\ RestOfTypes /\ [Next]_vars => RestOfTypes'
<1> SUFFICES ASSUME BufferInv, RestOfTypes, [Next]_vars PROVE RestOfTypes'
  OBVIOUS
<1>0. making_room' \in BOOLEAN
  BY Zenon DEF RestOfTypes, Next, Step, FeedBytes, TakeBytes, DrainDone, DropJunk, Resync,
     AcceptFrame, AwaitMore, RejectFrame, Compact, ResetBuffer, ClearCatalog, vars, history
<1>1. stream' \in Streams
  BY StreamStays DEF RestOfTypes
<1>2. base \in Nat /\ Len(acc) \in Nat
  BY RestIsPiece DEF BufferInv, RestFacts
<1>3. (base .. base + Len(acc) - 1) \subseteq Nat
  BY <1>2
<1>4. ASSUME UNCHANGED <<resets, dropped>> PROVE RestOfTypes'
  BY <1>0, <1>1, <1>4 DEF RestOfTypes
<1>5. CASE ResetBuffer
  <2>1. resets' = resets + 1 /\ resets < MaxResets
        /\ dropped' = dropped \cup (base .. base + Len(acc) - 1)
    BY <1>5 DEF ResetBuffer
  <2>2. resets' \in 0 .. MaxResets
    BY <2>1, ListenerAssumption DEF RestOfTypes
  <2>3. QED
    BY <1>0, <1>1, <1>3, <2>1, <2>2 DEF RestOfTypes
<1>6. CASE Compact
  <2>1. resets' = resets /\ (dropped' = dropped \/ dropped' = dropped \cup (base .. base + Len(acc) - 1))
    BY <1>6 DEF Compact
  <2>2. QED
    BY <1>0, <1>1, <1>3, <2>1 DEF RestOfTypes
<1>7. CASE FeedBytes \/ ClearCatalog
  BY <1>4, <1>7 DEF FeedBytes, ClearCatalog
<1>8. CASE TakeBytes \/ DrainDone \/ DropJunk \/ Resync \/ AcceptFrame \/ AwaitMore
             \/ RejectFrame
  BY <1>4, <1>8, Zenon
  DEF TakeBytes, DrainDone, DropJunk, Resync, AcceptFrame, AwaitMore, RejectFrame, history
<1>9. CASE UNCHANGED vars
  BY <1>4, <1>9 DEF vars, history
<1>10. QED
  BY <1>5, <1>6, <1>7, <1>8, <1>9 DEF Next, Step

\* Offsets, accumulator and counters keep their types and bounds.
THEOREM TypesOfListener == Spec => []TypeOK
<1>1. Init => RestOfTypes
  <2>1. Init => making_room \in BOOLEAN
    BY Zenon DEF Init
  <2>2. QED
    BY <2>1, ListenerAssumption DEF Init, RestOfTypes
<1>2. BufferInv /\ AtInv /\ StatsInv /\ RestOfTypes => TypeOK
  <2> SUFFICES ASSUME BufferInv, AtInv, StatsInv, RestOfTypes PROVE TypeOK
    OBVIOUS
  <2>1. /\ base \in Nat /\ off \in Nat /\ lim \in Nat /\ consumed \in Nat
        /\ off <= lim /\ lim <= Len(stream) /\ Len(stream) \in Nat
        /\ acc \in Seq(Byte) /\ Len(acc) = off - base /\ Len(acc) <= kAccSize
        /\ base + consumed <= off
    BY RestIsPiece DEF BufferInv, RestFacts
  <2>2. /\ off \in 0 .. Len(stream) /\ lim \in off .. Len(stream)
        /\ consumed \in 0 .. Len(acc)
    BY <2>1
  <2>3. stats \in [DOMAIN ZeroStats -> Nat]
    BY DEF StatsInv, StatsType, ZeroStats
  <2>5. accepted \subseteq Nat /\ callStart \in Nat /\ clearedAt \in Nat
    BY DEF AtInv
  <2>6. QED
    BY <2>1, <2>2, <2>3, <2>5 DEF TypeOK, RestOfTypes, BufferInv
<1>3. QED
  BY <1>1, <1>2, BufferInvariant, AtInit, AtStep, StatsInit, StatsStep, RestOfTypesStep,
     PTL DEF Spec
=============================================================================
