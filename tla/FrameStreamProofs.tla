-------------------------- MODULE FrameStreamProofs --------------------------
(***************************************************************************)
(* What the left-to-right reading of a stream achieves, for every stream   *)
(* and every way its bytes arrive: no intact frame is lost and none is     *)
(* made up.                                                                *)
(***************************************************************************)
EXTENDS FrameStream, WireProofs

\* The frame seen so far is the front of the frame of the whole stream.
LEMMA FrameGrows ==
  ASSUME stream \in Seq(Byte), avail \in 0 .. Len(stream), NEW p \in 0 .. avail
  PROVE  /\ From(p) \in Seq(Byte) /\ Len(From(p)) = avail - p
         /\ SubSeq(stream, avail + 1, Len(stream)) \in Seq(Byte)
         /\ FrameAt(p) = From(p) \o SubSeq(stream, avail + 1, Len(stream))
<1>1. From(p) \in Seq(Byte) /\ Len(From(p)) = avail - p
  BY SubSeqProperties DEF From
<1>2. SubSeq(stream, avail + 1, Len(stream)) \in Seq(Byte)
  BY SubSeqProperties
<1>3. FrameAt(p) = From(p) \o SubSeq(stream, avail + 1, Len(stream))
  <2>1. p + 1 \in 1 .. Len(stream) + 1 /\ avail \in (p + 1) - 1 .. Len(stream)
        /\ Len(stream) \in avail .. Len(stream)
    OBVIOUS
  <2>2. QED
    BY <2>1, ConcatAdjacentSubSeq DEF From, FrameAt
<1>4. QED
  BY <1>1, <1>2, <1>3

\* A header at the position is one of the stream, and its verdict, once there
\* is one, is that of the whole stream.
LEMMA VerdictAtPosition ==
  ASSUME stream \in Seq(Byte), avail \in 0 .. Len(stream), pos \in 0 .. avail,
         HeadReceived
  PROVE  /\ pos + HDR_LEN <= avail
         /\ plausible_header(stream, pos)
         /\ parse_frame(From(pos)) \in {"OK", "TRUNCATED", "BAD_CHECKSUM", "BAD_DIR"}
         /\ parse_frame(From(pos)) = "OK"
              => declared_len(From(pos)) \in MIN_FRAME_LEN .. avail - pos
         /\ parse_frame(From(pos)) # "TRUNCATED"
              => /\ parse_frame(FrameAt(pos)) = parse_frame(From(pos))
                 /\ declared_len(FrameAt(pos)) = declared_len(From(pos))
<1> DEFINE f == From(pos)
<1>0. pos \in Nat /\ avail \in Nat /\ pos <= avail /\ avail <= Len(stream)
  OBVIOUS
<1>1. pos + HDR_LEN <= avail
  <2>1. Len(SubSeq(stream, 1, avail)) = avail
    BY <1>0, SubSeqProperties
  <2>2. QED
    BY <2>1 DEF HeadReceived, plausible_header, has_magic
<1>2. plausible_header(stream, pos)
  <2>1. 0 + pos + HDR_LEN <= avail /\ 0 + 1 = 1 /\ 0 + pos = pos
    BY <1>0, <1>1 DEF HDR_LEN
  <2>2. plausible_header(SubSeq(stream, 0 + 1, avail), pos)
          <=> plausible_header(stream, 0 + pos)
    BY <1>0, <2>1, HeaderOfPiece
  <2>3. QED
    BY <2>1, <2>2 DEF HeadReceived
<1>3. plausible_header(f, 0)
  <2>1. pos + 0 + HDR_LEN <= avail /\ pos + 0 = pos
    BY <1>0, <1>1 DEF HDR_LEN
  <2>2. plausible_header(SubSeq(stream, pos + 1, avail), 0)
          <=> plausible_header(stream, pos + 0)
    BY <1>0, <2>1, HeaderOfPiece
  <2>3. QED
    BY <1>2, <2>1, <2>2 DEF From
<1>4. f \in Seq(Byte) /\ Len(f) = avail - pos
  BY <1>0, SubSeqProperties DEF From
<1>5. /\ parse_frame(f) \in {"OK", "TRUNCATED", "BAD_CHECKSUM", "BAD_DIR"}
      /\ parse_frame(f) = "OK" => declared_len(f) \in MIN_FRAME_LEN .. avail - pos
  <2> HIDE DEF f
  <2>1. QED
    BY <1>3, <1>4, ParseAtHeader
<1>6. parse_frame(f) # "TRUNCATED"
        => /\ parse_frame(FrameAt(pos)) = parse_frame(f)
           /\ declared_len(FrameAt(pos)) = declared_len(f)
  BY FrameGrows, ParseOfExtension
<1>7. QED
  BY <1>1, <1>2, <1>5, <1>6
-----------------------------------------------------------------------------
\* The frames taken end before the position: the next cannot overlap them.
Ends == \A i \in accepted : /\ i \in Nat
                             /\ i < pos
                             /\ i + declared_len(FrameAt(i)) <= pos

ReadInv ==
  /\ stream \in Seq(Byte)
  /\ avail \in 0 .. Len(stream)
  /\ pos \in 0 .. avail
  /\ Ends
  /\ IntactFrameTaken
  /\ TakenFramesIntact

\* Nothing is read yet.
LEMMA ReadInit == Init => ReadInv
  BY DEF Init, ReadInv, Ends, IntactFrameTaken, TakenFramesIntact

\* A frame taken has a length.
LEMMA TakenLength ==
  ASSUME stream \in Seq(Byte), Ends, TakenFramesIntact, NEW i \in accepted
  PROVE  declared_len(FrameAt(i)) \in Nat
<1>1. i \in Nat /\ Intact(i)
  BY DEF Ends, TakenFramesIntact
<1>2. i + HDR_LEN <= Len(stream)
  BY <1>1 DEF Intact, plausible_header, has_magic
<1>3. FrameAt(i) \in Seq(Byte) /\ Len(FrameAt(i)) >= HDR_LEN
  BY <1>1, <1>2, SubSeqProperties DEF FrameAt, HDR_LEN
<1>4. QED
  BY <1>3, DeclaredLength, MaxFrameAssumption

\* Each step of the reading keeps its promise.
LEMMA ReadStep == ReadInv /\ [Next]_vars => ReadInv'
<1> SUFFICES ASSUME ReadInv, [Next]_vars PROVE ReadInv'
  OBVIOUS
<1>0. /\ stream \in Seq(Byte) /\ avail \in 0 .. Len(stream) /\ pos \in 0 .. avail
      /\ pos \in Nat /\ avail \in Nat /\ avail <= Len(stream) /\ pos <= avail
  BY DEF ReadInv
<1>i. Ends /\ IntactFrameTaken /\ TakenFramesIntact
  BY DEF ReadInv
<1>s. ASSUME stream' = stream
      PROVE  \A i : /\ FrameAt(i)' = FrameAt(i)
                    /\ Intact(i)' <=> Intact(i)
                    /\ Covered(i)' <=> Covered(i)
  BY <1>s DEF FrameAt, Intact, Covered
<1>1. CASE Arrive
  <2>1. stream' = stream /\ pos' = pos /\ accepted' = accepted /\ dropped' = dropped
        /\ avail' \in 0 .. Len(stream) /\ avail <= avail'
    BY <1>0, <1>i, <1>1 DEF Arrive
  <2>2. QED
    BY <1>0, <1>i, <1>s, <2>1 DEF ReadInv, Ends, IntactFrameTaken, TakenFramesIntact
<1>2. CASE SkipJunk
  <2>1. stream' = stream /\ avail' = avail /\ accepted' = accepted /\ dropped' = dropped
        /\ pos' \in pos + 1 .. avail
    BY <1>2 DEF SkipJunk
  <2>j. \A i \in pos .. pos' - 1 : ~ plausible_header(stream, i)
    BY <1>2 DEF SkipJunk
  <2>p. pos' \in Nat /\ pos < pos' /\ pos' <= avail
    BY <1>0, <2>1
  <2>2. IntactFrameTaken'
    <3>1. \A i \in pos .. pos' - 1 : ~ Intact(i)
      BY <2>j DEF Intact
    <3>2. \A i \in 0 .. pos' - 1 : i \in 0 .. pos - 1 \/ i \in pos .. pos' - 1
      <4>1. \A q \in Nat : \A i \in 0 .. q - 1 : i \in 0 .. pos - 1 \/ i \in pos .. q - 1
        BY <1>0
      <4>2. QED
        BY <2>p, <4>1
    <3>3. QED
      BY <1>0, <1>i, <1>s, <2>1, <3>1, <3>2 DEF IntactFrameTaken
  <2>3. TakenFramesIntact'
    BY <1>0, <1>i, <1>s, <2>1 DEF TakenFramesIntact
  <2>4. Ends'
    BY <1>0, <1>i, <1>s, <2>1, <2>p, TakenLength DEF Ends
  <2>5. QED
    BY <1>0, <1>i, <2>1, <2>2, <2>3, <2>4 DEF ReadInv
<1>3. CASE Accept
  <2> DEFINE n == declared_len(From(pos))
  <2>1. /\ stream' = stream /\ avail' = avail /\ dropped' = dropped
        /\ accepted' = accepted \cup {pos} /\ pos' = pos + n
        /\ HeadReceived /\ parse_frame(From(pos)) \in {"OK", "UNKNOWN_WINDOW"}
    BY <1>3 DEF Accept
  <2>2. /\ plausible_header(stream, pos)
        /\ n \in MIN_FRAME_LEN .. avail - pos
        /\ parse_frame(FrameAt(pos)) = "OK" /\ declared_len(FrameAt(pos)) = n
    BY <1>0, <1>i, <2>1, VerdictAtPosition
  <2> HIDE DEF n
  <2>3. n \in Nat /\ n > 0 /\ pos + n <= avail /\ Intact(pos)
    BY <1>0, <1>i, <2>2 DEF Intact, MIN_FRAME_LEN, HDR_LEN, CHK_LEN
  <2>4. \A i \in pos + 1 .. pos + n - 1 : Covered(i)
    <3> TAKE i \in pos + 1 .. pos + n - 1
    <3>1. pos \in 0 .. i - 1 /\ i < pos + declared_len(FrameAt(pos))
      BY <1>0, <1>i, <2>2, <2>3
    <3>2. QED
      BY <2>2, <3>1 DEF Covered
  <2>5. IntactFrameTaken'
    <3>1. \A i \in 0 .. pos' - 1 : i \in 0 .. pos - 1 \/ i = pos \/ i \in pos + 1 .. pos + n - 1
      BY <1>0, <1>i, <2>1, <2>3
    <3>2. QED
      BY <1>0, <1>i, <1>s, <2>1, <2>4, <3>1 DEF IntactFrameTaken
  <2>6. Ends'
    <3> SUFFICES ASSUME NEW i \in accepted'
                 PROVE  i \in Nat /\ i < pos' /\ i + declared_len(FrameAt(i)) <= pos'
      BY <1>s, <2>1 DEF Ends
    <3>1. CASE i = pos
      BY <1>0, <1>i, <2>1, <2>2, <2>3, <3>1
    <3>2. CASE i \in accepted
      <4>1. i \in Nat /\ i < pos /\ i + declared_len(FrameAt(i)) <= pos
        BY <1>i, <3>2 DEF Ends
      <4>2. pos <= pos' /\ pos' \in Nat
        BY <1>0, <1>i, <2>1, <2>3
      <4>3. declared_len(FrameAt(i)) \in Nat
        BY <1>0, <1>i, <3>2, TakenLength
      <4>4. QED
        BY <1>0, <1>i, <4>1, <4>2, <4>3
    <3>3. QED
      BY <2>1, <3>1, <3>2
  <2>7. TakenFramesIntact'
    <3> SUFFICES ASSUME NEW i \in accepted'
                 PROVE  /\ Intact(i)
                        /\ \A j \in accepted' : i < j => i + declared_len(FrameAt(i)) <= j
      BY <1>s, <2>1 DEF TakenFramesIntact
    <3>1. Intact(i)
      BY <1>0, <1>i, <2>1, <2>3 DEF TakenFramesIntact
    <3>2. ASSUME NEW j \in accepted', i < j
          PROVE  i + declared_len(FrameAt(i)) <= j
      <4>1. i \in accepted
        BY <1>0, <1>i, <2>1, <3>2 DEF Ends
      <4>2. CASE j = pos
        BY <1>0, <1>i, <4>1, <4>2 DEF Ends
      <4>3. CASE j \in accepted
        BY <1>0, <1>i, <3>2, <4>1, <4>3 DEF TakenFramesIntact
      <4>4. QED
        BY <2>1, <4>2, <4>3
    <3>3. QED
      BY <3>1, <3>2
  <2>8. pos' \in 0 .. avail
    BY <1>0, <1>i, <2>1, <2>3
  <2>9. QED
    BY <1>0, <1>i, <2>1, <2>5, <2>6, <2>7, <2>8 DEF ReadInv
<1>4. CASE Reject
  <2>1. /\ stream' = stream /\ avail' = avail /\ dropped' = dropped
        /\ accepted' = accepted /\ pos' \in {pos + 1, pos + 2}
        /\ HeadReceived /\ parse_frame(From(pos)) \in {"BAD_CHECKSUM", "BAD_DIR"}
    BY <1>4 DEF Reject
  <2>2. /\ pos + HDR_LEN <= avail
        /\ plausible_header(stream, pos)
        /\ parse_frame(FrameAt(pos)) = parse_frame(From(pos))
    BY <1>0, <1>i, <2>1, VerdictAtPosition
  <2>3. ~ Intact(pos)
    BY <2>1, <2>2 DEF Intact
  <2>4. ~ Intact(pos + 1)
    <3>1. stream[pos + 2] = HDR1 /\ (pos + 1) + 1 = pos + 2
      BY <1>0, <1>i, <2>2 DEF plausible_header, has_magic
    <3>2. QED
      BY <3>1 DEF Intact, plausible_header, has_magic, HDR0, HDR1
  <2>5. IntactFrameTaken'
    <3>1. \A i \in 0 .. pos' - 1 : i \in 0 .. pos - 1 \/ i = pos \/ i = pos + 1
      <4>1. pos' = pos + 1 \/ pos' = pos + 2
        BY <2>1
      <4>2. QED
        BY <1>0, <4>1
    <3>2. QED
      BY <1>0, <1>i, <1>s, <2>1, <2>3, <2>4, <3>1 DEF IntactFrameTaken
  <2>6. TakenFramesIntact'
    BY <1>0, <1>i, <1>s, <2>1 DEF TakenFramesIntact
  <2>7. pos' \in 0 .. avail /\ pos <= pos'
    BY <1>0, <2>1, <2>2 DEF HDR_LEN
  <2>8. Ends'
    BY <1>0, <1>i, <1>s, <2>1, <2>7, TakenLength DEF Ends
  <2>9. QED
    BY <1>0, <2>1, <2>5, <2>6, <2>7, <2>8 DEF ReadInv
<1>5. CASE Reset
  <2>1. /\ stream' = stream /\ avail' = avail /\ accepted' = accepted /\ pos' = avail
        /\ dropped' = dropped \cup (pos .. avail - 1)
    BY <1>5 DEF Reset
  <2>2. IntactFrameTaken'
    <3>1. \A i \in 0 .. pos' - 1 : i \in 0 .. pos - 1 \/ i \in dropped'
      BY <1>0, <1>i, <2>1
    <3>2. QED
      BY <1>0, <1>i, <1>s, <2>1, <3>1 DEF IntactFrameTaken
  <2>3. TakenFramesIntact'
    BY <1>0, <1>i, <1>s, <2>1 DEF TakenFramesIntact
  <2>4. Ends'
    BY <1>0, <1>i, <1>s, <2>1, TakenLength DEF Ends
  <2>5. QED
    BY <1>0, <2>1, <2>2, <2>3, <2>4 DEF ReadInv
<1>6. CASE UNCHANGED vars
  BY <1>6, <1>s, <1>0, <1>i DEF vars, Ends, ReadInv, IntactFrameTaken, TakenFramesIntact
<1>7. QED
  BY <1>1, <1>2, <1>3, <1>4, <1>5, <1>6 DEF Next

\* The receiver keeps to its promise: no intact frame it passed is missed.
THEOREM NothingMissed == Spec => []IntactFrameTaken
<1>1. ReadInv => IntactFrameTaken
  BY DEF ReadInv
<1>2. QED
  BY <1>1, ReadInit, ReadStep, PTL DEF Spec

\* What the receiver takes was sent: every taken frame is intact, and no byte
\* belongs to two of them.
THEOREM NothingMadeUp == Spec => []TakenFramesIntact
<1>1. ReadInv => TakenFramesIntact
  BY DEF ReadInv
<1>2. QED
  BY <1>1, ReadInit, ReadStep, PTL DEF Spec
=============================================================================
