-------------------------- MODULE MaconMasterProofs --------------------------
(***************************************************************************)
(* The polls and the preflight of MaconMaster for every window table,      *)
(* accumulator, bus, clock and way the transport cuts its bytes.           *)
(***************************************************************************)
EXTENDS MaconMaster, WireProofs, FiniteSetTheorems

\* The codec of the stream's definitions is the master's.
LEMMA SameCodec ==
  /\ \A b, i : FS!plausible_header(b, i) = plausible_header(b, i)
  /\ \A b : FS!parse_frame(b) = parse_frame(b)
  /\ FS!Byte = Byte
<1> USE DEF FS!HDR0, FS!HDR1, FS!DIR_REQUEST, FS!DIR_RESPONSE, FS!FC_READ, FS!FC_CMD,
            FS!HDR_LEN, FS!CHK_LEN, FS!MIN_FRAME_LEN, FS!U16, FS!FieldA, FS!FieldB,
            FS!is_known_window, FS!header_dir_ok, FS!header_fc_ok, FS!AtMostMax,
            FS!frame_total_len, FS!command_frame_len, FS!declared_len,
            FS!has_magic, FS!plausible_header, FS!SumOf, FS!compute_checksum,
            FS!checksum_ok, FS!parse_frame,
            HDR0, HDR1, DIR_REQUEST, DIR_RESPONSE, FC_READ, FC_CMD,
            HDR_LEN, CHK_LEN, MIN_FRAME_LEN, U16, FieldA, FieldB,
            is_known_window, header_dir_ok, header_fc_ok, AtMostMax,
            frame_total_len, command_frame_len, declared_len,
            has_magic, plausible_header, SumOf, compute_checksum,
            checksum_ok, parse_frame
<1>1. \A b, i : FS!plausible_header(b, i) = plausible_header(b, i)
  BY Zenon
<1>2. \A b : FS!parse_frame(b) = parse_frame(b)
  BY Zenon
<1>3. QED
  BY <1>1, <1>2 DEF FS!Byte, Byte

\* The accumulator holds the last bytes that were read, all of this call.
AccInv ==
  /\ stream \in Seq(Byte)
  /\ off \in Nat /\ begin \in Nat
  /\ off <= Len(stream)
  /\ acc \in Seq(Byte)
  /\ begin + Len(acc) <= off
  /\ \A k \in 1 .. Len(acc) : acc[k] = stream[(off - Len(acc)) + k]
  /\ Len(acc) <= ACC_CAP
  /\ pc = "idle" => acc = <<>>

\* Where in the stream the accumulator begins.
HeadAt == off - Len(acc)

\* What the drain looks at is a frame that starts in front of the accumulator.
LEMMA DrainVerdict ==
  ASSUME AccInv, AtFrame
  PROVE  /\ plausible_header(acc, 0)
         /\ parse_frame(acc) \in {"OK", "TRUNCATED", "BAD_CHECKSUM", "BAD_DIR"}
         /\ parse_frame(acc) = "OK" => declared_len(acc) \in MIN_FRAME_LEN .. Len(acc)
<1>1. acc \in Seq(Byte) /\ Len(acc) \in Nat /\ Len(acc) >= HDR_LEN
  BY DEF AccInv, AtFrame, InDrain
<1>2. plausible_header(acc, 0)
  BY <1>1, FindFrameStart DEF AtFrame, Start, HDR_LEN
<1>3. QED
  BY <1>1, <1>2, ParseAtHeader

\* Nothing has been read yet.
LEMMA AccInit == Init => AccInv
<1> SUFFICES ASSUME Init PROVE AccInv
  OBVIOUS
<1>1. /\ stream \in Streams /\ Streams \subseteq Seq(Byte)
      /\ off = 0 /\ begin = 0 /\ acc = <<>> /\ pc = "idle"
  BY MasterAssumption DEF Init
<1>2. stream \in Seq(Byte) /\ Len(stream) \in Nat
  BY <1>1
<1>3. acc \in Seq(Byte) /\ Len(acc) = 0 /\ ACC_CAP \in Nat
  BY <1>1, MasterAssumption
<1>4. \A k \in 1 .. Len(acc) : acc[k] = stream[(off - Len(acc)) + k]
  BY <1>3
<1>5. begin \in Nat /\ off \in Nat /\ off <= Len(stream) /\ begin + Len(acc) <= off
  BY <1>1, <1>2, <1>3
<1>6. Len(acc) <= ACC_CAP
  BY <1>3
<1>7. QED
  BY <1>1, <1>2, <1>3, <1>4, <1>5, <1>6 DEF AccInv

\* A call that begins or ends does so with an empty accumulator.
LEMMA AccEmpty ==
  ASSUME AccInv, stream' = stream, off' \in Nat, off <= off', off' <= Len(stream),
         begin' \in {begin, off'}, acc' = <<>>
  PROVE  AccInv'
<1>0. /\ stream \in Seq(Byte) /\ off \in Nat /\ begin \in Nat
      /\ Len(acc) \in Nat /\ begin + Len(acc) <= off
  BY DEF AccInv
<1>1. Len(acc') = 0 /\ acc' \in Seq(Byte) /\ ACC_CAP \in Nat
  BY MasterAssumption
<1>2. begin' \in Nat /\ begin' <= off'
  BY <1>0
<1>3. stream' \in Seq(Byte) /\ off' \in Nat /\ off' <= Len(stream')
  BY <1>0
<1>4. begin' + Len(acc') <= off'
  <2>1. \A p, q, l : p \in Nat /\ p <= q /\ l = 0 => p + l <= q
    OBVIOUS
  <2>2. QED
    BY <1>1, <1>2, <2>1, Zenon
<1>5. \A k \in 1 .. Len(acc') : acc'[k] = stream'[(off' - Len(acc')) + k]
  BY <1>1
<1>6. Len(acc') <= ACC_CAP
  BY <1>1
<1>7. acc' = <<>>
  OBVIOUS
<1>8. QED
  BY <1>1, <1>2, <1>3, <1>4, <1>5, <1>6, <1>7, Zenon DEF AccInv

\* The accumulator loses its front.
LEMMA AccDiscard ==
  ASSUME AccInv, NEW n \in Nat, n <= Len(acc), Discard(n), pc # "idle",
         stream' = stream, off' = off, begin' = begin, pc' # "idle"
  PROVE  AccInv' /\ Len(acc') = Len(acc) - n /\ HeadAt' = HeadAt + n
<1>0. /\ stream \in Seq(Byte) /\ off \in Nat /\ begin \in Nat /\ off <= Len(stream)
      /\ acc \in Seq(Byte) /\ Len(acc) \in Nat /\ begin + Len(acc) <= off
      /\ Len(acc) <= ACC_CAP /\ ACC_CAP \in Nat
  BY MasterAssumption DEF AccInv
<1>1. acc' = SubSeq(acc, n + 1, Len(acc))
  BY DEF Discard
<1>2. /\ acc' \in Seq(Byte) /\ Len(acc') = Len(acc) - n
      /\ \A k \in 1 .. Len(acc) - n : acc'[k] = acc[n + k]
  BY <1>0, <1>1, SubSeqProperties
<1>3. \A k \in 1 .. Len(acc') : acc'[k] = stream[(off - Len(acc')) + k]
  <2> TAKE k \in 1 .. Len(acc')
  <2>1. /\ k \in 1 .. Len(acc) - n /\ n + k \in 1 .. Len(acc)
        /\ (off - Len(acc)) + (n + k) = (off - Len(acc')) + k
    BY <1>0, <1>2
  <2>2. QED
    BY <1>2, <2>1 DEF AccInv
<1>4. Len(acc') <= ACC_CAP /\ begin + Len(acc') <= off
  BY <1>0, <1>2
<1>5. HeadAt' = HeadAt + n
  <2>1. off' = off
    OBVIOUS
  <2>2. QED
    BY <1>0, <1>2, <2>1 DEF HeadAt
<1>6. QED
  BY <1>0, <1>2, <1>3, <1>4, <1>5 DEF AccInv

\* A buffer that holds the last bytes of a stream that were read still does
\* when more of them are added.
LEMMA PieceGrows ==
  ASSUME NEW s \in Seq(Byte), NEW a \in Seq(Byte), NEW o \in Nat, NEW n \in Nat,
         n > 0, Len(a) <= o, o + n <= Len(s),
         \A k \in 1 .. Len(a) : a[k] = s[(o - Len(a)) + k]
  PROVE  LET b == a \o SubSeq(s, o + 1, o + n)
         IN  /\ b \in Seq(Byte) /\ Len(b) = Len(a) + n
             /\ \A k \in 1 .. Len(b) : b[k] = s[((o + n) - Len(b)) + k]
<1> DEFINE more == SubSeq(s, o + 1, o + n)
           b == a \o more
<1>1. Len(a) \in Nat /\ Len(s) \in Nat
  OBVIOUS
<1>2. /\ more \in Seq(Byte) /\ Len(more) = n
      /\ \A k \in 1 .. n : more[k] = s[o + k]
  <2>1. /\ o + 1 \in Int /\ o + n \in Int /\ o + 1 <= o + n
        /\ (o + n) - (o + 1) + 1 = n
        /\ \A k \in 1 .. n : o + 1 + k - 1 = o + k
    OBVIOUS
  <2>2. \A i \in o + 1 .. o + n : s[i] \in Byte
    <3> TAKE i \in o + 1 .. o + n
    <3>1. i \in 1 .. Len(s)
      BY <1>1
    <3>2. QED
      BY <3>1
  <2>3. /\ SubSeq(s, o + 1, o + n) \in Seq(Byte)
        /\ Len(SubSeq(s, o + 1, o + n)) = n
        /\ \A k \in 1 .. n : SubSeq(s, o + 1, o + n)[k] = s[o + 1 + k - 1]
    BY <2>1, <2>2, SubSeqProperties
  <2>4. QED
    BY <2>1, <2>3
<1> HIDE DEF more
<1>3. /\ b \in Seq(Byte) /\ Len(b) = Len(a) + n
      /\ \A i \in 1 .. Len(a) + n :
            b[i] = IF i <= Len(a) THEN a[i] ELSE more[i - Len(a)]
  BY <1>1, <1>2, ConcatProperties
<1> HIDE DEF b
<1>4. (o + n) - Len(b) = o - Len(a)
  BY <1>1, <1>3
<1>5. ASSUME NEW k \in 1 .. Len(b) PROVE b[k] = s[((o + n) - Len(b)) + k]
  <2>0. k \in 1 .. Len(a) + n
    BY <1>3
  <2>1. CASE k <= Len(a)
    <3>1. k \in 1 .. Len(a)
      BY <1>1, <2>0, <2>1
    <3>2. b[k] = a[k] /\ a[k] = s[(o - Len(a)) + k]
      BY <1>3, <2>0, <2>1, <3>1
    <3>3. QED
      BY <1>4, <3>2
  <2>2. CASE ~ (k <= Len(a))
    <3>1. k - Len(a) \in 1 .. n /\ (o - Len(a)) + k = o + (k - Len(a))
      BY <1>1, <2>0, <2>2
    <3>2. b[k] = more[k - Len(a)]
      BY <1>3, <2>0, <2>2
    <3>3. QED
      BY <1>2, <1>4, <3>1, <3>2
  <2>3. QED
    BY <2>1, <2>2
<1>6. QED
  BY <1>3, <1>5 DEF b, more

\* The next n bytes of the stream are added to the accumulator.
Gain(n) ==
  /\ acc' = acc \o SubSeq(stream, off + 1, off + n)
  /\ off' = off + n
  /\ stream' = stream /\ begin' = begin

LEMMA AccReceive ==
  ASSUME AccInv, NEW n \in Nat, n > 0, n <= Space, off + n <= Len(stream),
         Gain(n), pc' # "idle"
  PROVE  AccInv' /\ HeadAt' = HeadAt
<1>0. /\ stream \in Seq(Byte) /\ off \in Nat /\ begin \in Nat /\ off <= Len(stream)
      /\ acc \in Seq(Byte) /\ Len(acc) \in Nat /\ begin + Len(acc) <= off
      /\ Len(acc) <= ACC_CAP /\ ACC_CAP \in Nat
      /\ \A k \in 1 .. Len(acc) : acc[k] = stream[(off - Len(acc)) + k]
  BY MasterAssumption DEF AccInv
<1> DEFINE b == acc \o SubSeq(stream, off + 1, off + n)
<1>1. Len(acc) <= off
  BY <1>0
<1>2. /\ b \in Seq(Byte) /\ Len(b) = Len(acc) + n
      /\ \A k \in 1 .. Len(b) : b[k] = stream[((off + n) - Len(b)) + k]
  <2> HIDE DEF b
  <2>1. \A s \in Seq(Byte), a \in Seq(Byte), o \in Nat :
          /\ Len(a) <= o /\ o + n <= Len(s)
          /\ \A k \in 1 .. Len(a) : a[k] = s[(o - Len(a)) + k]
          => LET c == a \o SubSeq(s, o + 1, o + n)
             IN  /\ c \in Seq(Byte) /\ Len(c) = Len(a) + n
                 /\ \A k \in 1 .. Len(c) : c[k] = s[((o + n) - Len(c)) + k]
    BY PieceGrows
  <2>2. QED
    BY <1>0, <1>1, <2>1, Zenon DEF b
<1>3. acc' = b /\ off' = off + n /\ stream' = stream /\ begin' = begin
  BY DEF Gain
<1> HIDE DEF b
<1>4. /\ acc' \in Seq(Byte) /\ Len(acc') = Len(acc) + n
      /\ \A k \in 1 .. Len(acc') : acc'[k] = stream'[(off' - Len(acc')) + k]
  <2>1. acc' \in Seq(Byte) /\ Len(acc') = Len(acc) + n
    BY <1>2, <1>3
  <2>2. 1 .. Len(acc') = 1 .. Len(b)
    BY <1>3
  <2>3. ASSUME NEW k \in 1 .. Len(b)
        PROVE  acc'[k] = stream'[(off' - Len(acc')) + k]
    <3>1. b[k] = stream[((off + n) - Len(b)) + k]
      BY <1>2
    <3>2. off' - Len(acc') = (off + n) - Len(b)
      BY <1>3, Zenon
    <3>3. QED
      BY <1>3, <3>1, <3>2, Zenon
  <2>4. QED
    BY <2>1, <2>2, <2>3, Zenon
<1>5. /\ off' \in Nat /\ off' <= Len(stream) /\ begin + Len(acc') <= off'
      /\ Len(acc') <= ACC_CAP /\ off' - Len(acc') = off - Len(acc)
  <2>1. n <= ACC_CAP - Len(acc)
    BY DEF Space
  <2>2. Len(acc') = Len(acc) + n
    BY <1>4
  <2>3. QED
    BY <1>0, <1>3, <2>1, <2>2
<1>6. QED
  BY <1>0, <1>3, <1>4, <1>5 DEF AccInv, HeadAt

\* What a flush leaves unread begins where the stream was read to, or later.
LEMMA FlushOnly ==
  ASSUME AccInv, NEW o \in Flushed
  PROVE  o \in Nat /\ off <= o /\ o <= Len(stream)
<1>1. off \in Nat /\ off <= Len(stream) /\ Len(stream) \in Nat
  BY DEF AccInv
<1>2. CASE o = off
  BY <1>1, <1>2
<1>3. CASE o \in {n \in {off + k : k \in ReadSizes} : n <= Len(stream)}
  <2>1. PICK k \in ReadSizes : o = off + k
    BY <1>3
  <2>2. k \in Nat
    BY MasterAssumption
  <2>3. QED
    BY <1>1, <1>3, <2>1, <2>2
<1>4. QED
  BY <1>2, <1>3 DEF Flushed

\* Every step keeps the accumulator the end of what was read, and what was
\* dealt with stays dealt with.
LEMMA AccStep ==
  AccInv /\ [Next]_vars =>
    AccInv' /\ stream' = stream /\ off <= off' /\ HeadAt <= HeadAt'
<1> SUFFICES ASSUME AccInv, [Next]_vars
             PROVE  AccInv' /\ stream' = stream /\ off <= off' /\ HeadAt <= HeadAt'
  OBVIOUS
<1>0. /\ off \in Nat /\ Len(acc) \in Nat /\ acc \in Seq(Byte) /\ off <= Len(stream)
      /\ begin \in Nat /\ HeadAt \in Int /\ HeadAt <= off /\ Len(acc) <= ACC_CAP
      /\ stream \in Seq(Byte) /\ ACC_CAP \in Nat
  BY MasterAssumption DEF AccInv, HeadAt
\* A call begins or ends.
<1>e. ASSUME stream' = stream, off' \in Nat, off <= off', off' <= Len(stream),
             begin' \in {begin, off'}, acc' = <<>>
      PROVE  AccInv' /\ stream' = stream /\ off <= off' /\ HeadAt <= HeadAt'
  <2>1. AccInv'
    BY <1>e, AccEmpty
  <2>2. HeadAt' = off'
    <3>1. Len(acc') = 0 /\ off' \in Nat
      BY <1>e
    <3>2. \A o \in Nat : \A l : l = 0 => o - l = o
      OBVIOUS
    <3>3. QED
      BY <3>1, <3>2, Zenon DEF HeadAt
  <2>3. HeadAt <= HeadAt'
    <3>1. \A h, o, p \in Int : h <= o /\ o <= p => h <= p
      OBVIOUS
    <3>2. HeadAt \in Int /\ off \in Int /\ off' \in Int /\ HeadAt <= off /\ off <= off'
      BY <1>0, <1>e
    <3>3. QED
      BY <2>2, <3>1, <3>2, Zenon
  <2>4. QED
    BY <1>e, <2>1, <2>3
<1>i. ASSUME stream' = stream, off' = off, begin' = begin, acc' = <<>>
      PROVE  AccInv' /\ stream' = stream /\ off <= off' /\ HeadAt <= HeadAt'
  BY <1>0, <1>e, <1>i
\* The accumulator is left alone.
<1>n. ASSUME stream' = stream, off' = off, begin' = begin, acc' = acc,
             pc' = "idle" => acc = <<>>
      PROVE  AccInv' /\ stream' = stream /\ off <= off' /\ HeadAt <= HeadAt'
  <2>1. HeadAt' = HeadAt /\ off' = off
    BY <1>n DEF HeadAt
  <2>2. AccInv'
    BY <1>n DEF AccInv
  <2>3. QED
    BY <1>0, <1>n, <2>1, <2>2
\* It loses its front.
<1>d. ASSUME NEW n \in Nat, n <= Len(acc), Discard(n), pc # "idle",
             stream' = stream, off' = off, begin' = begin, pc' # "idle"
      PROVE  AccInv' /\ stream' = stream /\ off <= off' /\ HeadAt <= HeadAt'
  <2>1. AccInv' /\ HeadAt' = HeadAt + n
    BY <1>d, AccDiscard
  <2>2. HeadAt <= HeadAt + n /\ off <= off
    BY <1>0
  <2>3. QED
    BY <1>d, <2>1, <2>2
<1>f. ASSUME AtFrame
      PROVE  pc # "idle" /\ Len(acc) >= HDR_LEN /\ 1 <= Len(acc)
  BY <1>0, <1>f DEF AtFrame, InDrain, HDR_LEN
<1>1. CASE PollWindow
  <2>1. PICK o \in Flushed : off' = o /\ begin' = o
    BY <1>1 DEF PollWindow, Listen
  <2>2. stream' = stream /\ acc' = <<>>
    BY <1>1 DEF PollWindow, Listen, Ready, AccInv
  <2>3. QED
    BY <1>e, <2>1, <2>2, FlushOnly
<1>2. CASE PollNotSent
  <2>1. off' = off \/ off' \in Flushed
    BY <1>2 DEF PollNotSent
  <2>2. stream' = stream /\ acc' = <<>> /\ begin' = off'
    BY <1>2 DEF PollNotSent, Ready, AccInv
  <2>3. off' \in Nat /\ off <= off' /\ off' <= Len(stream)
    BY <1>0, <2>1, FlushOnly
  <2>4. QED
    BY <1>e, <2>2, <2>3
<1>3. CASE PreflightBusIdle
  <2>1. stream' = stream /\ acc' = <<>> /\ begin' = off /\ off' = off
    BY <1>3 DEF PreflightBusIdle, Listen, Ready, AccInv
  <2>2. QED
    BY <1>0, <1>e, <2>1
<1>4. CASE TakeCoverage
  BY <1>4, <1>n DEF TakeCoverage, AccInv
<1>5. CASE KeepOn
  BY <1>5, <1>n DEF KeepOn, history
<1>6. CASE GiveUp
  BY <1>6, <1>i DEF GiveUp, End
<1>7. CASE Receive
  <2>1. PICK n \in ReadSizes : /\ n <= Space /\ off + n <= Len(stream)
                               /\ acc' = acc \o SubSeq(stream, off + 1, off + n)
                               /\ off' = off + n
    BY <1>7 DEF Receive
  <2>2. n \in Nat /\ n > 0
    BY MasterAssumption
  <2>3. stream' = stream /\ begin' = begin /\ pc' # "idle"
    BY <1>7 DEF Receive
  <2>4. AccInv' /\ HeadAt' = HeadAt
    <3>1. Gain(n)
      BY <2>1, <2>3 DEF Gain
    <3>2. QED
      BY <2>1, <2>2, <2>3, <3>1, AccReceive
  <2>5. QED
    BY <1>0, <2>1, <2>2, <2>3, <2>4
<1>8. CASE ReadTimesOut
  BY <1>8, <1>n DEF ReadTimesOut
<1>9. CASE ReadFails
  <2>1. CASE Polling
    BY <1>9, <1>i, <2>1 DEF ReadFails, End
  <2>2. CASE ~ Polling
    BY <1>9, <1>n, <2>2 DEF ReadFails
  <2>3. QED
    BY <2>1, <2>2
<1>10. CASE DropJunk
  <2>1. /\ Discard(Len(acc) - TailLen) /\ Len(acc) >= HDR_LEN /\ pc # "idle" /\ pc' # "idle"
        /\ stream' = stream /\ off' = off /\ begin' = begin
    BY <1>10 DEF DropJunk, InDrain, LeaveDrain
  <2>2. Len(acc) - TailLen \in Nat /\ Len(acc) - TailLen <= Len(acc)
    BY <1>0, <2>1 DEF TailLen, HDR_LEN
  <2>3. QED
    BY <1>d, <2>1, <2>2
<1>11. CASE Resync
  <2>1. /\ Discard(Start) /\ Start \in 1 .. Len(acc) - 1 /\ pc # "idle" /\ pc' # "idle"
        /\ stream' = stream /\ off' = off /\ begin' = begin
    BY <1>11 DEF Resync, InDrain, history
  <2>2. Start \in Nat /\ Start <= Len(acc)
    BY <1>0, <2>1
  <2>3. QED
    BY <1>d, <2>1, <2>2
<1>12. CASE AwaitMore
  <2>1. stream' = stream /\ off' = off /\ begin' = begin /\ acc' \in {<<>>, acc} /\ pc' # "idle"
    BY <1>12 DEF AwaitMore, LeaveDrain
  <2>2. QED
    BY <1>i, <1>n, <2>1
<1>13. CASE TakeResponse
  BY <1>13, <1>i DEF TakeResponse, End
<1>14. CASE RefuseBus
  BY <1>14, <1>i DEF RefuseBus, End, history
<1>15. CASE SkipFrame
  <2>1. /\ AtFrame /\ parse_frame(acc) = "OK" /\ Discard(declared_len(acc))
        /\ stream' = stream /\ off' = off /\ begin' = begin /\ pc' = pc
    BY <1>15 DEF SkipFrame, history, frame_only, parsed_frame
  <2>2. declared_len(acc) \in Nat /\ declared_len(acc) <= Len(acc)
    BY <1>0, <2>1, DrainVerdict DEF MIN_FRAME_LEN, HDR_LEN, CHK_LEN
  <2>3. QED
    BY <1>d, <1>f, <2>1, <2>2
<1>16. CASE DropByte
  BY <1>16, <1>d, <1>f DEF DropByte, history
<1>17. CASE Preempted
  BY <1>17, <1>n DEF Preempted
<1>18. CASE UNCHANGED vars
  BY <1>18, <1>n DEF vars, history, AccInv
<1>19. QED
  BY <1>1, <1>2, <1>3, <1>4, <1>5, <1>6, <1>7, <1>8, <1>9, <1>10, <1>11, <1>12, <1>13,
     <1>14, <1>15, <1>16, <1>17, <1>18
  DEF Next, Call, Step
-----------------------------------------------------------------------------
(* The clock *)

\* What a remainder is, and that it is the only one.
LEMMA Modulo ==
  ASSUME NEW x \in Int, NEW m \in Nat, m > 0
  PROVE  x % m \in 0 .. m - 1 /\ \E q \in Int : x % m = x + q * m
<1>1. x = m * (x \div m) + (x % m) /\ x \div m \in Int /\ x % m \in 0 .. m - 1
  OBVIOUS
<1> DEFINE q == - (x \div m)
<1>2. q \in Int /\ x % m = x + q * m
  BY <1>1
<1>3. QED
  BY <1>1, <1>2

LEMMA ModuloUnique ==
  ASSUME NEW x \in Int, NEW m \in Nat, m > 0,
         NEW r \in 0 .. m - 1, NEW q \in Int, r = x + q * m
  PROVE  x % m = r
<1>1. x = m * (x \div m) + (x % m) /\ x \div m \in Int /\ x % m \in 0 .. m - 1
  OBVIOUS
<1> DEFINE p == q + (x \div m)
<1>2. r - (x % m) = p * m /\ p \in Int
  BY <1>1
<1> HIDE DEF p
<1>3. p = 0
  <2>1. p >= 1 => p * m >= m
    BY <1>2
  <2>2. p <= -1 => p * m <= -m
    BY <1>2
  <2>3. QED
    BY <1>1, <1>2, <2>1, <2>2
<1>4. QED
  BY <1>1, <1>2, <1>3
-----------------------------------------------------------------------------
(* Types *)

Ops == {"none", "poll", "preflight"}

Stats == [ok : Nat, no_response : Nat, transport_error : Nat,
          checksum_errors : Nat, consecutive_failures : Nat]

Coverage == [status_updated : BOOLEAN, telemetry_updated : BOOLEAN]

TypeInv ==
  /\ stream \in Streams
  /\ now \in 0 .. ClockSize - 1 /\ deadline \in 0 .. ClockSize - 1
  /\ pc \in {"idle", "loop", "read", "drain"}
  /\ task.op \in Ops /\ (pc # "idle" => task.op # "none")
  /\ stats \in Stats
  /\ outcome \in Outcomes \cup {"none", "Idle", "Busy"}
  /\ coverage \in Coverage /\ any \in BOOLEAN
  /\ drained \in begin .. off /\ lost \subseteq begin .. off - 1
  /\ elapsed \in Nat /\ late \in 0 .. MaxLate /\ calls \in 0 .. MaxCalls
  /\ outcomes \in Seq(Outcomes) /\ Len(outcomes) <= calls
  /\ pc # "idle" /\ Polling => Len(outcomes) < calls

\* The constants of the clock are numbers.
LEMMA ClockConstants ==
  /\ ClockSize \in Nat /\ ClockSize > 0
  /\ PollDeadline \in Nat /\ PollDeadline > 0
  /\ ResponseTimeout \in Nat /\ ResponseTimeout > 0
  /\ PreflightWindow \in Nat /\ PreflightWindow > 0
  /\ PreflightRead \in Nat /\ PreflightRead > 0
  /\ MaxLate \in Nat /\ MaxCalls \in Nat
  /\ 2 * (PollDeadline + MaxLate + 1) <= ClockSize
  /\ 2 * (PreflightWindow + PreflightRead + MaxLate + 1) <= ClockSize
BY MasterAssumption

\* The counters, one by one.
StatsOf(ok, none, failed, damaged, running) ==
  [ok |-> ok, no_response |-> none, transport_error |-> failed,
   checksum_errors |-> damaged, consecutive_failures |-> running]

\* A poll is counted in its bucket, and among the failures unless it was Ok.
LEMMA CountPoll ==
  ASSUME NEW st \in Stats, NEW o
  PROVE  /\ count_poll(st, o) =
              StatsOf(st.ok + (IF o = "Ok" THEN 1 ELSE 0),
                      st.no_response + (IF o = "NoResponse" THEN 1 ELSE 0),
                      st.transport_error + (IF o = "TransportError" THEN 1 ELSE 0),
                      st.checksum_errors,
                      IF o = "Ok" THEN 0 ELSE st.consecutive_failures + 1)
         /\ count_poll(st, o) \in Stats
<1> DEFINE a == IF o = "NoResponse" THEN 1 ELSE 0
           b == IF o = "TransportError" THEN 1 ELSE 0
<1>1. PICK k \in Nat, n \in Nat, t \in Nat, c \in Nat, f \in Nat : st = StatsOf(k, n, t, c, f)
  BY DEF Stats, StatsOf
<1>2. /\ st.ok = k /\ st.no_response = n /\ st.transport_error = t
      /\ st.checksum_errors = c /\ st.consecutive_failures = f
  BY <1>1 DEF StatsOf
<1>3. \A i1, i2, i3, i4, i5 \in Nat : StatsOf(i1, i2, i3, i4, i5) \in Stats
  BY DEF StatsOf, Stats
<1>4. a \in Nat /\ b \in Nat
  OBVIOUS
<1>5. CASE o = "Ok"
  <2>1. count_poll(st, o) = [st EXCEPT !.ok = st.ok + 1, !.consecutive_failures = 0]
    BY <1>5, Zenon DEF count_poll, failures_after_ok
  <2>2. count_poll(st, o) = [StatsOf(k, n, t, c, f) EXCEPT !.ok = k + 1,
                                                           !.consecutive_failures = 0]
    BY <1>1, <1>2, <2>1, Zenon
  <2>3. count_poll(st, o) = StatsOf(k + 1, n, t, c, 0)
    <3> DEFINE r == StatsOf(k, n, t, c, f)
               x == k + 1
    <3> HIDE DEF x
    <3>1. \A s : [s EXCEPT !.ok = x, !.consecutive_failures = 0]
                   = [[s EXCEPT !.ok = x] EXCEPT !.consecutive_failures = 0]
      OBVIOUS
    <3>2. [r EXCEPT !.ok = x] = StatsOf(x, n, t, c, f)
      BY DEF StatsOf
    <3>3. [StatsOf(x, n, t, c, f) EXCEPT !.consecutive_failures = 0] = StatsOf(x, n, t, c, 0)
      BY DEF StatsOf
    <3>4. QED
      BY <2>2, <3>1, <3>2, <3>3, Zenon DEF x
  <2>4. k + 1 \in Nat /\ 0 \in Nat /\ n + 0 = n /\ t + 0 = t
    OBVIOUS
  <2>5. count_poll(st, o) \in Stats
    BY <1>3, <2>3, <2>4
  <2>6. QED
    BY <1>2, <1>5, <2>3, <2>4, <2>5
<1>6. CASE o # "Ok"
  <2>1. count_poll(st, o) = [st EXCEPT !.no_response = st.no_response + a,
                                       !.transport_error = st.transport_error + b,
                                       !.consecutive_failures = st.consecutive_failures + 1]
    BY <1>6, Zenon DEF count_poll
  <2> HIDE DEF a, b
  <2>2. count_poll(st, o) = [StatsOf(k, n, t, c, f) EXCEPT !.no_response = n + a,
                                                           !.transport_error = t + b,
                                                           !.consecutive_failures = f + 1]
    BY <1>1, <1>2, <2>1, Zenon
  <2>3. count_poll(st, o) = StatsOf(k, n + a, t + b, c, f + 1)
    <3> DEFINE r == StatsOf(k, n, t, c, f)
               x == n + a
               y == t + b
               z == f + 1
    <3> HIDE DEF x, y, z
    <3>1. \A s : [s EXCEPT !.no_response = x, !.transport_error = y,
                           !.consecutive_failures = z]
                   = [[[s EXCEPT !.no_response = x] EXCEPT !.transport_error = y]
                         EXCEPT !.consecutive_failures = z]
      OBVIOUS
    <3>2. [r EXCEPT !.no_response = x] = StatsOf(k, x, t, c, f)
      BY DEF StatsOf
    <3>3. [StatsOf(k, x, t, c, f) EXCEPT !.transport_error = y] = StatsOf(k, x, y, c, f)
      BY DEF StatsOf
    <3>4. [StatsOf(k, x, y, c, f) EXCEPT !.consecutive_failures = z] = StatsOf(k, x, y, c, z)
      BY DEF StatsOf
    <3>5. QED
      BY <2>2, <3>1, <3>2, <3>3, <3>4, Zenon DEF x, y, z
  <2>4. n + a \in Nat /\ t + b \in Nat /\ f + 1 \in Nat /\ k + 0 = k
    BY <1>4
  <2>5. count_poll(st, o) \in Stats
    BY <1>3, <2>3, <2>4
  <2>6. QED
    BY <1>2, <1>6, <2>3, <2>4, <2>5 DEF a, b
<1>7. QED
  BY <1>5, <1>6

\* So is a damaged frame.
LEMMA CountDamage ==
  ASSUME NEW st \in Stats
  PROVE  LET sd == [st EXCEPT !.checksum_errors = @ + 1]
         IN  /\ sd = StatsOf(st.ok, st.no_response, st.transport_error,
                             st.checksum_errors + 1, st.consecutive_failures)
             /\ sd \in Stats
<1>1. PICK k \in Nat, n \in Nat, t \in Nat, c \in Nat, f \in Nat : st = StatsOf(k, n, t, c, f)
  BY DEF Stats, StatsOf
<1>2. /\ st.ok = k /\ st.no_response = n /\ st.transport_error = t
      /\ st.checksum_errors = c /\ st.consecutive_failures = f
  BY <1>1 DEF StatsOf
<1>3. [StatsOf(k, n, t, c, f) EXCEPT !.checksum_errors = c + 1] = StatsOf(k, n, t, c + 1, f)
  BY DEF StatsOf
<1>4. c + 1 \in Nat
  OBVIOUS
<1>5. StatsOf(k, n, t, c + 1, f) \in Stats
  BY <1>4 DEF StatsOf, Stats
<1>6. QED
  BY <1>1, <1>2, <1>3, <1>5, Zenon

\* Nothing was called yet.
LEMMA TypeInit == Init => TypeInv
<1> SUFFICES ASSUME Init PROVE TypeInv
  OBVIOUS
<1>1. now \in 0 .. ClockSize - 1 /\ deadline = now
  BY MasterAssumption DEF Init
<1>2. ZeroStats \in Stats
  BY DEF ZeroStats, Stats
<1>3. NoCoverage \in Coverage
  BY DEF NoCoverage, Coverage
<1>4. <<>> \in Seq(Outcomes) /\ Len(<<>>) = 0
  OBVIOUS
<1>5. drained \in begin .. off /\ lost \subseteq begin .. off - 1
  BY DEF Init
<1>6. elapsed \in Nat /\ late \in 0 .. MaxLate /\ calls \in 0 .. MaxCalls
  BY ClockConstants DEF Init
<1>7. task.op \in Ops /\ pc = "idle" /\ outcome = "none"
  BY DEF Init, NoTask, Ops
<1>8. Len(outcomes) <= calls /\ outcomes \in Seq(Outcomes)
  BY <1>4 DEF Init
<1>9. QED
  BY <1>1, <1>2, <1>3, <1>5, <1>6, <1>7, <1>8 DEF Init, TypeInv

\* A poll that is over is counted once.
LEMMA PolledType ==
  ASSUME NEW o \in Outcomes, Polled(o), outcomes \in Seq(Outcomes),
         stats \in Stats
  PROVE  /\ stats' \in Stats
         /\ outcome' \in Outcomes
         /\ outcomes' \in Seq(Outcomes) /\ Len(outcomes') = Len(outcomes) + 1
<1>1. Append(outcomes, o) \in Seq(Outcomes) /\ Len(Append(outcomes, o)) = Len(outcomes) + 1
  BY AppendProperties
<1>2. QED
  BY <1>1, CountPoll DEF Polled

\* The clock and the time a call has used, after a read or a preemption.
LEMMA PassType ==
  ASSUME NEW ms \in Nat, Pass(ms), now \in 0 .. ClockSize - 1, elapsed \in Nat
  PROVE  now' \in 0 .. ClockSize - 1 /\ elapsed' \in Nat /\ elapsed' = elapsed + ms
<1>1. now + ms \in Int /\ ClockSize \in Nat /\ ClockSize > 0
  BY ClockConstants
<1>2. (now + ms) % ClockSize \in 0 .. ClockSize - 1
  BY <1>1, Modulo
<1>3. QED
  BY <1>2 DEF Pass

\* A poll waits no longer than what is left, a read of a preflight its time-out.
LEMMA ReadTimeoutType ==
  ASSUME deadline \in Int, now \in Int, CanRead
  PROVE  /\ ReadTimeout \in Nat /\ ReadTimeout > 0
         /\ Polling => ReadTimeout <= Remaining
         /\ ~ Polling => ReadTimeout = PreflightRead
<1>1. Remaining \in Int
  <2>1. deadline - now \in Int
    OBVIOUS
  <2>2. (deadline - now) % ClockSize \in Int
    BY <2>1, ClockConstants, Modulo
  <2>3. QED
    BY <2>2, ClockConstants DEF Remaining, signed
<1>2. QED
  BY <1>1, ClockConstants DEF ReadTimeout, CanRead

\* What is passed on the way keeps its type.
LEMMA TypeStep == AccInv /\ TypeInv /\ [Next]_vars => TypeInv'
<1> SUFFICES ASSUME AccInv, TypeInv, [Next]_vars PROVE TypeInv'
  OBVIOUS
<1>0. /\ begin \in Nat /\ off \in Nat /\ begin <= off /\ Len(acc) \in Nat
      /\ begin + Len(acc) <= off
  BY DEF AccInv
<1>t. TypeInv
  OBVIOUS
<1>1. ASSUME NEW t, NEW from \in Nat, NEW ms \in Nat, Listen(t, from, ms), from <= off',
             off' \in Nat, t.op \in {"poll", "preflight"}, calls < MaxCalls,
             stats' = stats, outcomes' = outcomes, outcome' \in {outcome, "none"}
      PROVE  TypeInv'
  <2>1. (now + ms) % ClockSize \in 0 .. ClockSize - 1
    <3>1. now + ms \in Int
      BY <1>1 DEF TypeInv
    <3>2. QED
      BY <3>1, ClockConstants, Modulo
  <2>2. /\ deadline' \in 0 .. ClockSize - 1 /\ now' \in 0 .. ClockSize - 1
        /\ stream' \in Streams /\ pc' = "loop" /\ task'.op \in Ops /\ task'.op # "none"
        /\ coverage' \in Coverage /\ any' \in BOOLEAN
    BY <1>1, <2>1 DEF TypeInv, Listen, Ops, sink
  <2>3. /\ drained' \in begin' .. off' /\ lost' \subseteq begin' .. off' - 1
        /\ elapsed' \in Nat /\ late' \in 0 .. MaxLate
    BY <1>1, ClockConstants DEF Listen
  <2>4. calls' \in 0 .. MaxCalls /\ calls < calls' /\ Len(outcomes) <= calls
    BY <1>1, ClockConstants DEF TypeInv, Listen
  <2>5. Len(outcomes') < calls' /\ Len(outcomes') <= calls' /\ outcomes' \in Seq(Outcomes)
    <3>1. Len(outcomes) \in Nat /\ calls \in Nat /\ calls' \in Nat
      BY <2>4, ClockConstants DEF TypeInv
    <3>2. QED
      BY <1>1, <2>4, <3>1 DEF TypeInv
  <2>6. stats' \in Stats /\ outcome' \in Outcomes \cup {"none", "Idle", "Busy"}
    BY <1>1 DEF TypeInv
  <2>7. QED
    BY <2>2, <2>3, <2>4, <2>5, <2>6 DEF TypeInv
\* A poll ends and is counted.
<1>p. ASSUME NEW o \in Outcomes, Polled(o), pc' = "idle", pc # "idle" /\ Polling,
             UNCHANGED <<stream, off, now, deadline, task,
                         begin, drained, lost, elapsed, late, calls>>,
             coverage' \in Coverage, any' \in BOOLEAN
      PROVE  TypeInv'
  <2>1. /\ stats' \in Stats /\ outcome' \in Outcomes
        /\ outcomes' \in Seq(Outcomes) /\ Len(outcomes') = Len(outcomes) + 1
    BY <1>p, PolledType DEF TypeInv
  <2>2. Len(outcomes') <= calls
    <3>1. Len(outcomes) < calls /\ Len(outcomes) \in Nat /\ calls \in Nat
      BY <1>p, ClockConstants DEF TypeInv
    <3>2. QED
      BY <2>1, <3>1
  <2>3. QED
    BY <1>p, <2>1, <2>2 DEF TypeInv
\* The call goes on.
<1>c. ASSUME UNCHANGED <<stream, deadline, task, outcome, outcomes, begin, calls>>,
             coverage' \in Coverage, any' \in BOOLEAN,
             pc' \in {"idle", "loop", "read", "drain"}, pc' # "idle" => pc # "idle",
             stats' \in Stats,
             now' \in 0 .. ClockSize - 1, elapsed' \in Nat, late' \in 0 .. MaxLate,
             drained' \in begin .. off', lost' \subseteq begin .. off' - 1
      PROVE  TypeInv'
  BY <1>c DEF TypeInv, Polling
<1>s. coverage' = coverage /\ any' = any => coverage' \in Coverage /\ any' \in BOOLEAN
  BY DEF TypeInv
<1>2. CASE PollWindow
  <2>1. PICK win \in PolledWindows, o \in Flushed :
          off' = o /\ Listen(Poll(win), o, PollDeadline)
    BY <1>2 DEF PollWindow
  <2>2. o \in Nat /\ o <= off'
    BY <2>1, FlushOnly
  <2>3. /\ stats' = stats /\ outcomes' = outcomes /\ outcome' = outcome
        /\ calls < MaxCalls /\ Poll(win).op = "poll"
    BY <1>2 DEF PollWindow, Ready, Poll
  <2>4. QED
    BY <1>1, <2>1, <2>2, <2>3, ClockConstants
<1>3. CASE PollNotSent
  <2>1. off' \in Nat /\ begin' = off' /\ drained' = off' /\ lost' = {}
    BY <1>0, <1>3, FlushOnly DEF PollNotSent
  <2>2. task'.op = "poll"
    BY <1>3 DEF PollNotSent, Poll
  <2>3. Polled("TransportError") /\ "TransportError" \in Outcomes
    BY <1>3 DEF PollNotSent, Outcomes
  <2>4. /\ stats' \in Stats /\ outcome' \in Outcomes
        /\ outcomes' \in Seq(Outcomes) /\ Len(outcomes') = Len(outcomes) + 1
    BY <2>3, PolledType DEF TypeInv
  <2>5. calls' = calls + 1 /\ calls < MaxCalls /\ pc' = "idle"
    BY <1>3 DEF PollNotSent, Ready
  <2>6. Len(outcomes) <= calls /\ Len(outcomes) \in Nat /\ calls \in Nat
    BY ClockConstants DEF TypeInv
  <2>7. Len(outcomes') <= calls' /\ calls' \in 0 .. MaxCalls
    BY <2>4, <2>5, <2>6, ClockConstants
  <2>8. drained' \in begin' .. off' /\ lost' \subseteq begin' .. off' - 1
    BY <2>1
  <2>9. /\ elapsed' \in Nat /\ late' \in 0 .. MaxLate /\ stream' \in Streams
        /\ now' \in 0 .. ClockSize - 1 /\ deadline' \in 0 .. ClockSize - 1
    BY <1>3, ClockConstants DEF PollNotSent, TypeInv
  <2>10. coverage' \in Coverage /\ any' \in BOOLEAN
    BY <1>3 DEF PollNotSent, sink, TypeInv
  <2>11. QED
    BY <2>2, <2>4, <2>5, <2>7, <2>8, <2>9, <2>10 DEF TypeInv, Ops
<1>4. CASE PreflightBusIdle
  <2>1. /\ Listen(Preflight, off, PreflightWindow) /\ off' = off /\ outcome' = "none"
        /\ stats' = stats /\ outcomes' = outcomes /\ calls < MaxCalls
        /\ Preflight.op = "preflight"
    BY <1>4 DEF PreflightBusIdle, Ready, Preflight
  <2>2. off <= off' /\ off' \in Nat
    BY <1>0, <2>1
  <2>3. QED
    BY <1>0, <1>1, <2>1, <2>2, ClockConstants
<1>5. CASE TakeCoverage
  <2>1. NoCoverage \in Coverage
    BY DEF NoCoverage, Coverage
  <2>2. QED
    BY <1>5, <1>c, <2>1 DEF TakeCoverage, TypeInv
<1>6. CASE KeepOn
  BY <1>6, <1>c DEF KeepOn, TypeInv, sink, history
<1>7. CASE GiveUp
  <2>1. pc # "idle"
    BY <1>7 DEF GiveUp
  <2>2. CASE Polling
    BY <1>7, <1>p, <1>s, <2>1, <2>2 DEF GiveUp, End, sink, Outcomes
  <2>3. CASE ~ Polling
    BY <1>7, <1>s, <2>1, <2>3 DEF GiveUp, End, sink, TypeInv, Polling
  <2>4. QED
    BY <2>2, <2>3
<1>8. CASE Preempted
  <2>1. now' \in 0 .. ClockSize - 1 /\ elapsed' \in Nat
    BY <1>8, PassType DEF Preempted, TypeInv
  <2>2. late' \in 0 .. MaxLate
    BY <1>8, ClockConstants DEF Preempted, TypeInv
  <2>3. QED
    BY <1>8, <1>c, <1>s, <2>1, <2>2 DEF Preempted, sink, TypeInv
<1>9. CASE Receive
  <2>1. PICK n \in ReadSizes : off' = off + n
    BY <1>9 DEF Receive
  <2>2. n \in Nat
    BY MasterAssumption
  <2>3. drained \in begin .. off' /\ lost \subseteq begin .. off' - 1
    BY <1>0, <2>1, <2>2 DEF TypeInv
  <2>4. CanRead /\ \E ms \in 0 .. ReadTimeout : Pass(ms)
    BY <1>9 DEF Receive
  <2>5. now' \in 0 .. ClockSize - 1 /\ elapsed' \in Nat
    BY <2>4, ReadTimeoutType, PassType DEF TypeInv
  <2>6. QED
    BY <1>9, <1>c, <1>s, <2>3, <2>5 DEF Receive, CanRead, sink, TypeInv
<1>10. CASE ReadTimesOut
  <2>1. now' \in 0 .. ClockSize - 1 /\ elapsed' \in Nat
    BY <1>10, ReadTimeoutType, PassType DEF ReadTimesOut, TypeInv
  <2>2. QED
    BY <1>10, <1>c, <1>s, <2>1 DEF ReadTimesOut, CanRead, sink, TypeInv
<1>11. CASE ReadFails
  <2>1. CASE Polling
    BY <1>11, <1>p, <1>s, <2>1 DEF ReadFails, CanRead, End, sink, Outcomes
  <2>2. CASE ~ Polling
    <3>1. \E ms \in 1 .. ReadTimeout : Pass(ms)
      BY <1>11, <2>2 DEF ReadFails
    <3>2. now' \in 0 .. ClockSize - 1 /\ elapsed' \in Nat
      BY <1>11, <3>1, ReadTimeoutType, PassType DEF ReadFails, TypeInv
    <3>3. QED
      BY <1>11, <1>c, <1>s, <2>2, <3>2 DEF ReadFails, CanRead, sink, TypeInv
  <2>3. QED
    BY <2>1, <2>2
<1>12. CASE DropJunk
  BY <1>0, <1>12, <1>c, <1>s DEF DropJunk, InDrain, LeaveDrain, sink, TypeInv
<1>13. CASE Resync
  BY <1>13, <1>c, <1>s DEF Resync, InDrain, sink, history, TypeInv
<1>14. CASE AwaitMore
  <2>1. lost' \subseteq begin .. off - 1
    <3>1. off - Len(acc) .. off - 1 \subseteq begin .. off - 1
      BY <1>0
    <3>2. QED
      BY <1>14, <3>1 DEF AwaitMore, TypeInv
  <2>2. /\ pc # "idle" /\ pc' \in {"read", "loop"} /\ drained' = off /\ off' = off
        /\ UNCHANGED <<stream, deadline, task, stats, outcome, outcomes, begin, calls,
                       now, elapsed, late, coverage, any>>
    BY <1>14 DEF AwaitMore, LeaveDrain, AtFrame, InDrain, sink
  <2>3. drained' \in begin .. off' /\ lost' \subseteq begin .. off' - 1
    BY <1>0, <2>1, <2>2
  <2>4. QED
    BY <1>c, <1>s, <2>2, <2>3 DEF TypeInv
<1>15. CASE TakeResponse
  <2>1. coverage' \in Coverage /\ any' \in BOOLEAN
    <3>1. \A d : join_coverage(coverage, d) \in Coverage
      BY Zenon DEF join_coverage, Coverage
    <3>2. CASE is_ingested(parsed_frame(acc))
      BY <1>15, <3>1, <3>2 DEF TakeResponse
    <3>3. CASE ~ is_ingested(parsed_frame(acc))
      BY <1>15, <3>3 DEF TakeResponse, TypeInv
    <3>4. QED
      BY <3>2, <3>3
  <2>2. QED
    BY <1>15, <1>p, <2>1 DEF TakeResponse, AtFrame, InDrain, End, Outcomes
<1>16. CASE RefuseBus
  BY <1>16, <1>s DEF RefuseBus, AtFrame, InDrain, End, sink, history, TypeInv, Polling
<1>17. CASE SkipFrame
  BY <1>17, <1>c, <1>s DEF SkipFrame, AtFrame, InDrain, sink, history, TypeInv
<1>18. CASE DropByte
  <2>1. stats' \in Stats
    <3>1. [stats EXCEPT !.checksum_errors = @ + 1] \in Stats
      BY CountDamage DEF TypeInv
    <3>2. QED
      BY <1>18, <3>1 DEF DropByte, TypeInv
  <2>2. QED
    BY <1>18, <1>c, <1>s, <2>1 DEF DropByte, AtFrame, InDrain, sink, history, TypeInv
<1>19. CASE UNCHANGED vars
  BY <1>19 DEF vars, sink, history, TypeInv, Polling
<1>20. QED
  BY <1>2, <1>3, <1>4, <1>5, <1>6, <1>7, <1>8, <1>9, <1>10, <1>11, <1>12, <1>13,
     <1>14, <1>15, <1>16, <1>17, <1>18, <1>19
  DEF Next, Call, Step

\* Every value of the state is of its type.
THEOREM TypesOfMaster == Spec => []TypeOK
<1>1. AccInv /\ TypeInv => TypeOK
  <2> SUFFICES ASSUME AccInv, TypeInv PROVE TypeOK
    OBVIOUS
  <2>1. stats \in [DOMAIN ZeroStats -> Nat]
    <3>1. PICK k \in Nat, n \in Nat, t \in Nat, c \in Nat, f \in Nat :
            stats = StatsOf(k, n, t, c, f)
      BY DEF TypeInv, Stats, StatsOf
    <3>2. DOMAIN StatsOf(k, n, t, c, f) = DOMAIN ZeroStats
      BY DEF StatsOf, ZeroStats
    <3>3. \A s \in DOMAIN ZeroStats : StatsOf(k, n, t, c, f)[s] \in Nat
      BY DEF StatsOf, ZeroStats
    <3>4. StatsOf(k, n, t, c, f) = [s \in DOMAIN StatsOf(k, n, t, c, f) |->
                                      StatsOf(k, n, t, c, f)[s]]
      BY DEF StatsOf
    <3>5. QED
      BY <3>1, <3>2, <3>3, <3>4
  <2>2. coverage \in [DOMAIN NoCoverage -> BOOLEAN]
    BY Zenon DEF TypeInv, Coverage, NoCoverage
  <2>3. /\ off \in Nat /\ begin \in Nat /\ Len(acc) \in Nat /\ acc \in Seq(Byte)
        /\ begin + Len(acc) <= off /\ off <= Len(stream) /\ Len(acc) <= ACC_CAP
    BY DEF AccInv
  <2>4. off \in 0 .. Len(stream) /\ begin \in 0 .. off
    <3>1. Len(stream) \in Nat
      BY DEF AccInv
    <3>2. QED
      BY <2>3, <3>1
  <2>5. QED
    BY <2>1, <2>2, <2>3, <2>4 DEF TypeInv, TypeOK
<1>2. QED
  BY <1>1, AccInit, AccStep, TypeInit, TypeStep, PTL DEF Spec
-----------------------------------------------------------------------------
(* The deadline *)

\* How long the call under way may last.
Window == IF Polling THEN PollDeadline ELSE PreflightWindow

\* The last read of a preflight may begin a millisecond before the deadline.
Overrun == IF Polling THEN 0 ELSE PreflightRead - 1

\* The clock shows what is left, but for the times it has wrapped.
ClockTells == \E q \in Int : deadline - now = (Window - elapsed) + q * ClockSize

ClockInv ==
  pc # "idle" =>
    /\ ClockTells
    /\ elapsed <= late + Window + Overrun
    /\ ~ Polling /\ pc = "read" => elapsed <= late + Window - 1

\* What remains is told right, also after the deadline and when the clock wraps.
LEMMA RemainingIsTold ==
  ASSUME TypeInv, ClockInv, pc # "idle"
  PROVE  Remaining = Window - elapsed
<1> DEFINE r == Window - elapsed
           half == ClockSize \div 2
<1>0. /\ Window \in Nat /\ Overrun \in Nat /\ elapsed \in Nat /\ late \in Nat /\ late <= MaxLate
      /\ ClockSize \in Nat /\ ClockSize > 0 /\ MaxLate \in Nat
      /\ 2 * (Window + MaxLate + 1) <= ClockSize
      /\ 2 * (Overrun + MaxLate + 1) <= ClockSize
      /\ elapsed <= late + Window + Overrun
  BY ClockConstants DEF Window, Overrun, TypeInv, ClockInv
<1>1. half \in Nat /\ 2 * half <= ClockSize /\ ClockSize <= 2 * half + 1
  BY <1>0
<1>2. r \in Int /\ r < half /\ -r < half
  BY <1>0, <1>1
<1>3. PICK q \in Int : deadline - now = r + q * ClockSize
  BY DEF ClockInv, ClockTells
<1>4. deadline - now \in Int
  BY <1>0 DEF TypeInv
<1> HIDE DEF r, half
<1>5. CASE r >= 0
  <2>1. r \in 0 .. ClockSize - 1 /\ r = (deadline - now) + (-q) * ClockSize /\ -q \in Int
    BY <1>0, <1>1, <1>2, <1>3, <1>4, <1>5
  <2>2. (deadline - now) % ClockSize = r
    BY <1>0, <1>4, <2>1, ModuloUnique
  <2>3. QED
    BY <1>2, <2>2 DEF Remaining, signed, half, r
<1>6. CASE r < 0
  <2>1. /\ r + ClockSize \in 0 .. ClockSize - 1
        /\ r + ClockSize = (deadline - now) + (1 - q) * ClockSize /\ 1 - q \in Int
    BY <1>0, <1>1, <1>2, <1>3, <1>4, <1>6
  <2>2. (deadline - now) % ClockSize = r + ClockSize
    BY <1>0, <1>4, <2>1, ModuloUnique
  <2>3. ~ (r + ClockSize < half) /\ (r + ClockSize) - ClockSize = r
    BY <1>0, <1>1, <1>2
  <2>4. QED
    BY <2>2, <2>3 DEF Remaining, signed, half, r
<1>7. QED
  BY <1>2, <1>5, <1>6

\* The clock keeps telling it when time passes.
LEMMA ClockGoesOn ==
  ASSUME NEW ms \in Nat, Pass(ms), ClockTells, deadline' = deadline, task' = task,
         TypeInv, Window \in Nat
  PROVE  ClockTells'
<1>1. PICK q \in Int : deadline - now = (Window - elapsed) + q * ClockSize
  BY DEF ClockTells
<1>2. now \in Int /\ deadline \in Int /\ elapsed \in Int /\ ClockSize \in Nat /\ ClockSize > 0
  BY ClockConstants DEF TypeInv
<1>3. PICK p \in Int : (now + ms) % ClockSize = (now + ms) + p * ClockSize
  BY <1>2, Modulo
<1>4. /\ now' = (now + ms) + p * ClockSize /\ elapsed' = elapsed + ms
      /\ deadline' = deadline /\ Window' = Window
  BY <1>3 DEF Pass, Window, Polling
<1>5. (q - p) \in Int /\ deadline' - now' = (Window' - elapsed') + (q - p) * ClockSize
  <2>1. (q - p) * ClockSize = (q * ClockSize) - (p * ClockSize)
    BY <1>2
  <2> DEFINE a == q * ClockSize
             b == p * ClockSize
  <2>2. a \in Int /\ b \in Int
    BY <1>2
  <2> HIDE DEF a, b
  <2>3. \A d, n, w, e, m, n1, e1 \in Int :
          /\ d - n = (w - e) + a
          /\ n1 = (n + m) + b
          /\ e1 = e + m
          => d - n1 = (w - e1) + (a - b)
    BY <2>2
  <2>4. now' \in Int /\ elapsed' \in Int
    BY <1>2, <1>4, <2>2 DEF b
  <2>5. deadline - now' = (Window - elapsed') + (a - b)
    <3>1. deadline - now = (Window - elapsed) + a
      BY <1>1 DEF a
    <3>2. now' = (now + ms) + b /\ elapsed' = elapsed + ms
      BY <1>4 DEF b
    <3>3. Window \in Int /\ ms \in Int
      OBVIOUS
    <3>4. QED
      BY <1>2, <2>2, <2>4, <3>1, <3>2, <3>3
  <2>6. QED
    BY <1>4, <2>1, <2>5 DEF a, b
<1>6. QED
  BY <1>5 DEF ClockTells

\* No call has been made.
LEMMA ClockInit == Init => ClockInv /\ DeadlineIsKept
BY DEF Init, ClockInv, DeadlineIsKept, PollEnded, PreflightEnded

\* The time a call has used stays within its window, the preemption and one
\* read, and it does not give up before the window is over.
LEMMA ClockStep ==
  AccInv /\ TypeInv /\ ClockInv /\ DeadlineIsKept /\ [Next]_vars => ClockInv' /\ DeadlineIsKept'
<1> SUFFICES ASSUME AccInv, TypeInv, ClockInv, DeadlineIsKept, [Next]_vars
             PROVE  ClockInv' /\ DeadlineIsKept'
  OBVIOUS
<1>0. /\ now \in Int /\ deadline \in Int /\ elapsed \in Nat /\ late \in Nat
      /\ pc # "idle" => Polling \/ task.op = "preflight"
      /\ Window \in Nat /\ Overrun \in Nat /\ Window > 0
  BY ClockConstants DEF TypeInv, Window, Overrun, Polling, Ops
\* While a call runs, DeadlineIsKept follows from the bound on its time.
<1>w. ASSUME pc' # "idle", task'.op \in {"poll", "preflight"},
             elapsed' <= late' + Window' + Overrun'
      PROVE  DeadlineIsKept'
  <2>1. (IF task'.op = "poll" THEN PollDeadline ELSE PreflightWindow + PreflightRead - 1)
          = Window' + Overrun'
    BY ClockConstants DEF Window, Overrun, Polling
  <2>2. \A e, l, w, o \in Int : e <= l + w + o => e <= l + (w + o)
    OBVIOUS
  <2>3. Window' \in Int /\ Overrun' \in Int /\ elapsed' \in Int /\ late' \in Int
    BY TypeStep, ClockConstants DEF Window, Overrun, TypeInv
  <2>4. QED
    BY <1>w, <2>1, <2>2, <2>3 DEF DeadlineIsKept, PollEnded, PreflightEnded
\* Nothing of it changes.
<1>k. ASSUME UNCHANGED <<pc, task, now, deadline, elapsed, late, outcome>>
      PROVE  ClockInv' /\ DeadlineIsKept'
  BY <1>k DEF ClockInv, ClockTells, DeadlineIsKept, PollEnded, PreflightEnded,
              Window, Overrun, Polling
\* A call begins.
<1>b. ASSUME NEW t, NEW from, NEW ms \in Nat, Listen(t, from, ms),
             t.op \in {"poll", "preflight"},
             ms = IF t.op = "poll" THEN PollDeadline ELSE PreflightWindow
      PROVE  ClockInv' /\ DeadlineIsKept'
  <2>1. /\ task' = t /\ deadline' = (now + ms) % ClockSize /\ now' = now
        /\ pc' = "loop" /\ elapsed' = 0 /\ late' = 0
    BY <1>b DEF Listen
  <2>2. Window' = ms /\ Overrun' \in Nat
    BY <1>b, <2>1, ClockConstants DEF Window, Overrun, Polling
  <2>3. PICK q \in Int : (now + ms) % ClockSize = (now + ms) + q * ClockSize
    <3>1. now + ms \in Int
      BY <1>0
    <3>2. \A x \in Int : \E q \in Int : x % ClockSize = x + q * ClockSize
      BY ClockConstants, Modulo
    <3>3. QED
      BY <3>1, <3>2, Zenon
  <2>4. deadline' - now' = (Window' - elapsed') + q * ClockSize
    BY <1>0, <2>1, <2>2, <2>3, ClockConstants
  <2>5. elapsed' <= late' + Window' + Overrun'
    <3>1. \A w, o \in Nat : 0 <= 0 + w + o
      OBVIOUS
    <3>2. QED
      BY <2>1, <2>2, <3>1
  <2>6. ClockInv'
    BY <2>1, <2>4, <2>5 DEF ClockInv, ClockTells
  <2>7. QED
    BY <1>b, <1>w, <2>1, <2>5, <2>6
\* A call goes from one place to another.
<1>m. ASSUME pc # "idle", pc' # "idle", UNCHANGED <<task, now, deadline, elapsed, late>>,
             ~ Polling /\ pc' = "read" => elapsed <= late + Window - 1
      PROVE  ClockInv' /\ DeadlineIsKept'
  <2>1. /\ Window' = Window /\ Overrun' = Overrun /\ (Polling' <=> Polling)
        /\ (ClockTells' <=> ClockTells)
    BY <1>m DEF Window, Overrun, Polling, ClockTells
  <2>2. ClockInv'
    BY <1>m, <2>1 DEF ClockInv
  <2>3. QED
    BY <1>0, <1>m, <1>w, <2>1, <2>2 DEF ClockInv, Polling
\* Time passes in a call.
<1>t. ASSUME NEW ms \in Nat, Pass(ms), pc # "idle", pc' # "idle",
             UNCHANGED <<task, deadline>>,
             elapsed + ms <= late' + Window + Overrun,
             ~ Polling /\ pc' = "read" => elapsed + ms <= late' + Window - 1
      PROVE  ClockInv' /\ DeadlineIsKept'
  <2>1. /\ Window' = Window /\ Overrun' = Overrun /\ (Polling' <=> Polling)
        /\ elapsed' = elapsed + ms
    BY <1>t DEF Window, Overrun, Polling, Pass
  <2>2. ClockTells'
    BY <1>0, <1>t, ClockGoesOn DEF ClockInv
  <2>3. ClockInv'
    BY <1>t, <2>1, <2>2 DEF ClockInv
  <2>4. QED
    BY <1>0, <1>t, <1>w, <2>1, <2>3 DEF Polling
\* A call ends.
<1>e. ASSUME pc # "idle", pc' = "idle", UNCHANGED <<task, elapsed, late>>,
             \/ outcome' \in {"Ok", "TransportError", "Busy"}
             \/ Remaining <= 0 /\ outcome' = IF Polling THEN "NoResponse" ELSE "Idle"
      PROVE  ClockInv' /\ DeadlineIsKept'
  <2>1. ClockInv'
    BY <1>e DEF ClockInv
  <2>2. CASE outcome' \in {"Ok", "TransportError", "Busy"}
    BY <1>e, <2>1, <2>2 DEF DeadlineIsKept, PollEnded, PreflightEnded
  <2>3. CASE Remaining <= 0 /\ outcome' = IF Polling THEN "NoResponse" ELSE "Idle"
    <3>1. Remaining = Window - elapsed
      BY <1>e, RemainingIsTold
    <3>2. elapsed >= Window
      BY <1>0, <2>3, <3>1
    <3>3. elapsed <= late + Window + Overrun
      BY <1>e DEF ClockInv
    <3>4. CASE Polling
      <4>1. Window = PollDeadline /\ Overrun = 0 /\ outcome' = "NoResponse" /\ task'.op = "poll"
        BY <1>e, <2>3, <3>4 DEF Window, Overrun, Polling
      <4>2. elapsed' <= late' + PollDeadline /\ elapsed' >= PollDeadline
        BY <1>0, <1>e, <3>2, <3>3, <4>1
      <4>3. QED
        BY <2>1, <4>1, <4>2 DEF DeadlineIsKept, PollEnded, PreflightEnded
    <3>5. CASE ~ Polling
      <4>1. /\ Window = PreflightWindow /\ Overrun = PreflightRead - 1 /\ outcome' = "Idle"
            /\ task'.op = "preflight"
        BY <1>0, <1>e, <2>3, <3>5 DEF Window, Overrun, Polling
      <4>2. elapsed' <= late' + (PreflightWindow + PreflightRead - 1)
            /\ elapsed' >= PreflightWindow
        BY <1>0, <1>e, <3>2, <3>3, <4>1, ClockConstants
      <4>3. QED
        BY <2>1, <4>1, <4>2 DEF DeadlineIsKept, PollEnded, PreflightEnded
    <3>6. QED
      BY <3>4, <3>5
  <2>4. QED
    BY <1>e, <2>2, <2>3
\* A read takes no longer than it may.
<1>d. ASSUME CanRead, NEW ms \in Nat, ms <= ReadTimeout
      PROVE  elapsed + ms <= late + Window + Overrun
  <2>1. pc = "read" /\ ReadTimeout \in Nat /\ Remaining = Window - elapsed
    BY <1>0, <1>d, ReadTimeoutType, RemainingIsTold DEF CanRead
  <2>2. CASE Polling
    <3>1. ReadTimeout <= Remaining
      BY <1>0, <1>d, <2>2, ReadTimeoutType
    <3>2. QED
      BY <1>0, <1>d, <2>1, <3>1
  <2>3. CASE ~ Polling
    <3>1. ReadTimeout = PreflightRead /\ Overrun = PreflightRead - 1
      BY <1>0, <1>d, <2>3, ReadTimeoutType DEF Overrun
    <3>2. elapsed <= late + Window - 1
      BY <2>1, <2>3 DEF ClockInv
    <3>3. QED
      BY <1>0, <1>d, <2>1, <3>1, <3>2, ClockConstants
  <2>4. QED
    BY <2>2, <2>3
<1>1. CASE PollWindow
  <2>1. PICK win \in PolledWindows : Listen(Poll(win), off', PollDeadline)
    BY <1>1 DEF PollWindow
  <2>2. Poll(win).op = "poll"
    BY DEF Poll
  <2>3. QED
    BY <1>b, <2>1, <2>2, ClockConstants
<1>2. CASE PollNotSent
  BY <1>2 DEF PollNotSent, Ready, Polled, ClockInv, DeadlineIsKept, PollEnded, PreflightEnded
<1>3. CASE PreflightBusIdle
  <2>1. Listen(Preflight, off, PreflightWindow) /\ Preflight.op = "preflight"
    BY <1>3 DEF PreflightBusIdle, Preflight
  <2>2. QED
    BY <1>b, <2>1, ClockConstants
<1>4. CASE TakeCoverage
  BY <1>4, <1>k DEF TakeCoverage
<1>5. CASE KeepOn
  <2>1. Remaining = Window - elapsed /\ Remaining > 0
    BY <1>5, RemainingIsTold DEF KeepOn
  <2>2. elapsed <= late + Window - 1
    BY <1>0, <2>1
  <2>3. QED
    BY <1>5, <1>m, <2>2 DEF KeepOn, history
<1>6. CASE GiveUp
  BY <1>6, <1>e DEF GiveUp, End, Polled
<1>7. CASE Preempted
  <2>1. Pass(1) /\ pc # "idle" /\ late' = late + 1 /\ pc' = pc /\ UNCHANGED <<task, deadline>>
    BY <1>7 DEF Preempted
  <2>2. elapsed + 1 <= late' + Window + Overrun
    BY <1>0, <2>1 DEF ClockInv
  <2>3. ~ Polling /\ pc' = "read" => elapsed + 1 <= late' + Window - 1
    BY <1>0, <2>1 DEF ClockInv
  <2>4. QED
    BY <1>t, <2>1, <2>2, <2>3
<1>8. CASE Receive
  <2>1. PICK ms \in 0 .. ReadTimeout : Pass(ms)
    BY <1>8 DEF Receive
  <2>2. /\ CanRead /\ pc # "idle" /\ pc' \in {"loop", "drain"} /\ late' = late
        /\ UNCHANGED <<task, deadline>>
    BY <1>8 DEF Receive, CanRead
  <2>3. ms \in Nat /\ ms <= ReadTimeout
    BY <1>0, <2>1, <2>2, ReadTimeoutType
  <2>4. QED
    BY <1>d, <1>t, <2>1, <2>2, <2>3
<1>9. CASE ReadTimesOut
  <2>1. /\ CanRead /\ pc # "idle" /\ pc' = "loop" /\ late' = late /\ Pass(ReadTimeout)
        /\ UNCHANGED <<task, deadline>>
    BY <1>9 DEF ReadTimesOut, CanRead
  <2>2. ReadTimeout \in Nat /\ ReadTimeout <= ReadTimeout
    BY <1>0, <2>1, ReadTimeoutType
  <2>3. QED
    BY <1>d, <1>t, <2>1, <2>2
<1>10. CASE ReadFails
  <2>1. CanRead /\ pc # "idle" /\ late' = late /\ UNCHANGED <<task, deadline>>
    BY <1>10 DEF ReadFails, CanRead
  <2>2. CASE Polling
    BY <1>10, <1>e, <2>1, <2>2 DEF ReadFails, End, Polled
  <2>3. CASE ~ Polling
    <3>1. PICK ms \in 1 .. ReadTimeout : Pass(ms)
      BY <1>10, <2>3 DEF ReadFails
    <3>2. ms \in Nat /\ ms <= ReadTimeout /\ pc' = "loop"
      BY <1>0, <1>10, <2>1, <2>3, <3>1, ReadTimeoutType DEF ReadFails
    <3>3. QED
      BY <1>d, <1>t, <2>1, <3>1, <3>2
  <2>4. QED
    BY <2>2, <2>3
\* A drain takes no time.
<1>f. ASSUME pc = "drain", pc' # "idle", UNCHANGED <<task, now, deadline, elapsed, late>>,
             pc' = "read" => Polling
      PROVE  ClockInv' /\ DeadlineIsKept'
  BY <1>f, <1>m
<1>11. CASE DropJunk
  BY <1>11, <1>f DEF DropJunk, InDrain, LeaveDrain
<1>12. CASE Resync
  BY <1>12, <1>f DEF Resync, InDrain, history
<1>13. CASE AwaitMore
  BY <1>13, <1>f DEF AwaitMore, AtFrame, InDrain, LeaveDrain
<1>14. CASE TakeResponse
  BY <1>14, <1>e DEF TakeResponse, AtFrame, InDrain, End, Polled
<1>15. CASE RefuseBus
  BY <1>15, <1>e DEF RefuseBus, AtFrame, InDrain, End, history
<1>16. CASE SkipFrame
  BY <1>16, <1>f DEF SkipFrame, AtFrame, InDrain, history
<1>17. CASE DropByte
  BY <1>17, <1>f DEF DropByte, AtFrame, InDrain, history
<1>18. CASE UNCHANGED vars
  BY <1>18, <1>k DEF vars, history
<1>19. QED
  BY <1>1, <1>2, <1>3, <1>4, <1>5, <1>6, <1>7, <1>8, <1>9, <1>10, <1>11, <1>12, <1>13,
     <1>14, <1>15, <1>16, <1>17, <1>18
  DEF Next, Call, Step

\* A call neither gives up before its deadline nor goes on longer after it
\* than it was preempted and its last read took, for every clock it may start
\* at and also when the counter of milliseconds wraps meanwhile.
THEOREM DeadlinesAreKept == Spec => []DeadlineIsKept
BY AccInit, AccStep, TypeInit, TypeStep, ClockInit, ClockStep, PTL DEF Spec
-----------------------------------------------------------------------------
(* What the drain has passed *)

\* An intact frame the call looks for: of the polled window, or any at all.
Wanted(i) == FS!Intact(i) /\ (Polling => is_match(FrameOf(i), task.win))

\* An earlier frame of the call, intact, contains the byte at offset i.
OwnedAt(i, n) ==
  \E j \in begin .. i - 1 :
    /\ plausible_header(stream, j)
    /\ i < j + declared_len(FS!FrameAt(j))
    /\ parse_frame(SubSeq(stream, j + 1, n)) = "OK"

\* What was wanted in front of the accumulator was thrown away by the overflow
\* guard or lies in a frame that was skipped.
Passed(n) == \A i \in begin .. HeadAt - 1 : Wanted(i) => i \in lost \/ OwnedAt(i, n)

\* Within the first n bytes there is no whole header at the front of the
\* accumulator, or its frame is not complete.
HeadIncomplete(n) ==
  \/ n < HeadAt + HDR_LEN
  \/ /\ plausible_header(stream, HeadAt)
     /\ parse_frame(SubSeq(stream, HeadAt + 1, n)) = "TRUNCATED"

ScanInv ==
  /\ pc = "drain" => Passed(off)
  /\ pc \in {"loop", "read"} => /\ Passed(drained) /\ HeadIncomplete(drained)
                               /\ HeadAt <= drained
  /\ pc \in {"loop", "read"} /\ ~ Polling => drained = off

\* The accumulator is a piece of the stream.
LEMMA AccIsPiece ==
  ASSUME AccInv
  PROVE  /\ HeadAt \in Nat /\ begin <= HeadAt /\ HeadAt + Len(acc) = off
         /\ acc = SubSeq(stream, HeadAt + 1, off)
<1>1. /\ stream \in Seq(Byte) /\ off \in Nat /\ begin \in Nat /\ off <= Len(stream)
      /\ acc \in Seq(Byte) /\ begin + Len(acc) <= off /\ Len(acc) \in Nat
      /\ \A k \in 1 .. Len(acc) : acc[k] = stream[HeadAt + k]
  BY DEF AccInv, HeadAt
<1>2. HeadAt \in Nat /\ begin <= HeadAt /\ HeadAt + Len(acc) = off
  BY <1>1 DEF HeadAt
<1> DEFINE h == HeadAt
           piece == SubSeq(stream, h + 1, off)
<1> HIDE DEF h
<1>3. piece \in Seq(Byte) /\ Len(piece) = off - h /\ \A k \in 1 .. off - h : piece[k] = stream[h + k]
  BY <1>1, <1>2, SubSeqProperties DEF h
<1> HIDE DEF piece
<1>4. Len(piece) = Len(acc) /\ \A k \in 1 .. Len(piece) : piece[k] = acc[k]
  BY <1>1, <1>2, <1>3 DEF h
<1>5. piece = acc
  BY <1>1, <1>3, <1>4, SeqEqual
<1>6. QED
  BY <1>2, <1>5 DEF piece, h

\* The frame at the front of the accumulator is the stream's at that place.
LEMMA FrameInFront ==
  ASSUME AccInv, Len(acc) >= HDR_LEN
  PROVE  LET w == FS!FrameAt(HeadAt)
         IN  /\ plausible_header(acc, 0) <=> plausible_header(stream, HeadAt)
             /\ declared_len(w) = declared_len(acc) /\ declared_len(acc) \in Nat
             /\ parse_frame(acc) # "TRUNCATED" => parse_frame(w) = parse_frame(acc)
             /\ parse_frame(acc) = "OK" => parsed_frame(w) = parsed_frame(acc)
             /\ parse_frame(acc) = "TRUNCATED" => Len(acc) < declared_len(acc)
<1>1. /\ HeadAt \in Nat /\ HeadAt + HDR_LEN <= off /\ off <= Len(stream)
      /\ Len(stream) \in Nat /\ off \in Nat /\ off - HeadAt = Len(acc)
      /\ stream \in Seq(Byte)
  BY AccIsPiece DEF AccInv, HDR_LEN
<1>2. acc = SubSeq(stream, HeadAt + 1, off)
  BY AccIsPiece
<1>3. QED
  BY <1>1, <1>2, FrameOfPiece DEF FS!FrameAt

\* Where the accumulator has no header, no intact frame of the stream begins.
LEMMA NothingIntact ==
  ASSUME AccInv, NEW k \in Nat, k + HDR_LEN <= Len(acc), ~ plausible_header(acc, k)
  PROVE  ~ FS!Intact(HeadAt + k)
<1>1. /\ HeadAt \in Nat /\ off \in Nat /\ HeadAt + k + HDR_LEN <= off
      /\ off <= Len(stream) /\ stream \in Seq(Byte)
  <2>1. HeadAt \in Nat /\ HeadAt + Len(acc) = off
    BY AccIsPiece
  <2>2. off \in Nat /\ off <= Len(stream) /\ stream \in Seq(Byte) /\ acc \in Seq(Byte)
    BY DEF AccInv
  <2>3. QED
    BY <2>1, <2>2 DEF HDR_LEN
<1>2. ~ plausible_header(stream, HeadAt + k)
  <2>1. acc = SubSeq(stream, HeadAt + 1, off)
    BY AccIsPiece
  <2>2. QED
    BY <1>1, <2>1, HeaderOfPiece
<1>3. QED
  BY <1>2, SameCodec DEF FS!Intact

\* The front moves on over bytes that may be passed.
LEMMA Advance ==
  ASSUME AccInv, Passed(off), NEW n \in Nat,
         stream' = stream, begin' = begin, task' = task,
         lost \subseteq lost', HeadAt' = HeadAt + n,
         \A i \in HeadAt .. HeadAt + n - 1 : Wanted(i) => i \in lost' \/ OwnedAt(i, off)
  PROVE  \A i \in begin' .. HeadAt' - 1 : Wanted(i)' => i \in lost' \/ OwnedAt(i, off)
<1>1. HeadAt \in Nat /\ begin \in Nat
  BY AccIsPiece DEF AccInv
<1>2. \A i : Wanted(i)' <=> Wanted(i)
  BY DEF Wanted, FrameOf, Polling, FS!Intact, FS!FrameAt
<1> DEFINE h == HeadAt
<1>3. \A i \in begin .. h + n - 1 : i \in begin .. h - 1 \/ i \in h .. h + n - 1
  <2> HIDE DEF h
  <2>1. QED
    BY <1>1 DEF h
<1>4. \A i \in begin .. HeadAt + n - 1 : Wanted(i) => i \in lost' \/ OwnedAt(i, off)
  BY <1>3 DEF Passed
<1>5. begin' = begin /\ HeadAt' = HeadAt + n
  OBVIOUS
<1>6. begin' .. HeadAt' - 1 = begin .. HeadAt + n - 1
  BY <1>1, <1>5
<1>7. QED
  BY <1>2, <1>4, <1>6, Zenon

\* What a frame owns it still does when more of the stream has come in.
LEMMA OwnedStays ==
  ASSUME stream \in Seq(Byte), begin \in Nat, NEW n \in Nat, NEW m \in Nat,
         n <= m, m <= Len(stream), NEW i \in Nat, i < n, OwnedAt(i, n)
  PROVE  OwnedAt(i, m)
<1>1. PICK j \in begin .. i - 1 : /\ plausible_header(stream, j)
                                  /\ i < j + declared_len(FS!FrameAt(j))
                                  /\ parse_frame(SubSeq(stream, j + 1, n)) = "OK"
  BY DEF OwnedAt
<1>2. j \in Nat /\ j < n
  BY <1>1
<1>3. Len(SubSeq(stream, j + 1, n)) = n - j
  BY <1>2
<1>4. j + HDR_LEN <= n
  BY <1>1, <1>2, <1>3 DEF parse_frame, HDR_LEN
<1>5. parse_frame(SubSeq(stream, j + 1, m)) = "OK"
  BY <1>1, <1>2, <1>4, FrameOfPiece
<1>6. QED
  BY <1>1, <1>5 DEF OwnedAt

\* A call that has passed something has passed it also in what it reads later.
LEMMA PassedStays ==
  ASSUME AccInv, NEW n \in Nat, NEW m \in Nat, n <= m, m <= Len(stream),
         Passed(n), HeadAt <= n
  PROVE  Passed(m)
<1>1. HeadAt \in Nat /\ begin \in Nat /\ stream \in Seq(Byte)
  BY AccIsPiece DEF AccInv
<1>2. \A i \in begin .. HeadAt - 1 : i \in Nat /\ i < n
  BY <1>1
<1>3. \A i \in Nat : i < n /\ OwnedAt(i, n) => OwnedAt(i, m)
  BY <1>1, OwnedStays
<1>4. QED
  BY <1>2, <1>3 DEF Passed

\* Behind the front nothing whole was there to be taken, but what the header
\* at the front claims.
LEMMA NothingWhole ==
  ASSUME AccInv, NEW n \in Nat, begin <= n, n <= off, Passed(n), HeadIncomplete(n),
         NEW i \in begin .. n - 1, IntactWithin(i, n), Wanted(i)
  PROVE  ClaimedAt(i, n) \/ i \in lost
<1>1. /\ HeadAt \in Nat /\ begin \in Nat /\ off \in Nat /\ stream \in Seq(Byte)
      /\ off <= Len(stream) /\ begin <= HeadAt /\ Len(stream) \in Nat /\ i \in Nat
  BY AccIsPiece DEF AccInv
<1>2. CASE i < HeadAt
  <2>1. i \in lost \/ OwnedAt(i, n)
    BY <1>1, <1>2 DEF Passed
  <2>2. OwnedAt(i, n) => ClaimedAt(i, n)
    BY DEF OwnedAt, ClaimedAt
  <2>3. QED
    BY <2>1, <2>2
<1>3. CASE ~ (i < HeadAt)
  <2>1. FS!Intact(i) /\ i + declared_len(FS!FrameAt(i)) <= n
    BY DEF IntactWithin
  <2>2. FS!FrameAt(i) \in Seq(Byte) /\ plausible_header(FS!FrameAt(i), 0)
    <3>1. plausible_header(stream, i)
      BY <2>1, SameCodec DEF FS!Intact
    <3>2. i + HDR_LEN <= Len(stream)
      BY <3>1 DEF plausible_header, has_magic
    <3>3. QED
      BY <1>1, <3>1, <3>2, FrameOfPiece DEF FS!FrameAt, HDR_LEN
  <2>3. parse_frame(FS!FrameAt(i)) = "OK"
    BY <2>1, SameCodec DEF FS!Intact
  <2>4. declared_len(FS!FrameAt(i)) \in Nat /\ declared_len(FS!FrameAt(i)) >= MIN_FRAME_LEN
    BY <2>2, <2>3, ParseAtHeader DEF MIN_FRAME_LEN, HDR_LEN, CHK_LEN
  <2>5. HeadAt + HDR_LEN <= n
    <3> DEFINE d == declared_len(FS!FrameAt(i))
               h == HeadAt
    <3> HIDE DEF d, h
    <3>1. d \in Nat /\ d >= 9 /\ i + d <= n /\ h \in Nat /\ ~ (i < h)
      BY <1>1, <1>3, <2>1, <2>4 DEF d, h, MIN_FRAME_LEN, HDR_LEN, CHK_LEN
    <3>2. h + 8 <= n
      BY <1>1, <3>1
    <3>3. QED
      BY <3>2 DEF h, HDR_LEN
  <2>6. /\ plausible_header(stream, HeadAt)
        /\ parse_frame(SubSeq(stream, HeadAt + 1, n)) = "TRUNCATED"
    BY <1>1, <2>5 DEF HeadIncomplete, HDR_LEN
  <2>7. n < HeadAt + declared_len(FS!FrameAt(HeadAt))
    <3>1. /\ n - HeadAt < declared_len(SubSeq(stream, HeadAt + 1, n))
          /\ declared_len(FS!FrameAt(HeadAt)) = declared_len(SubSeq(stream, HeadAt + 1, n))
          /\ declared_len(SubSeq(stream, HeadAt + 1, n)) \in Nat
      BY <1>1, <2>5, <2>6, FrameOfPiece DEF FS!FrameAt
    <3>2. QED
      BY <1>1, <3>1
  <2>8. i # HeadAt
    BY <2>1, <2>4, <2>7
  <2>9. HeadAt \in begin .. i - 1
    BY <1>1, <1>3, <2>8
  <2>10. i < HeadAt + declared_len(FS!FrameAt(HeadAt))
    <3>1. i < n
      BY <1>1
    <3>2. declared_len(FS!FrameAt(HeadAt)) \in Nat
      BY <1>1, <2>5, FrameOfPiece DEF FS!FrameAt
    <3>3. QED
      BY <1>1, <2>7, <3>1, <3>2
  <2>11. QED
    BY <2>6, <2>9, <2>10 DEF ClaimedAt
<1>4. QED
  BY <1>2, <1>3

\* No call has been made.
LEMMA ScanInit == Init => ScanInv /\ NoResponseIsTrue /\ PreflightIsTrue
BY DEF Init, ScanInv, NoResponseIsTrue, PreflightIsTrue, PollEnded, PreflightEnded, NoTask

\* Every step of a call passes only what may be passed, and a call that ends
\* tells what it has passed.
LEMMA ScanStep ==
  AccInv /\ TypeInv /\ ScanInv /\ NoResponseIsTrue /\ PreflightIsTrue /\ [Next]_vars
    => ScanInv' /\ NoResponseIsTrue' /\ PreflightIsTrue'
<1> SUFFICES ASSUME AccInv, TypeInv, ScanInv, NoResponseIsTrue, PreflightIsTrue, [Next]_vars
             PROVE  ScanInv' /\ NoResponseIsTrue' /\ PreflightIsTrue'
  OBVIOUS
<1>0. /\ HeadAt \in Nat /\ begin \in Nat /\ off \in Nat /\ begin <= HeadAt /\ HeadAt <= off
      /\ HeadAt + Len(acc) = off /\ Len(acc) \in Nat /\ acc \in Seq(Byte)
      /\ stream \in Seq(Byte) /\ off <= Len(stream) /\ Len(stream) \in Nat
      /\ acc = SubSeq(stream, HeadAt + 1, off)
  BY AccIsPiece DEF AccInv
<1>t. drained \in Nat /\ begin <= drained /\ drained <= off
  BY <1>0 DEF TypeInv
\* While a call runs there is nothing to tell.
<1>w. ASSUME pc' # "idle" PROVE NoResponseIsTrue' /\ PreflightIsTrue'
  BY <1>w DEF NoResponseIsTrue, PreflightIsTrue, PollEnded, PreflightEnded
\* Nothing of it changes.
<1>k. ASSUME UNCHANGED <<stream, off, acc, begin, drained, lost, task, pc, outcome>>
      PROVE  ScanInv' /\ NoResponseIsTrue' /\ PreflightIsTrue'
  <2>1. /\ HeadAt' = HeadAt /\ (Polling' <=> Polling)
        /\ \A i : FrameOf(i)' = FrameOf(i) /\ (FS!Intact(i)' <=> FS!Intact(i))
    BY <1>k DEF HeadAt, Polling, FrameOf, FS!Intact, FS!FrameAt
  <2>2. /\ \A i, n : (OwnedAt(i, n)' <=> OwnedAt(i, n)) /\ (ClaimedAt(i, n)' <=> ClaimedAt(i, n))
        /\ \A i, n : IntactWithin(i, n)' <=> IntactWithin(i, n)
        /\ \A i : Wanted(i)' <=> Wanted(i)
    BY <1>k, <2>1 DEF OwnedAt, ClaimedAt, IntactWithin, Wanted, FS!FrameAt
  <2>3. ScanInv'
    BY <1>k, <2>1, <2>2 DEF ScanInv, Passed, HeadIncomplete
  <2>4. NoResponseIsTrue'
    BY <1>k, <2>1, <2>2 DEF NoResponseIsTrue, PollEnded
  <2>5. PreflightIsTrue'
    BY <1>k, <2>2 DEF PreflightIsTrue, PreflightEnded
  <2>6. QED
    BY <2>3, <2>4, <2>5
\* A call begins.
<1>b. ASSUME NEW t, NEW from \in Nat, NEW ms, Listen(t, from, ms), off' = from, acc = <<>>
      PROVE  ScanInv' /\ NoResponseIsTrue' /\ PreflightIsTrue'
  <2>1. pc' = "loop" /\ acc' = <<>> /\ begin' = from /\ drained' = from
    BY <1>b DEF Listen
  <2>2. HeadAt' = from
    <3>1. Len(acc') = 0
      BY <2>1
    <3>2. \A l : l = 0 => from - l = from
      OBVIOUS
    <3>3. QED
      BY <1>b, <3>1, <3>2 DEF HeadAt
  <2>3. \A i \in begin' .. HeadAt' - 1 : FALSE
    BY <2>1, <2>2
  <2>4. \A n : Passed(n)'
    BY <2>3 DEF Passed
  <2>5. HeadIncomplete(drained)'
    BY <2>1, <2>2 DEF HeadIncomplete, HDR_LEN
  <2>6. ScanInv'
    BY <1>b, <2>1, <2>2, <2>4, <2>5 DEF ScanInv, Passed
  <2>7. QED
    BY <1>w, <2>1, <2>6
\* The drain goes on behind the first n bytes.
<1>d. ASSUME NEW n \in Nat, n <= Len(acc), Discard(n), pc = "drain", pc' # "idle",
             UNCHANGED <<stream, off, begin, task, lost>>,
             \A i \in HeadAt .. HeadAt + n - 1 : Wanted(i) => OwnedAt(i, off)
      PROVE  HeadAt' = HeadAt + n /\ Passed(off)'
  <2>1. HeadAt' = HeadAt + n
    BY <1>d, AccDiscard
  <2>2. \A i \in begin' .. HeadAt' - 1 : Wanted(i)' => i \in lost' \/ OwnedAt(i, off)
    BY <1>d, <2>1, Advance DEF ScanInv
  <2>3. \A i : OwnedAt(i, off)' <=> OwnedAt(i, off)
    BY <1>d DEF OwnedAt, FS!FrameAt
  <2>4. QED
    BY <1>d, <2>1, <2>2, <2>3 DEF Passed
\* The drain is over.
<1>l. ASSUME Passed(off)', HeadIncomplete(off)', HeadAt' \in Nat, HeadAt' <= off',
             pc' \in {"loop", "read"}, drained' = off, off' = off
      PROVE  ScanInv' /\ NoResponseIsTrue' /\ PreflightIsTrue'
  <2>1. pc' # "idle" /\ pc' # "drain" /\ drained' = off'
    BY <1>l
  <2>2. Passed(drained)' /\ HeadIncomplete(drained)' /\ HeadAt' <= drained'
    BY <1>l, <2>1 DEF Passed, HeadIncomplete, OwnedAt
  <2>3. QED
    BY <1>w, <2>1, <2>2 DEF ScanInv
<1>1. CASE PollWindow
  <2>1. PICK win \in PolledWindows, o \in Flushed :
          off' = o /\ Listen(Poll(win), o, PollDeadline)
    BY <1>1 DEF PollWindow
  <2>2. acc = <<>>
    BY <1>1 DEF PollWindow, Ready, AccInv
  <2>3. QED
    BY <1>b, <2>1, <2>2, FlushOnly
<1>2. CASE PollNotSent
  <2>1. pc' = "idle" /\ outcome' = "TransportError" /\ task'.op = "poll"
    BY <1>2 DEF PollNotSent, Ready, Polled, Poll
  <2>2. QED
    BY <2>1 DEF ScanInv, NoResponseIsTrue, PreflightIsTrue, PollEnded, PreflightEnded
<1>3. CASE PreflightBusIdle
  BY <1>0, <1>3, <1>b DEF PreflightBusIdle, Ready, AccInv
<1>4. CASE TakeCoverage
  BY <1>4, <1>k DEF TakeCoverage
<1>5. CASE KeepOn
  <2>1. pc = "loop" /\ UNCHANGED <<stream, off, acc, begin, drained, lost, task>>
        /\ pc' = IF Polling THEN "drain" ELSE "read"
    BY <1>5 DEF KeepOn, history
  <2>2. Passed(drained) /\ HeadIncomplete(drained) /\ HeadAt <= drained
    BY <2>1 DEF ScanInv
  <2>3. Passed(off)
    BY <1>0, <1>t, <2>2, PassedStays
  <2>4. /\ HeadAt' = HeadAt /\ (Polling' <=> Polling)
        /\ \A n : (Passed(n)' <=> Passed(n)) /\ (HeadIncomplete(n)' <=> HeadIncomplete(n))
    <3>1. \A i : Wanted(i)' <=> Wanted(i)
      BY <2>1 DEF Wanted, Polling, FrameOf, FS!Intact, FS!FrameAt
    <3>2. \A i, n : OwnedAt(i, n)' <=> OwnedAt(i, n)
      BY <2>1 DEF OwnedAt, FS!FrameAt
    <3>3. QED
      BY <2>1, <3>1, <3>2 DEF Passed, HeadIncomplete, HeadAt, Polling
  <2>5. Passed(off)' /\ Passed(drained)' /\ HeadIncomplete(drained)'
    BY <2>1, <2>2, <2>3, <2>4 DEF Passed, HeadIncomplete, OwnedAt
  <2>6. ScanInv'
    BY <2>1, <2>2, <2>4, <2>5 DEF ScanInv
  <2>7. QED
    BY <1>w, <2>1, <2>6
<1>6. CASE GiveUp
  <2>1. /\ pc \in {"loop", "read"} /\ pc' = "idle" /\ (pc = "read" => Polling)
        /\ UNCHANGED <<stream, off, begin, drained, lost, task>>
        /\ outcome' = IF Polling THEN "NoResponse" ELSE "Idle"
    BY <1>6 DEF GiveUp, End, Polled
  <2>2. /\ Passed(drained) /\ HeadIncomplete(drained)
        /\ ~ Polling => drained = off
    BY <2>1 DEF ScanInv
  <2>3. \A i \in begin .. drained - 1 :
          IntactWithin(i, drained) /\ Wanted(i) => ClaimedAt(i, drained) \/ i \in lost
    BY <1>t, <2>2, NothingWhole
  <2>4. /\ \A i, n : (ClaimedAt(i, n)' <=> ClaimedAt(i, n))
                     /\ (IntactWithin(i, n)' <=> IntactWithin(i, n))
        /\ \A i : Wanted(i)' <=> Wanted(i)
        /\ \A i : FrameOf(i)' = FrameOf(i)
    BY <2>1 DEF ClaimedAt, IntactWithin, Wanted, Polling, FrameOf, FS!Intact, FS!FrameAt
  <2>5. ScanInv'
    BY <2>1 DEF ScanInv
  <2>6. CASE Polling
    <3>1. \A i \in begin .. drained - 1 :
            IntactWithin(i, drained) /\ is_match(FrameOf(i), task.win)
              => ClaimedAt(i, drained) \/ i \in lost
      BY <2>3 DEF Wanted, IntactWithin
    <3>2. NoResponseIsTrue'
      BY <2>1, <2>4, <3>1 DEF NoResponseIsTrue
    <3>3. PreflightIsTrue'
      BY <2>1, <2>6 DEF PreflightIsTrue, PreflightEnded, Polling
    <3>4. QED
      BY <2>5, <3>2, <3>3
  <2>7. CASE ~ Polling
    <3>1. drained = off /\ outcome' = "Idle" /\ off' = off
      BY <2>1, <2>2, <2>7
    <3>2. \A i \in begin .. off - 1 : IntactWithin(i, off) /\ ~ ClaimedAt(i, off) => i \in lost
      BY <2>3, <2>7, <3>1 DEF Wanted, IntactWithin
    <3>3. PreflightIsTrue'
      BY <2>1, <2>4, <3>1, <3>2 DEF PreflightIsTrue
    <3>4. NoResponseIsTrue'
      BY <3>1 DEF NoResponseIsTrue
    <3>5. QED
      BY <2>5, <3>3, <3>4
  <2>8. QED
    BY <2>6, <2>7
<1>7. CASE Preempted
  BY <1>7, <1>k DEF Preempted
<1>8. CASE Receive
  <2>1. PICK n \in ReadSizes : /\ n <= Space /\ off + n <= Len(stream)
                               /\ acc' = acc \o SubSeq(stream, off + 1, off + n)
                               /\ off' = off + n
    BY <1>8 DEF Receive
  <2>2. n \in Nat /\ n > 0
    BY MasterAssumption
  <2>3. /\ pc = "read" /\ pc' = IF Polling THEN "loop" ELSE "drain"
        /\ UNCHANGED <<stream, begin, drained, lost, task>>
    BY <1>8 DEF Receive, CanRead
  <2>4. HeadAt' = HeadAt
    <3>1. Gain(n) /\ pc' # "idle"
      BY <2>1, <2>3 DEF Gain
    <3>2. QED
      BY <2>1, <2>2, <3>1, AccReceive
  <2>5. /\ (Polling' <=> Polling)
        /\ \A m : (Passed(m)' <=> Passed(m)) /\ (HeadIncomplete(m)' <=> HeadIncomplete(m))
    <3>1. \A i : Wanted(i)' <=> Wanted(i)
      BY <2>3 DEF Wanted, Polling, FrameOf, FS!Intact, FS!FrameAt
    <3>2. \A i, m : OwnedAt(i, m)' <=> OwnedAt(i, m)
      BY <2>3 DEF OwnedAt, FS!FrameAt
    <3>3. QED
      BY <2>3, <2>4, <3>1, <3>2 DEF Passed, HeadIncomplete, Polling
  <2>6. Passed(drained) /\ HeadIncomplete(drained) /\ HeadAt <= drained
    BY <2>3 DEF ScanInv
  <2>7. Passed(off + n)
    <3>1. off + n \in Nat /\ drained <= off + n
      BY <1>0, <1>t, <2>2
    <3>2. QED
      BY <1>t, <2>1, <2>6, <3>1, PassedStays
  <2>8. Passed(off)' /\ Passed(drained)' /\ HeadIncomplete(drained)'
    BY <2>1, <2>3, <2>5, <2>6, <2>7 DEF Passed, HeadIncomplete, OwnedAt
  <2>9. ScanInv'
    BY <2>3, <2>4, <2>5, <2>6, <2>8 DEF ScanInv
  <2>10. QED
    BY <1>w, <2>3, <2>9
\* The call goes back to its loop without more bytes.
<1>r. ASSUME pc = "read", pc' = "loop",
             UNCHANGED <<stream, off, acc, begin, drained, lost, task>>
      PROVE  ScanInv' /\ NoResponseIsTrue' /\ PreflightIsTrue'
  <2>1. HeadAt' = HeadAt /\ (Polling' <=> Polling)
    BY <1>r DEF HeadAt, Polling
  <2>2. \A i : Wanted(i)' <=> Wanted(i)
    BY <1>r DEF Wanted, Polling, FrameOf, FS!Intact, FS!FrameAt
  <2>3. Passed(drained)' <=> Passed(drained)
    BY <1>r, <2>1, <2>2 DEF Passed, OwnedAt, FS!FrameAt
  <2>4. HeadIncomplete(drained)' <=> HeadIncomplete(drained)
    BY <1>r, <2>1 DEF HeadIncomplete
  <2>5. QED
    BY <1>r, <1>w, <2>1, <2>3, <2>4 DEF ScanInv
<1>9. CASE ReadTimesOut
  BY <1>9, <1>r DEF ReadTimesOut, CanRead
<1>10. CASE ReadFails
  <2>1. CASE Polling
    <3>1. pc' = "idle" /\ outcome' = "TransportError" /\ task' = task
      BY <1>10, <2>1 DEF ReadFails, End, Polled
    <3>2. QED
      BY <2>1, <3>1 DEF ScanInv, NoResponseIsTrue, PreflightIsTrue, PreflightEnded, Polling
  <2>2. CASE ~ Polling
    BY <1>10, <1>r, <2>2 DEF ReadFails, CanRead
  <2>3. QED
    BY <2>1, <2>2
<1>11. CASE DropJunk
  <2> DEFINE n == Len(acc) - TailLen
  <2>1. /\ Start = Len(acc) /\ Discard(n) /\ Len(acc) >= HDR_LEN
        /\ pc = "drain" /\ pc' \in {"loop", "read"} /\ drained' = off
        /\ UNCHANGED <<stream, off, begin, task, lost>>
    BY <1>11 DEF DropJunk, InDrain, LeaveDrain
  <2>2. n \in Nat /\ n <= Len(acc) /\ n + 7 = Len(acc)
    BY <1>0, <2>1 DEF TailLen, HDR_LEN
  <2>3. \A k \in 0 .. Len(acc) - 1 : ~ plausible_header(acc, k)
    BY <1>0, <2>1, FindFrameStart DEF Start
  <2> HIDE DEF n
  <2>4. ASSUME NEW i \in HeadAt .. HeadAt + n - 1 PROVE ~ Wanted(i)
    <3> DEFINE k == i - HeadAt
    <3>1. k \in Nat /\ HeadAt + k = i /\ k \in 0 .. Len(acc) - 1 /\ k + HDR_LEN <= Len(acc)
      BY <1>0, <2>2 DEF HDR_LEN
    <3> HIDE DEF k
    <3>2. ~ FS!Intact(HeadAt + k)
      BY <2>3, <3>1, NothingIntact
    <3>3. QED
      BY <3>1, <3>2 DEF Wanted
  <2>5. HeadAt' = HeadAt + n /\ Passed(off)'
    BY <1>d, <2>1, <2>2, <2>4
  <2>6. HeadAt' \in Nat /\ off = HeadAt' + 7 /\ off' = off
    BY <1>0, <2>1, <2>2, <2>5
  <2>6a. \A h \in Nat : h <= h + 7 /\ h + 7 < h + HDR_LEN
    BY DEF HDR_LEN
  <2>7. HeadIncomplete(off)'
    BY <2>6, <2>6a, Zenon DEF HeadIncomplete
  <2>8. HeadAt' <= off'
    BY <2>6, <2>6a, Zenon
  <2>9. QED
    BY <1>l, <2>1, <2>5, <2>6, <2>7, <2>8
<1>12. CASE Resync
  <2>1. /\ Start \in 1 .. Len(acc) - 1 /\ Discard(Start) /\ pc = "drain" /\ pc' = "drain"
        /\ UNCHANGED <<stream, off, begin, task, lost>>
    BY <1>12 DEF Resync, InDrain, history
  <2>2. /\ Start \in Nat /\ Start <= Len(acc)
        /\ \A k \in 0 .. Start - 1 : ~ plausible_header(acc, k)
        /\ Start + HDR_LEN <= Len(acc)
    <3>1. Start \in Nat /\ Start < Len(acc)
      BY <1>0, <2>1
    <3>2. /\ \A k \in 0 .. Start - 1 : ~ plausible_header(acc, k)
          /\ plausible_header(acc, Start)
      BY <1>0, <3>1, FindFrameStart DEF Start
    <3>3. Start + HDR_LEN <= Len(acc)
      BY <3>2 DEF plausible_header, has_magic
    <3>4. QED
      BY <3>1, <3>2, <3>3
  <2>3. ASSUME NEW i \in HeadAt .. HeadAt + Start - 1 PROVE ~ Wanted(i)
    <3> DEFINE k == i - HeadAt
    <3>1. k \in Nat /\ HeadAt + k = i /\ k \in 0 .. Start - 1 /\ k + HDR_LEN <= Len(acc)
      BY <1>0, <2>2 DEF HDR_LEN
    <3> HIDE DEF k
    <3>2. ~ FS!Intact(HeadAt + k)
      BY <2>2, <3>1, NothingIntact
    <3>3. QED
      BY <3>1, <3>2 DEF Wanted
  <2>4. Passed(off)'
    BY <1>d, <2>1, <2>2, <2>3
  <2>5. QED
    BY <1>w, <2>1, <2>4 DEF ScanInv
<1>13. CASE AwaitMore
  <2>1. /\ pc = "drain" /\ pc' \in {"loop", "read"} /\ drained' = off
        /\ UNCHANGED <<stream, off, begin, task>>
        /\ \/ acc' = acc /\ lost' = lost
           \/ acc' = <<>> /\ lost' = lost \cup (off - Len(acc) .. off - 1)
    BY <1>13 DEF AwaitMore, LeaveDrain, AtFrame, InDrain
  <2>2. Passed(off) /\ lost \subseteq lost'
    BY <2>1 DEF ScanInv
  <2>3. CASE acc' = acc /\ lost' = lost
    <3>1. HeadAt' = HeadAt
      BY <2>1, <2>3 DEF HeadAt
    <3>2. HeadIncomplete(off)
      <4>1. CASE Len(acc) < HDR_LEN
        BY <1>0, <4>1 DEF HeadIncomplete, HDR_LEN
      <4>2. CASE AtFrame /\ parse_frame(acc) = "TRUNCATED"
        <5>1. plausible_header(acc, 0) /\ Len(acc) >= HDR_LEN
          BY <4>2, DrainVerdict DEF AtFrame, InDrain
        <5>2. plausible_header(stream, HeadAt)
          BY <5>1, FrameInFront
        <5>3. QED
          BY <1>0, <4>2, <5>2 DEF HeadIncomplete
      <4>3. QED
        BY <1>13, <4>1, <4>2 DEF AwaitMore
    <3>3. Passed(off)'
      <4>1. \A i : (Wanted(i)' <=> Wanted(i)) /\ (OwnedAt(i, off)' <=> OwnedAt(i, off))
        BY <2>1 DEF Wanted, OwnedAt, Polling, FrameOf, FS!Intact, FS!FrameAt
      <4>2. QED
        BY <2>1, <2>2, <2>3, <3>1, <4>1 DEF Passed
    <3>4. HeadIncomplete(off)'
      BY <2>1, <3>1, <3>2 DEF HeadIncomplete
    <3>5. HeadAt' \in Nat /\ HeadAt' <= off'
      BY <1>0, <2>1, <3>1
    <3>6. QED
      BY <1>l, <2>1, <3>3, <3>4, <3>5
  <2>4. CASE acc' = <<>> /\ lost' = lost \cup (off - Len(acc) .. off - 1)
    <3>1. HeadAt' = off
      <4>1. Len(acc') = 0 /\ off' = off
        BY <2>1, <2>4
      <4>2. \A l : l = 0 => off - l = off
        BY <1>0
      <4>3. QED
        BY <4>1, <4>2 DEF HeadAt
    <3>2. HeadAt' = HeadAt + Len(acc)
      BY <1>0, <3>1
    <3>3. \A i \in HeadAt .. HeadAt + Len(acc) - 1 : i \in lost'
      BY <1>0, <2>4
    <3>4. \A i \in begin' .. HeadAt' - 1 : Wanted(i)' => i \in lost' \/ OwnedAt(i, off)
      BY <1>0, <2>1, <2>2, <3>2, <3>3, Advance
    <3>5. \A i : OwnedAt(i, off)' <=> OwnedAt(i, off)
      BY <2>1 DEF OwnedAt, FS!FrameAt
    <3>6. Passed(off)'
      BY <2>1, <3>4, <3>5 DEF Passed
    <3>7. HeadIncomplete(off)'
      BY <1>0, <2>1, <3>1 DEF HeadIncomplete, HDR_LEN
    <3>8. HeadAt' \in Nat /\ HeadAt' <= off'
      BY <1>0, <2>1, <3>1
    <3>9. QED
      BY <1>l, <2>1, <3>6, <3>7, <3>8
  <2>5. QED
    BY <2>1, <2>3, <2>4
<1>14. CASE TakeResponse
  <2>1. pc' = "idle" /\ outcome' = "Ok" /\ task' = task /\ Polling
    BY <1>14 DEF TakeResponse, End, Polled
  <2>2. QED
    BY <2>1 DEF ScanInv, NoResponseIsTrue, PreflightIsTrue, PreflightEnded, Polling
<1>15. CASE RefuseBus
  <2>1. /\ AtFrame /\ parse_frame(acc) = "OK" /\ Len(acc) >= HDR_LEN
        /\ pc' = "idle" /\ outcome' = "Busy" /\ UNCHANGED <<stream, off, begin>>
    BY <1>15 DEF RefuseBus, End, history, AtFrame, InDrain
  <2>2. plausible_header(acc, 0) /\ declared_len(acc) \in MIN_FRAME_LEN .. Len(acc)
    BY <2>1, DrainVerdict
  <2>3. /\ plausible_header(stream, HeadAt) /\ parse_frame(FS!FrameAt(HeadAt)) = "OK"
        /\ declared_len(FS!FrameAt(HeadAt)) = declared_len(acc)
    BY <2>1, <2>2, FrameInFront
  <2>4. HeadAt + declared_len(acc) <= off /\ HeadAt \in begin .. off - 1
    BY <1>0, <2>1, <2>2 DEF HDR_LEN, MIN_FRAME_LEN, CHK_LEN
  <2>5. IntactWithin(HeadAt, off)
    BY <2>3, <2>4, SameCodec DEF IntactWithin, FS!Intact
  <2>6. \E i \in begin .. off - 1 : IntactWithin(i, off)
    BY <2>4, <2>5
  <2>7. \A i : IntactWithin(i, off)' <=> IntactWithin(i, off)
    BY <2>1 DEF IntactWithin, FS!Intact, FS!FrameAt
  <2>8. PreflightIsTrue'
    BY <2>1, <2>6, <2>7 DEF PreflightIsTrue
  <2>9. QED
    BY <2>1, <2>8 DEF ScanInv, NoResponseIsTrue
<1>16. CASE SkipFrame
  <2> DEFINE n == declared_len(acc)
  <2>1. /\ AtFrame /\ parse_frame(acc) = "OK" /\ Discard(n) /\ Polling
        /\ ~ is_match(parsed_frame(acc), task.win) /\ Len(acc) >= HDR_LEN
        /\ pc = "drain" /\ pc' = "drain" /\ UNCHANGED <<stream, off, begin, task, lost>>
    BY <1>16 DEF SkipFrame, AtFrame, InDrain, frame_only, parsed_frame, history
  <2>2. n \in Nat /\ n <= Len(acc) /\ n >= 1 /\ plausible_header(acc, 0)
    BY <1>0, <2>1, DrainVerdict DEF MIN_FRAME_LEN, HDR_LEN, CHK_LEN
  <2>3. /\ plausible_header(stream, HeadAt)
        /\ declared_len(FS!FrameAt(HeadAt)) = n
        /\ parsed_frame(FS!FrameAt(HeadAt)) = parsed_frame(acc)
    BY <2>1, <2>2, FrameInFront
  <2>4. ~ Wanted(HeadAt)
    BY <2>1, <2>3 DEF Wanted, FrameOf
  <2> HIDE DEF n
  <2>5. ASSUME NEW i \in HeadAt + 1 .. HeadAt + n - 1 PROVE OwnedAt(i, off)
    <3>1. HeadAt \in begin .. i - 1 /\ i < HeadAt + n
      BY <1>0, <2>2
    <3>2. parse_frame(SubSeq(stream, HeadAt + 1, off)) = "OK"
      BY <1>0, <2>1
    <3>3. QED
      BY <2>3, <3>1, <3>2 DEF OwnedAt
  <2>6. \A i \in HeadAt .. HeadAt + n - 1 : i = HeadAt \/ i \in HeadAt + 1 .. HeadAt + n - 1
    BY <1>0, <2>2
  <2>7. Passed(off)'
    BY <1>d, <2>1, <2>2, <2>4, <2>5, <2>6
  <2>8. QED
    BY <1>w, <2>1, <2>7 DEF ScanInv
<1>17. CASE DropByte
  <2>1. /\ AtFrame /\ parse_frame(acc) \notin {"OK", "TRUNCATED"} /\ Discard(1)
        /\ Len(acc) >= HDR_LEN /\ pc = "drain" /\ pc' = "drain"
        /\ UNCHANGED <<stream, off, begin, task, lost>>
    BY <1>17 DEF DropByte, AtFrame, InDrain, history
  <2>2. parse_frame(FS!FrameAt(HeadAt)) # "OK"
    BY <2>1, FrameInFront
  <2>3. ~ Wanted(HeadAt)
    BY <2>2, SameCodec DEF Wanted, FS!Intact
  <2>4. \A i \in HeadAt .. HeadAt + 1 - 1 : i = HeadAt
    BY <1>0
  <2>5. 1 \in Nat /\ 1 <= Len(acc)
    BY <1>0, <2>1 DEF HDR_LEN
  <2>6. Passed(off)'
    BY <1>d, <2>1, <2>3, <2>4, <2>5
  <2>7. QED
    BY <1>w, <2>1, <2>6 DEF ScanInv
<1>18. CASE UNCHANGED vars
  BY <1>18, <1>k DEF vars, history
<1>19. QED
  BY <1>1, <1>2, <1>3, <1>4, <1>5, <1>6, <1>7, <1>8, <1>9, <1>10, <1>11, <1>12, <1>13,
     <1>14, <1>15, <1>16, <1>17, <1>18
  DEF Next, Call, Step

\* A poll that reports no response has passed none in the bytes it drained,
\* but for one that a header it could not judge claimed and one that the
\* overflow guard threw away.
THEOREM NoResponseMissesNone == Spec => []NoResponseIsTrue
BY AccInit, AccStep, TypeInit, TypeStep, ScanInit, ScanStep, PTL DEF Spec

\* The preflight refuses the bus for an intact frame only, and passes none
\* before it allows it, with the same exceptions.
THEOREM PreflightTellsTheBus == Spec => []PreflightIsTrue
BY AccInit, AccStep, TypeInit, TypeStep, ScanInit, ScanStep, PTL DEF Spec
-----------------------------------------------------------------------------
(* What the sink is fed *)

\* An intact read response is one of a known window, and as long as that.
LEMMA ResponseOfWindow ==
  ASSUME NEW buf \in Seq(Byte), parse_frame(buf) = "OK",
         NEW f, f = parsed_frame(buf), f.dir = DIR_RESPONSE, f.fc = FC_READ
  PROVE  /\ is_known_window(f.field_a, f.field_b)
         /\ window_of(f) \in KNOWN_WINDOWS
         /\ window_of(f).field_a = f.field_a /\ window_of(f).field_b = f.field_b
         /\ f.payload \in Seq(Byte) /\ Len(f.payload) = f.field_b /\ f.field_b \in Nat
<1>1. /\ buf[3] = DIR_RESPONSE /\ buf[4] = FC_READ /\ FC_READ # FC_CMD
      /\ f.field_a = FieldA(buf) /\ f.field_b = FieldB(buf)
      /\ carries_payload(buf[3], buf[4])
  BY DEF parsed_frame, FC_READ, FC_CMD, carries_payload
<1>2. Len(buf) >= HDR_LEN /\ is_known_window(FieldA(buf), FieldB(buf))
  BY <1>1 DEF parse_frame, HDR_LEN
<1>3. PICK w \in KNOWN_WINDOWS : w.field_a = f.field_a /\ w.field_b = f.field_b
  BY <1>1, <1>2 DEF is_known_window
<1>4. window_of(f) = w
  BY <1>3, FindWindow DEF window_of
<1>5. FieldB(buf) \in Nat /\ declared_len(buf) \in 0 .. MAX_FRAME_LEN
  BY <1>2, DeclaredLength
<1>6. HDR_LEN + FieldB(buf) <= Len(buf)
  <2>1. declared_len(buf) # 0 /\ ~ (Len(buf) < declared_len(buf))
    BY <1>2 DEF parse_frame
  <2>2. declared_len(buf) = HDR_LEN + FieldB(buf) + CHK_LEN
    BY <1>1, <2>1
    DEF declared_len, frame_total_len, AtMostMax, DIR_RESPONSE, DIR_REQUEST
  <2>3. QED
    BY <1>5, <2>1, <2>2 DEF HDR_LEN, CHK_LEN
<1>7. f.payload = SubSeq(buf, HDR_LEN + 1, HDR_LEN + FieldB(buf))
  BY <1>1 DEF parsed_frame
<1>8. f.payload \in Seq(Byte) /\ Len(f.payload) = FieldB(buf)
  <2> DEFINE n == FieldB(buf)
  <2>1. n \in Nat /\ HDR_LEN + n <= Len(buf)
    BY <1>5, <1>6
  <2> HIDE DEF n
  <2>2. SubSeq(buf, HDR_LEN + 1, HDR_LEN + n) \in Seq(Byte)
        /\ Len(SubSeq(buf, HDR_LEN + 1, HDR_LEN + n)) = n
    BY <2>1 DEF HDR_LEN
  <2>3. QED
    BY <1>7, <2>2 DEF n
<1>9. QED
  BY <1>1, <1>2, <1>3, <1>4, <1>5, <1>8

\* No bytes change no register.
LEMMA IngestNothing ==
  ASSUME NEW img, img = [r \in DOMAIN img |-> img[r]], NEW base \in Nat,
         NEW bytes, Len(bytes) = 0
  PROVE  ingest_bytes(img, base, bytes) = img
<1> DEFINE covered == (base .. base + Len(bytes) - 1) \cap Registers
<1>1. covered = {}
  <2>1. \A b \in Nat : b .. b + 0 - 1 = {}
    OBVIOUS
  <2>2. base .. base + Len(bytes) - 1 = {}
    BY <2>1
  <2>3. QED
    BY <2>2
<1> HIDE DEF covered
<1>2. [r \in DOMAIN img \cup covered |->
         IF r \in covered THEN bytes[r - base + 1] ELSE img[r]]
        = [r \in DOMAIN img |-> img[r]]
  BY <1>1
<1>3. QED
  BY <1>2 DEF ingest_bytes, covered

IsFunction(img) == img = [r \in DOMAIN img |-> img[r]]

LEMMA IngestType ==
  ASSUME NEW img, NEW base, NEW bytes
  PROVE  IsFunction(ingest_bytes(img, base, bytes))
BY DEF ingest_bytes, IsFunction

\* The sink is as it was when the call began.
FedInv ==
  /\ IsFunction(image)
  /\ pc # "idle" => image = before.image /\ catalog = before.catalog

LEMMA FedInit == Init => FedInv /\ OkFedTheResponse
BY DEF Init, FedInv, OkFedTheResponse, IsFunction, EmptyImage

\* What a poll that takes its response adds to the image is the data of the
\* response, of which there may be none behind the prefix of the window.
LEMMA ResponseFed ==
  ASSUME AccInv, FedInv, TakeResponse
  PROVE  /\ image' = ingest_bytes(image, window_of(parsed_frame(acc)).reg_base,
                                  window_data(parsed_frame(acc)))
         /\ IsFunction(image)'
<1> DEFINE f == parsed_frame(acc)
<1>1. /\ acc \in Seq(Byte) /\ parse_frame(acc) = "OK" /\ is_match(f, task.win)
      /\ IF is_ingested(f)
         THEN image' = ingest_bytes(image, window_of(f).reg_base, window_data(f))
         ELSE image' = image
  BY DEF TakeResponse, AccInv
<1>2. f.dir = DIR_RESPONSE /\ f.fc = FC_READ /\ FC_READ # FC_CMD
  BY <1>1 DEF is_match, FC_READ, FC_CMD
<1> HIDE DEF f
<1>3. /\ is_known_window(f.field_a, f.field_b) /\ window_of(f) \in KNOWN_WINDOWS
      /\ f.payload \in Seq(Byte) /\ Len(f.payload) \in Nat
  BY <1>1, <1>2, ResponseOfWindow DEF f
<1>4. window_of(f).reg_base \in Nat /\ window_of(f).prefix_len \in Nat
  BY <1>3, WindowType
<1>5. CASE is_ingested(f)
  BY <1>1, <1>5, IngestType DEF f, IsFunction
<1>6. CASE ~ is_ingested(f)
  <2>1. ~ (Len(f.payload) > window_of(f).prefix_len)
    BY <1>2, <1>3, <1>6 DEF is_ingested
  <2>2. Len(window_data(f)) = 0
    <3> DEFINE p == f.payload
               k == window_of(f).prefix_len
    <3> HIDE DEF p, k
    <3>1. p \in Seq(Byte) /\ k \in Nat /\ ~ (Len(p) > k)
      BY <1>3, <1>4, <2>1 DEF p, k
    <3>2. Len(SubSeq(p, k + 1, Len(p))) = 0
      BY <3>1, SubSeqProperties
    <3>3. QED
      BY <3>2 DEF window_data, p, k
  <2>3. ingest_bytes(image, window_of(f).reg_base, window_data(f)) = image
    BY <1>4, <2>2, IngestNothing DEF FedInv, IsFunction
  <2>4. QED
    BY <1>1, <1>6, <2>3 DEF FedInv, IsFunction, f
<1>7. QED
  BY <1>5, <1>6

\* The sink changes with the response of a poll only.
LEMMA FedStep ==
  AccInv /\ TypeInv /\ FedInv /\ OkFedTheResponse /\ [Next]_vars => FedInv' /\ OkFedTheResponse'
<1> SUFFICES ASSUME AccInv, TypeInv, FedInv, OkFedTheResponse, [Next]_vars
             PROVE  FedInv' /\ OkFedTheResponse'
  OBVIOUS
\* Nothing of it changes, or it does so in a call.
<1>k. ASSUME UNCHANGED <<stream, off, begin, task, pc, outcome, image, catalog, before>>
      PROVE  FedInv' /\ OkFedTheResponse'
  <2>1. \A i, n : FrameOf(i)' = FrameOf(i) /\ (IntactWithin(i, n)' <=> IntactWithin(i, n))
    BY <1>k DEF FrameOf, IntactWithin, FS!Intact, FS!FrameAt
  <2>2. OkFedTheResponse'
    BY <1>k, <2>1 DEF OkFedTheResponse
  <2>3. QED
    BY <1>k, <2>2 DEF FedInv, IsFunction
<1>r. ASSUME pc # "idle", pc' # "idle", UNCHANGED <<image, catalog, before>>
      PROVE  FedInv' /\ OkFedTheResponse'
  BY <1>r DEF FedInv, OkFedTheResponse, IsFunction
\* A call begins, or is refused.
<1>b. ASSUME before' = [image |-> image, catalog |-> catalog], UNCHANGED <<image, catalog>>,
             pc' # "idle" \/ outcome' # "Ok"
      PROVE  FedInv' /\ OkFedTheResponse'
  BY <1>b DEF FedInv, OkFedTheResponse, IsFunction
\* A call ends without a response.
<1>e. ASSUME pc # "idle", pc' = "idle", UNCHANGED <<task, image, catalog, before>>,
             ~ (task.op = "poll" /\ outcome' = "Ok")
      PROVE  FedInv' /\ OkFedTheResponse'
  BY <1>e DEF FedInv, OkFedTheResponse, IsFunction
<1>1. CASE PollWindow
  BY <1>1, <1>b DEF PollWindow, Listen, sink
<1>2. CASE PollNotSent
  BY <1>2, <1>b DEF PollNotSent, Polled, sink
<1>3. CASE PreflightBusIdle
  BY <1>3, <1>b DEF PreflightBusIdle, Listen, sink
<1>4. CASE TakeCoverage
  BY <1>4, <1>k DEF TakeCoverage
<1>5. CASE KeepOn
  BY <1>5, <1>r DEF KeepOn, sink, history
<1>6. CASE GiveUp
  BY <1>6, <1>e DEF GiveUp, End, Polled, sink
<1>7. CASE Preempted
  BY <1>7, <1>r DEF Preempted, sink
<1>8. CASE Receive
  BY <1>8, <1>r DEF Receive, CanRead, sink
<1>9. CASE ReadTimesOut
  BY <1>9, <1>r DEF ReadTimesOut, CanRead, sink
<1>10. CASE ReadFails
  BY <1>10, <1>r, <1>e DEF ReadFails, CanRead, End, Polled, sink
<1>11. CASE DropJunk
  BY <1>11, <1>r DEF DropJunk, InDrain, LeaveDrain, sink
<1>12. CASE Resync
  BY <1>12, <1>r DEF Resync, InDrain, sink, history
<1>13. CASE AwaitMore
  BY <1>13, <1>r DEF AwaitMore, AtFrame, InDrain, LeaveDrain, sink
<1>14. CASE TakeResponse
  <2>1. /\ AtFrame /\ parse_frame(acc) = "OK" /\ is_match(parsed_frame(acc), task.win)
        /\ Len(acc) >= HDR_LEN /\ Polling /\ pc # "idle" /\ pc' = "idle" /\ outcome' = "Ok"
        /\ UNCHANGED <<stream, off, begin, task, before>>
        /\ catalog' = record(catalog, <<parsed_frame(acc).field_a, parsed_frame(acc).field_b>>,
                             TRUE, parsed_frame(acc).payload)
    BY <1>14 DEF TakeResponse, AtFrame, InDrain, End, Polled
  <2>2. /\ HeadAt \in Nat /\ begin \in Nat /\ off \in Nat /\ begin <= HeadAt
        /\ HeadAt + Len(acc) = off /\ Len(acc) \in Nat
    BY AccIsPiece DEF AccInv
  <2>3. plausible_header(acc, 0) /\ declared_len(acc) \in MIN_FRAME_LEN .. Len(acc)
    BY <2>1, DrainVerdict
  <2>4. /\ plausible_header(stream, HeadAt) /\ parse_frame(FS!FrameAt(HeadAt)) = "OK"
        /\ declared_len(FS!FrameAt(HeadAt)) = declared_len(acc)
        /\ FrameOf(HeadAt) = parsed_frame(acc)
    BY <2>1, <2>3, FrameInFront DEF FrameOf
  <2>5. HeadAt \in begin .. off - 1 /\ HeadAt + declared_len(acc) <= off
    BY <2>1, <2>2, <2>3 DEF HDR_LEN, MIN_FRAME_LEN, CHK_LEN
  <2>6. IntactWithin(HeadAt, off)
    BY <2>4, <2>5, SameCodec DEF IntactWithin, FS!Intact
  <2>7. /\ image' = ingest_bytes(image, window_of(FrameOf(HeadAt)).reg_base,
                                 window_data(FrameOf(HeadAt)))
        /\ IsFunction(image)'
    BY <1>14, <2>4, ResponseFed
  <2>8. catalog' = record(catalog, <<task.win.field_a, task.win.field_b>>, TRUE,
                          FrameOf(HeadAt).payload)
    BY <2>1, <2>4 DEF is_match
  <2>9. image = before.image /\ catalog = before.catalog
    BY <2>1 DEF FedInv
  <2>10. \A i, n : FrameOf(i)' = FrameOf(i) /\ (IntactWithin(i, n)' <=> IntactWithin(i, n))
    BY <2>1 DEF FrameOf, IntactWithin, FS!Intact, FS!FrameAt
  <2>11. \E i \in begin .. off - 1 :
           /\ IntactWithin(i, off) /\ is_match(FrameOf(i), task.win)
           /\ image' = ingest_bytes(before.image, window_of(FrameOf(i)).reg_base,
                                    window_data(FrameOf(i)))
           /\ catalog' = record(before.catalog, <<task.win.field_a, task.win.field_b>>,
                                TRUE, FrameOf(i).payload)
    BY <2>1, <2>4, <2>5, <2>6, <2>7, <2>8, <2>9, Zenon
  <2>12. OkFedTheResponse'
    BY <2>1, <2>10, <2>11 DEF OkFedTheResponse, Polling
  <2>13. QED
    BY <2>1, <2>7, <2>12 DEF FedInv
<1>15. CASE RefuseBus
  BY <1>15, <1>e DEF RefuseBus, AtFrame, InDrain, End, sink, history
<1>16. CASE SkipFrame
  BY <1>16, <1>r DEF SkipFrame, AtFrame, InDrain, sink, history
<1>17. CASE DropByte
  BY <1>17, <1>r DEF DropByte, AtFrame, InDrain, sink, history
<1>18. CASE UNCHANGED vars
  BY <1>18, <1>k DEF vars, sink, history
<1>19. QED
  BY <1>1, <1>2, <1>3, <1>4, <1>5, <1>6, <1>7, <1>8, <1>9, <1>10, <1>11, <1>12, <1>13,
     <1>14, <1>15, <1>16, <1>17, <1>18
  DEF Next, Call, Step

\* A poll that returns true has fed the sink an intact response of the window
\* it asked for, received after the request, and no other call changes the
\* image or the catalog.
THEOREM OkIsFedOnce == Spec => []OkFedTheResponse
BY AccInit, AccStep, TypeInit, TypeStep, FedInit, FedStep, PTL DEF Spec

\* A window told as covered is one that was fed: what the sink's bits say of
\* the response that is taken is what the register range of its window says.
LEMMA CoverageOfResponse ==
  ASSUME NEW w \in KNOWN_WINDOWS, NEW n \in Nat, n = w.field_b, n > w.prefix_len,
         NEW r \in Registers
  PROVE  (w.reg_base <= r /\ r < w.reg_base + (n - w.prefix_len)) <=> r \in reg_range(w)
<1>1. w.reg_base \in Nat /\ w.prefix_len \in Nat /\ r \in Int
  BY WindowType, ImageAssumption DEF Registers
<1>2. QED
  BY <1>1 DEF reg_range

LEMMA CoverageStep ==
  AccInv /\ CoverageTellsTheWindows /\ [Next]_vars => CoverageTellsTheWindows'
<1> SUFFICES ASSUME AccInv, CoverageTellsTheWindows, [Next]_vars
             PROVE  CoverageTellsTheWindows'
  OBVIOUS
<1>k. ASSUME UNCHANGED <<coverage, any, fed>> PROVE CoverageTellsTheWindows'
  BY <1>k DEF CoverageTellsTheWindows
<1>1. CASE PollWindow \/ PollNotSent \/ PreflightBusIdle
  BY <1>1, <1>k DEF PollWindow, PollNotSent, PreflightBusIdle, Listen, sink
<1>2. CASE TakeCoverage
  BY <1>2 DEF TakeCoverage, CoverageTellsTheWindows, NoCoverage
<1>3. CASE KeepOn \/ GiveUp \/ Preempted \/ Receive \/ ReadTimesOut \/ ReadFails
  BY <1>3, <1>k DEF KeepOn, GiveUp, Preempted, Receive, ReadTimesOut, ReadFails, sink, history
<1>4. CASE DropJunk \/ Resync \/ AwaitMore \/ RefuseBus \/ SkipFrame \/ DropByte
  BY <1>4, <1>k DEF DropJunk, Resync, AwaitMore, RefuseBus, SkipFrame, DropByte, sink, history
<1>5. CASE TakeResponse
  <2> DEFINE f == parsed_frame(acc)
             w == window_of(f)
  <2>1. CASE ~ is_ingested(f)
    BY <1>5, <1>k, <2>1 DEF TakeResponse
  <2>2. CASE is_ingested(f)
    <3>1. /\ coverage' = join_coverage(coverage, coverage_of(w.reg_base, Len(window_data(f))))
          /\ any' = TRUE /\ fed' = fed \cup {w}
          /\ acc \in Seq(Byte) /\ parse_frame(acc) = "OK" /\ is_match(f, task.win)
      BY <1>5, <2>2 DEF TakeResponse, AccInv
    <3>2. f.dir = DIR_RESPONSE /\ f.fc = FC_READ /\ Len(f.payload) > w.prefix_len
      BY <2>2, <3>1 DEF is_match, is_ingested
    <3> HIDE DEF f
    <3>3. /\ w \in KNOWN_WINDOWS /\ f.payload \in Seq(Byte)
          /\ Len(f.payload) = w.field_b /\ Len(f.payload) \in Nat
      BY <3>1, <3>2, ResponseOfWindow DEF f
    <3>4. w.prefix_len \in Nat /\ w.field_b \in Nat
      BY <3>3, WindowType
    <3>5. Len(window_data(f)) = w.field_b - w.prefix_len
      <4> DEFINE p == f.payload
                 k == window_of(f).prefix_len
      <4> HIDE DEF p, k
      <4>1. p \in Seq(Byte) /\ k \in Nat /\ Len(p) > k
        BY <3>2, <3>3, <3>4 DEF p, k
      <4>2. Len(SubSeq(p, k + 1, Len(p))) = Len(p) - k
        BY <4>1, SubSeqProperties
      <4>3. QED
        BY <3>3, <4>2 DEF window_data, p, k
    <3> HIDE DEF w
    <3> DEFINE covers(r) == \E v \in fed : r \in reg_range(v)
               new(r) == w.reg_base <= r /\ r < w.reg_base + Len(window_data(f))
    <3>6. \A r \in Registers : new(r) <=> r \in reg_range(w)
      BY <3>2, <3>3, <3>4, <3>5, CoverageOfResponse DEF w
    <3>7. \A r \in Registers : (\E v \in fed' : r \in reg_range(v)) = (covers(r) \/ new(r))
      BY <3>1, <3>6
    <3>8. coverage = [status_updated    |-> covers(REG_OPERATING_MODE),
                      telemetry_updated |-> covers(REG_COMPRESSOR_FREQ)]
      BY DEF CoverageTellsTheWindows
    <3>9. coverage' = [status_updated    |-> covers(REG_OPERATING_MODE) \/ new(REG_OPERATING_MODE),
                       telemetry_updated |-> covers(REG_COMPRESSOR_FREQ) \/ new(REG_COMPRESSOR_FREQ)]
      <4> HIDE DEF covers
      <4>1. coverage.status_updated = covers(REG_OPERATING_MODE)
            /\ coverage.telemetry_updated = covers(REG_COMPRESSOR_FREQ)
        BY <3>8, Zenon
      <4>2. QED
        BY <3>1, <4>1, Zenon DEF join_coverage, coverage_of
    <3>10. REG_OPERATING_MODE \in Registers /\ REG_COMPRESSOR_FREQ \in Registers
      BY ImageAssumption
    <3>11. coverage' = [status_updated    |-> \E v \in fed' : REG_OPERATING_MODE \in reg_range(v),
                        telemetry_updated |-> \E v \in fed' : REG_COMPRESSOR_FREQ \in reg_range(v)]
      <4> HIDE DEF covers, new
      <4>1. QED
        BY <3>7, <3>9, <3>10, Zenon
    <3>12. any' = (fed' # {})
      BY <3>1
    <3>13. QED
      BY <3>11, <3>12, Zenon DEF CoverageTellsTheWindows
  <2>3. QED
    BY <2>1, <2>2
<1>6. CASE UNCHANGED vars
  BY <1>6, <1>k DEF vars, sink, history
<1>7. QED
  BY <1>1, <1>2, <1>3, <1>4, <1>5, <1>6 DEF Next, Call, Step

\* The coverage a consumer is told is exactly that of the windows fed since it
\* asked last.
THEOREM CoverageIsTold == Spec => []CoverageTellsTheWindows
<1>1. Init => CoverageTellsTheWindows
  BY DEF Init, CoverageTellsTheWindows, NoCoverage
<1>2. QED
  BY <1>1, AccInit, AccStep, CoverageStep, PTL DEF Spec
-----------------------------------------------------------------------------
(* The counters *)

Where(s, o) == {k \in DOMAIN s : s[k] = o}
Running(s)  == {k \in DOMAIN s : \A j \in k .. Len(s) : s[j] # "Ok"}

\* One more poll adds one to the count of what it came to.
LEMMA CountOfAppend ==
  ASSUME NEW s \in Seq(Outcomes), NEW o \in Outcomes, NEW c
  PROVE  /\ Cardinality(Where(s, c)) \in Nat
         /\ Cardinality(Where(Append(s, o), c))
              = Cardinality(Where(s, c)) + (IF o = c THEN 1 ELSE 0)
<1> DEFINE n == Len(s)
           t == Append(s, o)
<1>1. n \in Nat /\ DOMAIN s = 1 .. n
  OBVIOUS
<1>2. t \in Seq(Outcomes) /\ Len(t) = n + 1 /\ t[n + 1] = o /\ \A k \in 1 .. n : t[k] = s[k]
  BY AppendProperties
<1>3. DOMAIN t = 1 .. (n + 1)
  BY <1>2
<1> HIDE DEF t, n
<1>4. IsFiniteSet(Where(s, c)) /\ Cardinality(Where(s, c)) \in Nat
  <2>1. IsFiniteSet(1 .. n)
    BY <1>1, FS_Interval
  <2>2. Where(s, c) \in SUBSET (1 .. n)
    BY <1>1 DEF Where
  <2>3. IsFiniteSet(Where(s, c))
    BY <2>1, <2>2, FS_Subset
  <2>4. QED
    BY <2>3, FS_CardinalityType
<1>5. \A k : k \in 1 .. (n + 1) <=> k \in 1 .. n \/ k = n + 1
  BY <1>1
<1>6. CASE o = c
  <2>1. Where(t, c) = Where(s, c) \cup {n + 1}
    BY <1>1, <1>2, <1>3, <1>5, <1>6, Zenon DEF Where
  <2>2. n + 1 \notin Where(s, c)
    BY <1>1 DEF Where
  <2>3. Cardinality(Where(t, c)) = Cardinality(Where(s, c)) + 1
    BY <1>4, <2>1, <2>2, FS_AddElement
  <2>4. QED
    BY <1>4, <1>6, <2>3 DEF t
<1>7. CASE o # c
  <2>1. Where(t, c) = Where(s, c)
    BY <1>1, <1>2, <1>3, <1>5, <1>7, Zenon DEF Where
  <2>2. QED
    BY <1>4, <1>7, <2>1 DEF t
<1>8. QED
  BY <1>4, <1>6, <1>7

\* A failure makes the run of failures longer, a success ends it.
LEMMA RunOfAppend ==
  ASSUME NEW s \in Seq(Outcomes), NEW o \in Outcomes
  PROVE  Cardinality(Running(Append(s, o)))
           = IF o = "Ok" THEN 0 ELSE Cardinality(Running(s)) + 1
<1> DEFINE n == Len(s)
           t == Append(s, o)
<1>1. n \in Nat /\ DOMAIN s = 1 .. n
  OBVIOUS
<1>2. t \in Seq(Outcomes) /\ Len(t) = n + 1 /\ t[n + 1] = o /\ \A k \in 1 .. n : t[k] = s[k]
  BY AppendProperties
<1>3. DOMAIN t = 1 .. (n + 1)
  BY <1>2
<1>r. Running(s) = {k \in 1 .. n : \A j \in k .. n : s[j] # "Ok"}
  BY <1>1 DEF Running
<1>u. Running(t) = {k \in 1 .. (n + 1) : \A j \in k .. (n + 1) : t[j] # "Ok"}
  BY <1>2, <1>3 DEF Running
<1> HIDE DEF t, n
<1>4. CASE o = "Ok"
  <2>1. \A k \in 1 .. (n + 1) : n + 1 \in k .. (n + 1)
    BY <1>1
  <2>2. Running(t) = {}
    BY <1>2, <1>4, <1>u, <2>1
  <2>3. QED
    BY <1>4, <2>2, FS_EmptySet DEF t
<1>5. CASE o # "Ok"
  <2>1. IsFiniteSet(1 .. n)
    BY <1>1, FS_Interval
  <2>2. Running(s) \in SUBSET (1 .. n)
    BY <1>r
  <2>3. IsFiniteSet(Running(s))
    BY <2>1, <2>2, FS_Subset
  <2>4. n + 1 \notin Running(s)
    BY <1>1, <2>2
  <2>5. Running(t) = Running(s) \cup {n + 1}
    <3>1. \A k : k \in 1 .. (n + 1) <=> k \in 1 .. n \/ k = n + 1
      BY <1>1
    <3>2. \A k \in 1 .. n : \A j : j \in k .. (n + 1) <=> j \in k .. n \/ j = n + 1
      BY <1>1
    <3>3. \A k \in 1 .. n : \A j \in k .. n : j \in 1 .. n
      BY <1>1
    <3>4. \A j : j \in n + 1 .. n + 1 <=> j = n + 1
      BY <1>1
    <3>5. \A k \in 1 .. n : k \in Running(t) <=> k \in Running(s)
      BY <1>2, <1>5, <1>r, <1>u, <3>1, <3>2, <3>3, Zenon
    <3>6. n + 1 \in Running(t)
      BY <1>2, <1>5, <1>u, <3>1, <3>4, Zenon
    <3>7. \A k \in Running(t) : k \in 1 .. (n + 1)
      BY <1>u
    <3>8. QED
      BY <2>2, <3>1, <3>5, <3>6, <3>7, Zenon
  <2>6. Cardinality(Running(t)) = Cardinality(Running(s)) + 1
    BY <2>3, <2>4, <2>5, FS_AddElement
  <2>7. QED
    BY <1>5, <2>6 DEF t
<1>6. QED
  BY <1>4, <1>5

\* The buckets and the run of failures are those of the history.
PollsCounted ==
  /\ stats.ok = Cardinality(Where(outcomes, "Ok"))
  /\ stats.no_response = Cardinality(Where(outcomes, "NoResponse"))
  /\ stats.transport_error = Cardinality(Where(outcomes, "TransportError"))
  /\ stats.consecutive_failures = Cardinality(Running(outcomes))

\* The damaged frames the drain has gone past, of which it counts some once.
DamagedPassed == {i \in Damaged : i < HeadAt}

StatsInv == PollsCounted /\ stats.checksum_errors <= Cardinality(DamagedPassed)

LEMMA DamagedFinite ==
  ASSUME AccInv
  PROVE  IsFiniteSet(Damaged) /\ IsFiniteSet(DamagedPassed)
         /\ Cardinality(DamagedPassed) <= Cardinality(Damaged)
         /\ Cardinality(DamagedPassed) \in Nat
<1>1. off \in Nat
  BY DEF AccInv
<1>2. IsFiniteSet(0 .. off - 1)
  <2>1. 0 \in Int /\ off - 1 \in Int
    BY <1>1
  <2>2. QED
    BY <2>1, FS_Interval
<1>3. Damaged \in SUBSET (0 .. off - 1)
  BY DEF Damaged
<1>4. IsFiniteSet(Damaged)
  BY <1>2, <1>3, FS_Subset
<1>5. DamagedPassed \in SUBSET Damaged
  BY DEF DamagedPassed
<1>6. IsFiniteSet(DamagedPassed) /\ Cardinality(DamagedPassed) <= Cardinality(Damaged)
  BY <1>4, <1>5, FS_Subset
<1>7. QED
  BY <1>4, <1>6, FS_CardinalityType

\* A frame that was damaged stays so, and stays passed.
LEMMA DamagedStays ==
  ASSUME AccInv, AccInv', stream' = stream, off <= off', HeadAt <= HeadAt'
  PROVE  Damaged \subseteq Damaged' /\ DamagedPassed \subseteq DamagedPassed'
<1>1. /\ stream \in Seq(Byte) /\ off \in Nat /\ off' \in Nat /\ off' <= Len(stream)
      /\ HeadAt \in Nat /\ off <= Len(stream)
  BY AccIsPiece DEF AccInv
<1>h. HeadAt' \in Int
  BY DEF AccInv, HeadAt
<1>2. ASSUME NEW i \in Damaged PROVE i \in Damaged'
  <2>1. /\ i \in Nat /\ i < off /\ plausible_header(stream, i)
        /\ parse_frame(SubSeq(stream, i + 1, off)) = "BAD_CHECKSUM"
    BY <1>1 DEF Damaged
  <2>2. Len(SubSeq(stream, i + 1, off)) = off - i
    BY <1>1, <2>1
  <2>3. i + HDR_LEN <= off
    BY <1>1, <2>1, <2>2 DEF parse_frame, HDR_LEN
  <2>4. parse_frame(SubSeq(stream, i + 1, off')) = "BAD_CHECKSUM"
    BY <1>1, <2>1, <2>3, FrameOfPiece
  <2>5. i \in 0 .. off' - 1
    <3>1. \A p, q, r \in Nat : p < q /\ q <= r => p \in 0 .. r - 1
      OBVIOUS
    <3>2. QED
      BY <1>1, <2>1, <3>1, Zenon
  <2>6. QED
    BY <2>1, <2>4, <2>5 DEF Damaged
<1>3. ASSUME NEW i \in Damaged, i < HeadAt PROVE i < HeadAt'
  <2>1. i \in Int
    BY <1>1 DEF Damaged
  <2>2. QED
    BY <1>1, <1>3, <1>h, <2>1
<1>4. QED
  BY <1>2, <1>3 DEF DamagedPassed

LEMMA StatsInit == Init => StatsInv
<1> SUFFICES ASSUME Init PROVE StatsInv
  OBVIOUS
<1>1. outcomes = <<>> /\ stats = ZeroStats
  BY DEF Init
<1>2. Running(outcomes) = {} /\ \A o : Where(outcomes, o) = {}
  BY <1>1 DEF Running, Where
<1>3. PollsCounted
  BY <1>1, <1>2, FS_EmptySet DEF PollsCounted, ZeroStats
<1>4. stats.checksum_errors = 0
  BY <1>1 DEF ZeroStats
<1>5. QED
  BY <1>3, <1>4, AccInit, DamagedFinite DEF StatsInv

\* A poll that ends is counted once, and so is a damaged frame.
LEMMA StatsStep == AccInv /\ TypeInv /\ StatsInv /\ [Next]_vars => StatsInv'
<1> SUFFICES ASSUME AccInv, TypeInv, StatsInv, [Next]_vars PROVE StatsInv'
  OBVIOUS
<1>0. AccInv' /\ stream' = stream /\ off <= off' /\ HeadAt <= HeadAt'
  BY AccStep
<1>1. /\ DamagedPassed \subseteq DamagedPassed' /\ IsFiniteSet(DamagedPassed)'
      /\ (Cardinality(DamagedPassed) \in Nat)'
      /\ IsFiniteSet(DamagedPassed) /\ Cardinality(DamagedPassed) \in Nat
  <2>1. AccInv => IsFiniteSet(DamagedPassed) /\ Cardinality(DamagedPassed) \in Nat
    BY DamagedFinite
  <2>2. AccInv' => (IsFiniteSet(DamagedPassed) /\ Cardinality(DamagedPassed) \in Nat)'
    BY <2>1, DamagedFinite, PTL
  <2>3. QED
    BY <1>0, <2>1, <2>2, DamagedStays
<1>2. /\ stats \in Stats /\ outcomes \in Seq(Outcomes) /\ stats.checksum_errors \in Nat
  BY DEF TypeInv, Stats
\* The count of the damaged frames is left alone.
<1>d. ASSUME PollsCounted', stats'.checksum_errors = stats.checksum_errors PROVE StatsInv'
  <2>1. Cardinality(DamagedPassed) <= Cardinality(DamagedPassed')
    BY <1>1, FS_Subset
  <2>2. QED
    BY <1>1, <1>2, <1>d, <2>1 DEF StatsInv
<1>k. ASSUME UNCHANGED <<stats, outcomes>> PROVE StatsInv'
  BY <1>d, <1>k DEF StatsInv, PollsCounted
\* A poll is over.
<1>p. ASSUME NEW o \in Outcomes, Polled(o) PROVE StatsInv'
  <2>1. stats' = count_poll(stats, o) /\ outcomes' = Append(outcomes, o)
    BY <1>p DEF Polled
  <2>2. stats' = StatsOf(stats.ok + (IF o = "Ok" THEN 1 ELSE 0),
                         stats.no_response + (IF o = "NoResponse" THEN 1 ELSE 0),
                         stats.transport_error + (IF o = "TransportError" THEN 1 ELSE 0),
                         stats.checksum_errors,
                         IF o = "Ok" THEN 0 ELSE stats.consecutive_failures + 1)
    BY <1>2, <2>1, CountPoll
  <2>3. /\ stats'.ok = stats.ok + (IF o = "Ok" THEN 1 ELSE 0)
        /\ stats'.no_response = stats.no_response + (IF o = "NoResponse" THEN 1 ELSE 0)
        /\ stats'.transport_error = stats.transport_error
                                      + (IF o = "TransportError" THEN 1 ELSE 0)
        /\ stats'.checksum_errors = stats.checksum_errors
        /\ stats'.consecutive_failures = IF o = "Ok" THEN 0
                                                     ELSE stats.consecutive_failures + 1
    BY <2>2, Zenon DEF StatsOf
  <2>4. \A c : Cardinality(Where(outcomes', c))
                 = Cardinality(Where(outcomes, c)) + (IF o = c THEN 1 ELSE 0)
    BY <1>2, <2>1, CountOfAppend
  <2>5. Cardinality(Running(outcomes')) = IF o = "Ok" THEN 0
                                                      ELSE Cardinality(Running(outcomes)) + 1
    BY <1>2, <2>1, RunOfAppend
  <2>6. PollsCounted'
    BY <2>3, <2>4, <2>5, Zenon DEF StatsInv, PollsCounted
  <2>7. QED
    BY <1>d, <2>3, <2>6
<1>3. CASE PollWindow \/ PreflightBusIdle \/ TakeCoverage
  BY <1>3, <1>k DEF PollWindow, PreflightBusIdle, TakeCoverage
<1>4. CASE PollNotSent
  BY <1>4, <1>p DEF PollNotSent, Outcomes
<1>5. CASE GiveUp
  BY <1>5, <1>k, <1>p DEF GiveUp, Outcomes
<1>6. CASE ReadFails
  BY <1>6, <1>k, <1>p DEF ReadFails, Outcomes
<1>7. CASE TakeResponse
  BY <1>7, <1>p DEF TakeResponse, Outcomes
<1>8. CASE KeepOn \/ Preempted \/ Receive \/ ReadTimesOut
  BY <1>8, <1>k DEF KeepOn, Preempted, Receive, ReadTimesOut, history
<1>9. CASE DropJunk \/ Resync \/ AwaitMore \/ RefuseBus \/ SkipFrame
  BY <1>9, <1>k DEF DropJunk, Resync, AwaitMore, RefuseBus, SkipFrame, history
<1>10. CASE DropByte
  <2>1. /\ AtFrame /\ Len(acc) >= HDR_LEN /\ outcomes' = outcomes /\ pc # "idle" /\ pc' # "idle"
        /\ Discard(1) /\ off' = off /\ begin' = begin
        /\ \/ stats' = stats
           \/ /\ stats' = [stats EXCEPT !.checksum_errors = @ + 1]
              /\ parse_frame(acc) = "BAD_CHECKSUM"
    BY <1>10 DEF DropByte, AtFrame, InDrain, history
  <2>2. CASE stats' = stats
    BY <1>k, <2>1, <2>2
  <2>3. CASE stats' = [stats EXCEPT !.checksum_errors = @ + 1]
             /\ parse_frame(acc) = "BAD_CHECKSUM"
    <3>1. stats' = StatsOf(stats.ok, stats.no_response, stats.transport_error,
                           stats.checksum_errors + 1, stats.consecutive_failures)
      BY <1>2, <2>3, CountDamage
    <3>2. /\ stats'.ok = stats.ok /\ stats'.no_response = stats.no_response
          /\ stats'.transport_error = stats.transport_error
          /\ stats'.consecutive_failures = stats.consecutive_failures
          /\ stats'.checksum_errors = stats.checksum_errors + 1
      BY <3>1, Zenon DEF StatsOf
    <3>3. PollsCounted'
      BY <2>1, <3>2, Zenon DEF StatsInv, PollsCounted
    <3>4. /\ HeadAt \in Nat /\ off \in Nat /\ HeadAt + Len(acc) = off /\ Len(acc) \in Nat
          /\ acc = SubSeq(stream, HeadAt + 1, off)
      BY AccIsPiece DEF AccInv
    <3>5. HeadAt' = HeadAt + 1
      <4>1. 1 \in Nat /\ 1 <= Len(acc)
        BY <2>1, <3>4 DEF HDR_LEN
      <4>2. QED
        BY <1>0, <2>1, <4>1, AccDiscard
    <3>6. HeadAt \in Damaged
      <4>1. plausible_header(acc, 0)
        BY <2>1, DrainVerdict
      <4>2. plausible_header(stream, HeadAt)
        BY <2>1, <4>1, FrameInFront
      <4>3. HeadAt \in 0 .. off - 1
        BY <2>1, <3>4 DEF HDR_LEN
      <4>4. QED
        BY <2>3, <3>4, <4>2, <4>3 DEF Damaged
    <3>7. HeadAt \notin DamagedPassed
      BY <3>4 DEF DamagedPassed
    <3>8. HeadAt \in DamagedPassed'
      <4>1. HeadAt \in Damaged'
        BY <1>0, <3>6, DamagedStays
      <4>2. HeadAt < HeadAt'
        BY <3>4, <3>5
      <4>3. QED
        BY <4>1, <4>2 DEF DamagedPassed
    <3>9. DamagedPassed \cup {HeadAt} \subseteq DamagedPassed'
      BY <1>1, <3>8
    <3>10. Cardinality(DamagedPassed \cup {HeadAt}) = Cardinality(DamagedPassed) + 1
      BY <1>1, <3>7, FS_AddElement
    <3>11. Cardinality(DamagedPassed \cup {HeadAt}) <= Cardinality(DamagedPassed')
      BY <1>1, <3>9, FS_Subset
    <3>12. stats'.checksum_errors <= Cardinality(DamagedPassed')
      <4>1. \A c, d, e \in Nat : c <= d /\ d + 1 <= e => c + 1 <= e
        OBVIOUS
      <4>2. stats.checksum_errors <= Cardinality(DamagedPassed)
        BY DEF StatsInv
      <4>3. QED
        BY <1>1, <1>2, <3>2, <3>10, <3>11, <4>1, <4>2
    <3>13. QED
      BY <3>3, <3>12 DEF StatsInv
  <2>4. QED
    BY <2>1, <2>2, <2>3
<1>11. CASE UNCHANGED vars
  BY <1>11, <1>k DEF vars, history
<1>12. QED
  BY <1>3, <1>4, <1>5, <1>6, <1>7, <1>8, <1>9, <1>10, <1>11 DEF Next, Call, Step

\* The counters tell the history of the polls, also over calls that fail and
\* calls that count damaged frames: each poll is counted once, and a damaged
\* frame of the stream once at most.
THEOREM StatsAreTrue == Spec => []StatsTellThePolls
<1>1. AccInv /\ TypeInv /\ StatsInv => StatsTellThePolls
  <2> SUFFICES ASSUME AccInv, TypeInv, StatsInv PROVE StatsTellThePolls
    OBVIOUS
  <2>1. PollsCounted /\ stats.checksum_errors <= Cardinality(DamagedPassed)
    BY DEF StatsInv
  <2>2. /\ Cardinality(DamagedPassed) \in Nat /\ IsFiniteSet(Damaged)
        /\ Cardinality(DamagedPassed) <= Cardinality(Damaged)
    BY DamagedFinite
  <2>3. stats.checksum_errors <= Cardinality(Damaged)
    <3>1. stats.checksum_errors \in Nat /\ Cardinality(Damaged) \in Nat
      BY <2>2, FS_CardinalityType DEF TypeInv, Stats
    <3>2. QED
      BY <2>1, <2>2, <3>1
  <2>4. QED
    BY <2>1, <2>3, Zenon DEF PollsCounted, StatsTellThePolls, Count, Where, Running
<1>2. QED
  BY <1>1, AccInit, AccStep, TypeInit, TypeStep, StatsInit, StatsStep, PTL DEF Spec
=============================================================================
