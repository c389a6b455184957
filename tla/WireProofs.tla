----------------------------- MODULE WireProofs -----------------------------
(***************************************************************************)
(* Facts about the wire, for every table of windows, every MAX_FRAME_LEN   *)
(* and every buffer: what find_frame_start and parse_frame return, that    *)
(* bytes arriving later do not change their answers, and that the wire     *)
(* address a request writes to names its register and no other.            *)
(***************************************************************************)
EXTENDS MaconRequests, SequenceTheorems, NaturalsInduction, WellFoundedInduction, TLAPS

-----------------------------------------------------------------------------
(* The codec *)

\* Every nonempty set of natural numbers has a least element.
LEMMA LeastElement ==
  ASSUME NEW S \in SUBSET Nat, S # {}
  PROVE  \E i \in S : \A j \in S : i <= j
<1>1. PICK x \in S : \A y \in S : <<y, x>> \notin OpToRel(<, Nat)
  BY NatLessThanWellFounded, WFMin
<1>2. \A y \in S : ~ (y < x)
  BY <1>1 DEF OpToRel
<1>3. QED
  BY <1>2

\* find_frame_start returns the least offset at which a plausible header
\* starts, or the length of the buffer when there is none.
LEMMA FindFrameStart ==
  ASSUME NEW buf \in Seq(Byte)
  PROVE  /\ find_frame_start(buf) \in 0 .. Len(buf)
         /\ \A i \in 0 .. find_frame_start(buf) - 1 : ~ plausible_header(buf, i)
         /\ find_frame_start(buf) < Len(buf)
              => plausible_header(buf, find_frame_start(buf))
<1> DEFINE starts == {i \in 0 .. Len(buf) - 1 : plausible_header(buf, i)}
<1>1. CASE starts = {}
  BY <1>1 DEF find_frame_start
<1>2. CASE starts # {}
  <2>1. find_frame_start(buf) = CHOOSE i \in starts : \A j \in starts : i <= j
    BY <1>2 DEF find_frame_start
  <2>2. \E i \in starts : \A j \in starts : i <= j
    <3>1. starts \in SUBSET Nat
      OBVIOUS
    <3> HIDE DEF starts
    <3>2. QED
      BY <1>2, <3>1, LeastElement
  <2>3. /\ find_frame_start(buf) \in starts
        /\ \A j \in starts : find_frame_start(buf) <= j
    BY <2>1, <2>2
  <2>4. QED
    BY <2>3
<1>3. QED
  BY <1>1, <1>2

\* A 16-bit field put together from two bytes is a natural number.
LEMMA U16Type ==
  ASSUME NEW hi \in Byte, NEW lo \in Byte
  PROVE  U16(hi, lo) \in Nat
BY DEF U16, Byte

\* A frame length is 0 or lies between that of an empty frame and the maximum.
LEMMA DeclaredLength ==
  ASSUME NEW buf \in Seq(Byte), Len(buf) >= HDR_LEN
  PROVE  /\ FieldB(buf) \in Nat
         /\ declared_len(buf) \in 0 .. MAX_FRAME_LEN
         /\ declared_len(buf) # 0 => declared_len(buf) >= MIN_FRAME_LEN
<1>1. FieldB(buf) \in Nat
  <2>1. buf[7] \in Byte /\ buf[8] \in Byte
    BY ElementOfSeq DEF HDR_LEN
  <2>2. QED
    BY <2>1, U16Type DEF FieldB
<1>2. QED
  BY <1>1, MaxFrameAssumption
  DEF declared_len, command_frame_len, frame_total_len, AtMostMax,
      HDR_LEN, CHK_LEN, MIN_FRAME_LEN

\* A header at the front is judged by its frame alone: it never comes back as
\* UNKNOWN_WINDOW, waits for less than a whole maximal frame, and a frame that
\* is taken lies within the buffer.
LEMMA ParseAtHeader ==
  ASSUME NEW buf \in Seq(Byte), plausible_header(buf, 0)
  PROVE  /\ parse_frame(buf) \in {"OK", "TRUNCATED", "BAD_CHECKSUM", "BAD_DIR"}
         /\ parse_frame(buf) = "TRUNCATED" => Len(buf) < MAX_FRAME_LEN
         /\ parse_frame(buf) = "OK" => declared_len(buf) \in MIN_FRAME_LEN .. Len(buf)
<1>1. Len(buf) \in Nat /\ Len(buf) >= HDR_LEN
  BY DEF plausible_header, has_magic, HDR_LEN
<1>2. /\ buf[1] = HDR0 /\ buf[2] = HDR1
      /\ header_dir_ok(buf[3]) /\ header_fc_ok(buf[4])
      /\ buf[4] = FC_CMD \/ is_known_window(FieldA(buf), FieldB(buf))
  BY DEF plausible_header, has_magic, FieldA, FieldB
<1>3. /\ declared_len(buf) \in 0 .. MAX_FRAME_LEN
      /\ declared_len(buf) # 0 => declared_len(buf) >= MIN_FRAME_LEN
  BY <1>1, DeclaredLength
<1>4. QED
  BY <1>1, <1>2, <1>3, MaxFrameAssumption DEF parse_frame, checksum_ok, MIN_FRAME_LEN, HDR_LEN, CHK_LEN
-----------------------------------------------------------------------------
(* Bytes that arrive later *)

\* Whether a header starts at an offset whose eight bytes have arrived does
\* not depend on what follows them.
LEMMA HeaderOfExtension ==
  ASSUME NEW buf \in Seq(Byte), NEW more \in Seq(Byte), NEW i \in Nat,
         i + HDR_LEN <= Len(buf)
  PROVE  plausible_header(buf \o more, i) <=> plausible_header(buf, i)
<1>1. Len(buf \o more) = Len(buf) + Len(more)
  BY ConcatProperties
<1>2. \A k \in 1 .. HDR_LEN : (buf \o more)[i + k] = buf[i + k]
  BY ConcatProperties DEF HDR_LEN
<1>3. HDR_LEN = 8 /\ 1 \in 1 .. HDR_LEN /\ 2 \in 1 .. HDR_LEN /\ 3 \in 1 .. HDR_LEN
      /\ 4 \in 1 .. HDR_LEN /\ 5 \in 1 .. HDR_LEN /\ 6 \in 1 .. HDR_LEN
      /\ 7 \in 1 .. HDR_LEN /\ 8 \in 1 .. HDR_LEN
  BY DEF HDR_LEN
<1>4. /\ (buf \o more)[i + 1] = buf[i + 1] /\ (buf \o more)[i + 2] = buf[i + 2]
      /\ (buf \o more)[i + 3] = buf[i + 3] /\ (buf \o more)[i + 4] = buf[i + 4]
      /\ (buf \o more)[i + 5] = buf[i + 5] /\ (buf \o more)[i + 6] = buf[i + 6]
      /\ (buf \o more)[i + 7] = buf[i + 7] /\ (buf \o more)[i + 8] = buf[i + 8]
  BY <1>2, <1>3, Zenon
<1>5. i + HDR_LEN <= Len(buf \o more)
  BY <1>1 DEF HDR_LEN
<1>6. QED
  BY <1>4, <1>5, Zenon DEF plausible_header, has_magic

\* A frame start, once found, stays the answer (StartStable of CodecStream).
LEMMA StartOfExtension ==
  ASSUME NEW buf \in Seq(Byte), NEW more \in Seq(Byte),
         find_frame_start(buf) < Len(buf)
  PROVE  find_frame_start(buf \o more) = find_frame_start(buf)
<1> DEFINE s == find_frame_start(buf)
           t == find_frame_start(buf \o more)
<1>1. /\ s \in Nat /\ plausible_header(buf, s)
      /\ \A i \in 0 .. s - 1 : ~ plausible_header(buf, i)
  BY FindFrameStart
<1>2. s + HDR_LEN <= Len(buf)
  BY <1>1 DEF plausible_header, has_magic
<1>3. /\ buf \o more \in Seq(Byte)
      /\ Len(buf \o more) = Len(buf) + Len(more)
  BY ConcatProperties
<1>4. /\ t \in 0 .. Len(buf) + Len(more)
      /\ \A i \in 0 .. t - 1 : ~ plausible_header(buf \o more, i)
      /\ t < Len(buf) + Len(more) => plausible_header(buf \o more, t)
  BY <1>3, FindFrameStart
<1>5. plausible_header(buf \o more, s)
  BY <1>1, <1>2, HeaderOfExtension
<1>6. \A i \in 0 .. s - 1 : ~ plausible_header(buf \o more, i)
  BY <1>1, <1>2, HeaderOfExtension DEF HDR_LEN
<1> HIDE DEF s, t
<1>7. t <= s
  BY <1>1, <1>4, <1>5
<1>8. QED
  <2>1. s < Len(buf) + Len(more)
    BY <1>1, <1>2 DEF HDR_LEN
  <2>2. t = s
    BY <1>1, <1>4, <1>6, <1>7, <2>1
  <2>3. QED
    BY <2>2 DEF s, t

\* When no start is found, a header that completes later starts within the
\* last HDR_LEN - 1 bytes (TailKeepsStart of CodecStream).
LEMMA TailOfExtension ==
  ASSUME NEW buf \in Seq(Byte), NEW more \in Seq(Byte),
         Len(buf) >= HDR_LEN,
         find_frame_start(buf) = Len(buf)
  PROVE  find_frame_start(buf \o more) >= Len(buf) - (HDR_LEN - 1)
<1> DEFINE t == find_frame_start(buf \o more)
<1>1. \A i \in 0 .. Len(buf) - 1 : ~ plausible_header(buf, i)
  BY FindFrameStart
<1>2. /\ buf \o more \in Seq(Byte)
      /\ Len(buf \o more) = Len(buf) + Len(more)
  BY ConcatProperties
<1>3. /\ t \in 0 .. Len(buf) + Len(more)
      /\ t < Len(buf) + Len(more) => plausible_header(buf \o more, t)
  BY <1>2, FindFrameStart
<1> HIDE DEF t
<1>4. ASSUME t + HDR_LEN <= Len(buf) PROVE FALSE
  <2>1. ~ plausible_header(buf, t)
    BY <1>1, <1>3, <1>4 DEF HDR_LEN
  <2>2. plausible_header(buf \o more, t)
    BY <1>3, <1>4 DEF HDR_LEN
  <2>3. QED
    BY <1>3, <1>4, <2>1, <2>2, HeaderOfExtension
<1>5. t >= Len(buf) - (HDR_LEN - 1)
  BY <1>3, <1>4 DEF HDR_LEN
<1>6. QED
  BY <1>5 DEF t

\* A verdict other than TRUNCATED is final, and so are the fields of a frame
\* that was taken (ParseStable of CodecStream).
LEMMA ParseOfExtension ==
  ASSUME NEW buf \in Seq(Byte), NEW more \in Seq(Byte),
         parse_frame(buf) # "TRUNCATED"
  PROVE  /\ parse_frame(buf \o more) = parse_frame(buf)
         /\ declared_len(buf \o more) = declared_len(buf)
         /\ parse_frame(buf) \in {"OK", "UNKNOWN_WINDOW"}
              => parsed_frame(buf \o more) = parsed_frame(buf)
<1> DEFINE ext == buf \o more
           n == declared_len(buf)
<1>1. /\ ext \in Seq(Byte)
      /\ Len(ext) = Len(buf) + Len(more)
      /\ \A k \in 1 .. Len(buf) : ext[k] = buf[k]
  BY ConcatProperties
<1>2. Len(buf) >= HDR_LEN
  BY DEF parse_frame, checksum_ok, HDR_LEN
<1>3. /\ ext[1] = buf[1] /\ ext[2] = buf[2] /\ ext[3] = buf[3] /\ ext[4] = buf[4]
      /\ ext[5] = buf[5] /\ ext[6] = buf[6] /\ ext[7] = buf[7] /\ ext[8] = buf[8]
  BY <1>1, <1>2 DEF HDR_LEN
<1>4. declared_len(ext) = n /\ FieldA(ext) = FieldA(buf) /\ FieldB(ext) = FieldB(buf)
  BY <1>3 DEF declared_len, FieldA, FieldB
<1>5. n \in Nat /\ (n # 0 => n >= MIN_FRAME_LEN) /\ FieldB(buf) \in Nat
  BY <1>2, DeclaredLength, MaxFrameAssumption DEF MIN_FRAME_LEN, HDR_LEN, CHK_LEN
<1>6. ASSUME n # 0, n <= Len(buf)
      PROVE  ext[n] = buf[n] /\ compute_checksum(ext, n) = compute_checksum(buf, n)
  <2>1. SubSeq(ext, 3, n - 1) = SubSeq(buf, 3, n - 1)
    BY <1>1, <1>5, <1>6, SubSeqOfConcat1 DEF MIN_FRAME_LEN, HDR_LEN, CHK_LEN
  <2>2. ext[n] = buf[n]
    BY <1>1, <1>5, <1>6 DEF MIN_FRAME_LEN, HDR_LEN, CHK_LEN
  <2>3. QED
    BY <2>1, <2>2 DEF compute_checksum
<1> HIDE DEF ext, n
<1>7. parse_frame(ext) = parse_frame(buf)
  BY <1>1, <1>2, <1>3, <1>4, <1>5, <1>6 DEF parse_frame, checksum_ok, n, HDR_LEN
<1>8. ASSUME parse_frame(buf) \in {"OK", "UNKNOWN_WINDOW"}
      PROVE  parsed_frame(ext) = parsed_frame(buf)
  <2>1. n # 0 /\ n <= Len(buf)
    BY <1>2, <1>5, <1>8 DEF parse_frame, checksum_ok, n
  <2>2. carries_payload(buf[3], buf[4])
          => SubSeq(ext, HDR_LEN + 1, HDR_LEN + FieldB(buf))
               = SubSeq(buf, HDR_LEN + 1, HDR_LEN + FieldB(buf))
    <3>1. SUFFICES ASSUME carries_payload(buf[3], buf[4])
                   PROVE  SubSeq(ext, HDR_LEN + 1, HDR_LEN + FieldB(buf))
                            = SubSeq(buf, HDR_LEN + 1, HDR_LEN + FieldB(buf))
      OBVIOUS
    <3>2. HDR_LEN + FieldB(buf) <= Len(buf)
      BY <1>5, <2>1, <3>1
      DEF n, carries_payload, declared_len, command_frame_len, frame_total_len,
          AtMostMax, HDR_LEN, CHK_LEN, DIR_REQUEST, DIR_RESPONSE, FC_READ, FC_CMD
    <3>3. QED
      BY <1>1, <1>2, <1>5, <3>2, SubSeqOfConcat1 DEF ext, HDR_LEN
  <2>3. QED
    BY <1>3, <1>4, <2>2 DEF parsed_frame, HDR_LEN, n
<1>9. QED
  BY <1>4, <1>7, <1>8 DEF ext, n
-----------------------------------------------------------------------------
(* Pieces of a stream *)

\* A piece of a piece of the stream is a piece of the stream.
LEMMA PieceOfPiece ==
  ASSUME NEW s \in Seq(Byte), NEW b \in Nat, NEW o \in Nat, NEW c \in Nat,
         b + c <= o, o <= Len(s)
  PROVE  LET a == SubSeq(s, b + 1, o)
         IN  /\ a \in Seq(Byte) /\ Len(a) = o - b
             /\ SubSeq(a, c + 1, Len(a)) = SubSeq(s, b + c + 1, o)
<1> DEFINE a == SubSeq(s, b + 1, o)
<1>1. a \in Seq(Byte) /\ Len(a) = o - b
  BY SubSeqProperties
<1>2. SubSeq(a, c + 1, o - b) = SubSeq(s, b + c + 1, o)
  OBVIOUS
<1>3. QED
  BY <1>1, <1>2

\* A header that has arrived within a piece of the stream is the stream's.
LEMMA HeaderOfPiece ==
  ASSUME NEW s \in Seq(Byte), NEW p \in Nat, NEW o \in Nat, NEW k \in Nat,
         p + k + HDR_LEN <= o, o <= Len(s)
  PROVE  plausible_header(SubSeq(s, p + 1, o), k) <=> plausible_header(s, p + k)
<1> DEFINE a == SubSeq(s, p + 1, o)
<1>1. Len(a) = o - p /\ \A i \in 1 .. o - p : a[i] = s[p + i]
  BY SubSeqProperties DEF HDR_LEN
<1> HIDE DEF a
<1>2. /\ a[k + 1] = s[p + k + 1] /\ a[k + 2] = s[p + k + 2]
      /\ a[k + 3] = s[p + k + 3] /\ a[k + 4] = s[p + k + 4]
      /\ a[k + 5] = s[p + k + 5] /\ a[k + 6] = s[p + k + 6]
      /\ a[k + 7] = s[p + k + 7] /\ a[k + 8] = s[p + k + 8]
  <2>1. \A j \in 1 .. HDR_LEN : a[k + j] = s[p + k + j]
    <3> TAKE j \in 1 .. HDR_LEN
    <3>1. k + j \in 1 .. o - p /\ p + (k + j) = p + k + j
      BY DEF HDR_LEN
    <3>2. QED
      BY <1>1, <3>1
  <2>2. QED
    BY <2>1 DEF HDR_LEN
<1>3. k + HDR_LEN <= Len(a) /\ p + k + HDR_LEN <= Len(s)
  BY <1>1 DEF HDR_LEN
<1>4. plausible_header(a, k) <=> plausible_header(s, p + k)
  BY <1>2, <1>3 DEF plausible_header, has_magic
<1>5. QED
  BY <1>4 DEF a

\* The frame at an offset of the stream, of which a piece has come in with the
\* header: what it claims is the stream's, a verdict is final, and a verdict
\* that is missing says that the frame is longer than the piece.
LEMMA FrameOfPiece ==
  ASSUME NEW s \in Seq(Byte), NEW p \in Nat, NEW o \in Nat, NEW q \in Nat,
         p + HDR_LEN <= o, o <= q, q <= Len(s)
  PROVE  LET a == SubSeq(s, p + 1, o)
             w == SubSeq(s, p + 1, q)
         IN  /\ a \in Seq(Byte) /\ Len(a) = o - p
             /\ plausible_header(a, 0) <=> plausible_header(s, p)
             /\ declared_len(w) = declared_len(a) /\ declared_len(a) \in Nat
             /\ parse_frame(a) # "TRUNCATED" => parse_frame(w) = parse_frame(a)
             /\ parse_frame(a) = "OK" => parsed_frame(w) = parsed_frame(a)
             /\ parse_frame(a) = "TRUNCATED" => o - p < declared_len(a)
<1> DEFINE a == SubSeq(s, p + 1, o)
           w == SubSeq(s, p + 1, q)
           more == SubSeq(s, o + 1, q)
<1>1. /\ a \in Seq(Byte) /\ Len(a) = o - p /\ Len(a) >= HDR_LEN
      /\ \A k \in 1 .. o - p : a[k] = s[p + k]
  BY SubSeqProperties DEF HDR_LEN
<1>2. more \in Seq(Byte)
  BY SubSeqProperties
<1>3. w = a \o more
  <2>1. p + 1 \in 1 .. Len(s) + 1 /\ o \in (p + 1) - 1 .. Len(s) /\ q \in o .. Len(s)
    BY DEF HDR_LEN
  <2>2. QED
    BY <2>1, ConcatAdjacentSubSeq
<1>4. plausible_header(a, 0) <=> plausible_header(s, p)
  <2>1. p + 0 + HDR_LEN <= o /\ o <= Len(s) /\ p + 0 = p
    BY DEF HDR_LEN
  <2>2. plausible_header(a, 0) <=> plausible_header(s, p + 0)
    BY <2>1, HeaderOfPiece
  <2>3. QED
    BY <2>1, <2>2
<1> HIDE DEF a, w, more
<1>5. declared_len(w) = declared_len(a)
  <2>1. \A k \in 1 .. Len(a) : w[k] = a[k]
    BY <1>1, <1>2, <1>3, ConcatProperties
  <2>2. w[3] = a[3] /\ w[4] = a[4] /\ w[7] = a[7] /\ w[8] = a[8]
    BY <1>1, <2>1 DEF HDR_LEN
  <2>3. QED
    BY <2>2 DEF declared_len, FieldB
<1>6. declared_len(a) \in Nat
  BY <1>1, DeclaredLength, MaxFrameAssumption
<1>7. parse_frame(a) # "TRUNCATED" => parse_frame(w) = parse_frame(a)
  BY <1>1, <1>2, <1>3, ParseOfExtension
<1>8. parse_frame(a) = "OK" => parsed_frame(w) = parsed_frame(a)
  BY <1>1, <1>2, <1>3, ParseOfExtension
<1>9. parse_frame(a) = "TRUNCATED" => o - p < declared_len(a)
  BY <1>1, <1>6 DEF parse_frame, HDR_LEN
<1>10. QED
  BY <1>1, <1>4, <1>5, <1>6, <1>7, <1>8, <1>9 DEF a, w
-----------------------------------------------------------------------------
(* Sums and whole frames *)

\* The running sums of a sequence of bytes.
Sums(bytes, n, f) ==
  /\ f \in [0 .. n -> Nat]
  /\ f[0] = 0
  /\ \A i \in 1 .. n : f[i] = f[i - 1] + bytes[i]

\* There are running sums of every length: no least length is without.
LEMMA SumsExist ==
  ASSUME NEW bytes \in Seq(Byte)
  PROVE  \E f : Sums(bytes, Len(bytes), f)
<1> DEFINE without == {n \in 0 .. Len(bytes) : ~ \E f : Sums(bytes, n, f)}
<1>1. Len(bytes) \in Nat
  OBVIOUS
<1>2. without = {}
  <2> SUFFICES ASSUME without # {} PROVE FALSE
    OBVIOUS
  <2>1. without \in SUBSET Nat
    OBVIOUS
  <2>2. PICK n \in without : \A m \in without : n <= m
    <3> HIDE DEF without
    <3>1. QED
      BY <2>1, LeastElement
  <2>3. n \in 0 .. Len(bytes) /\ ~ \E f : Sums(bytes, n, f)
    BY <2>2
  <2>4. n # 0
    <3>1. Sums(bytes, 0, [i \in 0 .. 0 |-> 0])
      BY DEF Sums
    <3>2. QED
      BY <2>3, <3>1
  <2>5. n - 1 \in 0 .. Len(bytes) /\ n - 1 \notin without
    BY <1>1, <2>2, <2>3, <2>4
  <2>6. PICK f : Sums(bytes, n - 1, f)
    BY <2>5
  <2> DEFINE g == [i \in 0 .. n |-> IF i = n THEN f[n - 1] + bytes[n] ELSE f[i]]
  <2>7. n \in Nat /\ n >= 1 /\ bytes[n] \in Nat
    <3>1. n \in Nat /\ n >= 1 /\ n \in 1 .. Len(bytes)
      <4>1. n \in 0 .. Len(bytes) /\ n # 0
        BY <2>3, <2>4
      <4> HIDE DEF without
      <4>2. QED
        BY <1>1, <4>1
    <3>2. bytes[n] \in Byte
      BY <3>1, ElementOfSeq
    <3>3. \A x \in Byte : x \in Nat
      BY DEF Byte
    <3>4. QED
      BY <3>1, <3>2, <3>3
  <2>8. \A i \in 0 .. n - 1 : f[i] \in Nat /\ g[i] = f[i]
    <3>1. \A i \in 0 .. n - 1 : f[i] \in Nat
      BY <2>6 DEF Sums
    <3>2. \A i \in 0 .. n - 1 : i \in 0 .. n /\ i # n
      BY <2>7
    <3>3. QED
      BY <3>1, <3>2
  <2>9. g[n] = f[n - 1] + bytes[n] /\ f[n - 1] + bytes[n] \in Nat
    <3>1. n \in 0 .. n /\ n - 1 \in 0 .. n - 1
      BY <2>7
    <3>2. f[n - 1] \in Nat
      BY <2>8, <3>1
    <3>3. f[n - 1] + bytes[n] \in Nat
      BY <2>7, <3>2
    <3>4. QED
      BY <3>1, <3>3
  <2>10. g \in [0 .. n -> Nat]
    <3>1. \A i \in 0 .. n : i = n \/ i \in 0 .. n - 1
      BY <2>7
    <3>2. \A i \in 0 .. n : g[i] \in Nat
      <4> HIDE DEF g
      <4>1. QED
        BY <2>8, <2>9, <3>1
    <3>3. QED
      BY <3>2
  <2>11. g[0] = 0
    BY <2>6, <2>7, <2>8 DEF Sums
  <2> HIDE DEF g
  <2>12. \A i \in 1 .. n : g[i] = g[i - 1] + bytes[i]
    <3> TAKE i \in 1 .. n
    <3>1. CASE i = n
      BY <2>7, <2>8, <2>9, <3>1
    <3>2. CASE i \in 1 .. n - 1
      <4>1. f[i] = f[i - 1] + bytes[i]
        BY <2>6, <3>2 DEF Sums
      <4>2. g[i] = f[i] /\ g[i - 1] = f[i - 1]
        BY <2>7, <2>8, <3>2
      <4>3. QED
        BY <4>1, <4>2
    <3>3. QED
      BY <2>7, <3>1, <3>2
  <2>13. Sums(bytes, n, g)
    BY <2>10, <2>11, <2>12 DEF Sums
  <2>14. QED
    BY <2>3, <2>13
<1>3. QED
  BY <1>1, <1>2

\* A sum of bytes is a number, and a checksum a byte.
LEMMA SumType ==
  ASSUME NEW bytes \in Seq(Byte)
  PROVE  SumOf(bytes) \in Nat
<1> DEFINE next(h) == [i \in 0 .. Len(bytes) |-> IF i = 0 THEN 0 ELSE h[i - 1] + bytes[i]]
           sum == CHOOSE h : h = next(h)
<1>1. PICK f : Sums(bytes, Len(bytes), f)
  BY SumsExist
<1>2. f = next(f)
  <2>1. \A i \in 0 .. Len(bytes) : f[i] = next(f)[i]
    BY <1>1 DEF Sums
  <2>2. QED
    BY <1>1, <2>1 DEF Sums
<1>3. sum = next(sum)
  BY <1>2
<1>4. SumOf(bytes) = sum[Len(bytes)]
  BY DEF SumOf
<1> HIDE DEF sum
<1>5. Len(bytes) \in Nat /\ \A i \in 1 .. Len(bytes) : bytes[i] \in Nat
  <2>1. \A i \in 1 .. Len(bytes) : bytes[i] \in Byte
    BY ElementOfSeq
  <2>2. \A x \in Byte : x \in Nat
    BY DEF Byte
  <2>3. QED
    BY <2>1, <2>2
<1>6. /\ sum[0] = 0
      /\ \A i \in 1 .. Len(bytes) : sum[i] = sum[i - 1] + bytes[i]
  BY <1>3, <1>5
<1> DEFINE odd == {i \in 0 .. Len(bytes) : sum[i] \notin Nat}
<1>7. odd = {}
  <2> SUFFICES ASSUME odd # {} PROVE FALSE
    OBVIOUS
  <2>1. odd \in SUBSET Nat
    OBVIOUS
  <2>2. PICK i \in odd : \A j \in odd : i <= j
    <3> HIDE DEF odd
    <3>1. QED
      BY <2>1, LeastElement
  <2>3. i \in 1 .. Len(bytes) /\ sum[i] \notin Nat
    BY <1>5, <1>6, <2>2
  <2>4. i - 1 \in 0 .. Len(bytes) /\ i - 1 \notin odd
    BY <2>2, <2>3
  <2>5. sum[i - 1] \in Nat
    BY <2>4
  <2>6. QED
    BY <1>5, <1>6, <2>3, <2>5
<1>8. QED
  BY <1>4, <1>5, <1>7

LEMMA ChecksumType ==
  ASSUME NEW bytes \in Seq(Byte), NEW n \in Nat, n <= Len(bytes) + 1
  PROVE  compute_checksum(bytes, n) \in Byte
<1>1. SubSeq(bytes, 3, n - 1) \in Seq(Byte)
  <2>1. \A i \in 3 .. n - 1 : bytes[i] \in Byte
    BY ElementOfSeq
  <2>2. QED
    BY <2>1, SubSeqProperties
<1>2. SumOf(SubSeq(bytes, 3, n - 1)) \in Nat
  BY <1>1, SumType
<1>3. \A x \in Nat : 255 - (x % 256) \in 0 .. 255
  OBVIOUS
<1>4. 255 - (SumOf(SubSeq(bytes, 3, n - 1)) % 256) \in 0 .. 255
  BY <1>2, <1>3
<1>5. QED
  BY <1>4 DEF compute_checksum, Byte

\* The 16-bit numbers, and the two bytes of one put together again.
LEMMA WordRange ==
  /\ \A x \in Word : x \in Nat /\ x <= 65535
  /\ \A x \in Nat : x <= 65535 => x \in Word
<1> DEFINE top == 256 * 256 - 1
<1>1. top \in Nat
  OBVIOUS
<1>a. top = 65535
  OBVIOUS
<1>2. Word = 0 .. top
  BY DEF Word
<1> HIDE DEF top
<1>3. /\ \A x \in 0 .. top : x \in Nat /\ x <= top
      /\ \A x \in Nat : x <= top => x \in 0 .. top
  BY <1>1
<1>4. /\ \A x \in Word : x \in Nat /\ x <= top
      /\ \A x \in Nat : x <= top => x \in Word
  BY <1>2, <1>3
<1>5. QED
  BY <1>a, <1>4

LEMMA WordBytes ==
  ASSUME NEW x \in Word
  PROVE  x \in Nat /\ x \div 256 \in Nat /\ x % 256 \in Nat
         /\ U16(x \div 256, x % 256) = x
<1>1. x \in Nat
  BY WordRange
<1>2. \A y \in Nat : y \div 256 \in Nat /\ y % 256 \in Nat /\ (y \div 256) * 256 + (y % 256) = y
  OBVIOUS
<1>3. QED
  BY <1>1, <1>2 DEF U16

\* The fields of a header that has come in are 16 bits wide.
LEMMA FieldsAreWords ==
  ASSUME NEW buf \in Seq(Byte), Len(buf) >= HDR_LEN
  PROVE  FieldA(buf) \in Word /\ FieldB(buf) \in Word
<1>1. buf[5] \in Byte /\ buf[6] \in Byte /\ buf[7] \in Byte /\ buf[8] \in Byte
  BY ElementOfSeq DEF HDR_LEN
<1>2. ASSUME NEW hi \in Byte, NEW lo \in Byte PROVE U16(hi, lo) \in Word
  <2>1. hi \in 0 .. 255 /\ lo \in 0 .. 255
    BY DEF Byte
  <2>2. hi * 256 + lo \in Nat /\ hi * 256 + lo <= 65535
    BY <2>1
  <2>3. QED
    BY <2>2, WordRange DEF U16
<1>3. QED
  BY <1>1, <1>2 DEF FieldA, FieldB

\* A sealed frame is its header, its data and one byte.
LEMMA SealedLength ==
  ASSUME NEW dir, NEW fc, NEW a, NEW b, NEW data \in Seq(Byte)
  PROVE  Len(Seal(write_header(dir, fc, a, b) \o data)) = MIN_FRAME_LEN + Len(data)
<1> DEFINE h == write_header(dir, fc, a, b)
           body == h \o data
           S == Byte \cup {h[i] : i \in 1 .. 8}
<1>1. Len(h) = 8 /\ h \in Seq(S) /\ data \in Seq(S)
  <2>1. Len(h) = 8
    BY DEF write_header
  <2>2. h \in Seq({h[i] : i \in 1 .. 8})
    BY DEF write_header
  <2>3. data \in Seq(S)
    <3>1. \A i \in 1 .. Len(data) : data[i] \in Byte
      BY ElementOfSeq
    <3>2. QED
      BY <3>1
  <2>4. QED
    BY <2>1, <2>2, <2>3
<1> HIDE DEF h, S
<1>2. body \in Seq(S) /\ Len(body) = 8 + Len(data)
  <2>1. h \o data \in Seq(S) /\ Len(h \o data) = Len(h) + Len(data)
    BY <1>1, ConcatProperties
  <2>2. QED
    BY <1>1, <2>1
<1> HIDE DEF body
<1>3. \A c : Len(Append(body, c)) = Len(body) + 1
  BY <1>2
<1>4. QED
  BY <1>2, <1>3 DEF Seal, body, h, MIN_FRAME_LEN, HDR_LEN, CHK_LEN

\* It consists of bytes.
LEMMA SealedType ==
  ASSUME NEW dir \in Byte, NEW fc \in Byte, NEW a \in Word, NEW b \in Word,
         NEW data \in Seq(Byte)
  PROVE  Seal(write_header(dir, fc, a, b) \o data) \in Seq(Byte)
<1> DEFINE h == write_header(dir, fc, a, b)
           body == h \o data
<1>1. \A x \in Word : x \div 256 \in Byte /\ x % 256 \in Byte
  <2>1. ASSUME NEW x \in Nat, x <= 65535
        PROVE  /\ x \div 256 \in Nat /\ x \div 256 <= 255
               /\ x % 256 \in Nat /\ x % 256 <= 255
    BY <2>1
  <2>2. \A y \in Nat : y <= 255 => y \in Byte
    BY DEF Byte
  <2>3. QED
    BY <2>1, <2>2, WordRange
<1>2. HDR0 \in Byte /\ HDR1 \in Byte
  BY DEF HDR0, HDR1, Byte
<1>3. h \in Seq(Byte)
  BY <1>1, <1>2 DEF write_header
<1> HIDE DEF h
<1>4. body \in Seq(Byte) /\ Len(body) \in Nat
  BY <1>3, ConcatProperties
<1> HIDE DEF body
<1>5. compute_checksum(body, Len(body) + 1) \in Byte
  BY <1>4, ChecksumType
<1>6. Append(body, compute_checksum(body, Len(body) + 1)) \in Seq(Byte)
  BY <1>4, <1>5, AppendProperties
<1>7. QED
  BY <1>6 DEF Seal, body, h

\* So do the requests of the encoders, for the windows and for a command of
\* one byte.
LEMMA RequestType ==
  ASSUME NEW w \in KNOWN_WINDOWS
  PROVE  encode_request(FC_READ, w.field_a, w.field_b) \in Seq(Byte)
<1> DEFINE h == write_header(DIR_REQUEST, FC_READ, w.field_a, w.field_b)
<1>1. /\ w.field_a \in Word /\ w.field_b \in Word
      /\ DIR_REQUEST \in Byte /\ FC_READ \in Byte /\ <<>> \in Seq(Byte)
  BY WindowsAssumption DEF RegWindow, DIR_REQUEST, FC_READ, Byte
<1>2. h \o <<>> = h
  BY DEF write_header
<1>3. Seal(h \o <<>>) \in Seq(Byte)
  BY <1>1, SealedType
<1> HIDE DEF h
<1>4. Seal(h) \in Seq(Byte)
  BY <1>2, <1>3
<1>5. QED
  BY <1>1, <1>4 DEF encode_request, h

LEMMA CommandType ==
  ASSUME NEW a \in Word, NEW byte \in Byte
  PROVE  encode_command(a, <<byte>>) \in Seq(Byte)
<1>1. /\ DIR_REQUEST \in Byte /\ FC_CMD \in Byte /\ <<byte>> \in Seq(Byte)
      /\ Len(<<byte>>) = 1 /\ 1 \in Word
  BY WordRange DEF DIR_REQUEST, FC_CMD, Byte
<1>2. Seal(write_header(DIR_REQUEST, FC_CMD, a, 1) \o <<byte>>) \in Seq(Byte)
  BY <1>1, SealedType
<1>3. QED
  BY <1>1, <1>2 DEF encode_command

\* What an encoder makes sure of before it seals a frame.
Encodable(dir, fc, a, b, data) ==
  /\ header_dir_ok(dir) /\ header_fc_ok(fc)
  /\ a \in Word /\ b \in Word /\ data \in Seq(Byte)
  /\ fc = FC_CMD \/ is_known_window(a, b)
  /\ Len(data) = IF carries_payload(dir, fc) THEN b ELSE 0
  /\ MIN_FRAME_LEN + Len(data) <= MAX_FRAME_LEN

\* What Seal puts behind a header and its data parses back to the fields it was
\* built from, with any bytes behind it: both checksums run over the same bytes.
LEMMA SealedFrame ==
  ASSUME NEW buf \in Seq(Byte), NEW dir, NEW fc, NEW a, NEW b, NEW data,
         Encodable(dir, fc, a, b, data),
         MIN_FRAME_LEN + Len(data) <= Len(buf),
         SubSeq(buf, 1, MIN_FRAME_LEN + Len(data))
           = Seal(write_header(dir, fc, a, b) \o data)
  PROVE  /\ parse_frame(buf) = "OK"
         /\ plausible_header(buf, 0)
         /\ parsed_frame(buf) = [dir |-> dir, fc |-> fc, field_a |-> a, field_b |-> b,
                                 frame_len |-> MIN_FRAME_LEN + Len(data),
                                 payload |-> data]
<1> DEFINE header == write_header(dir, fc, a, b)
           body == header \o data
           n == MIN_FRAME_LEN + Len(data)
<1>a. /\ header_dir_ok(dir) /\ header_fc_ok(fc)
      /\ a \in Word /\ b \in Word /\ data \in Seq(Byte)
      /\ fc = FC_CMD \/ is_known_window(a, b)
      /\ Len(data) = IF carries_payload(dir, fc) THEN b ELSE 0
      /\ MIN_FRAME_LEN + Len(data) <= MAX_FRAME_LEN
  BY DEF Encodable
<1>1. Len(data) \in Nat /\ Len(buf) \in Nat /\ n \in Nat /\ n = Len(data) + 9 /\ n <= Len(buf)
  BY <1>a DEF MIN_FRAME_LEN, HDR_LEN, CHK_LEN
<1> HIDE DEF n
<1>2. /\ Len(header) = 8
      /\ header[1] = HDR0 /\ header[2] = HDR1 /\ header[3] = dir /\ header[4] = fc
      /\ header[5] = a \div 256 /\ header[6] = a % 256
      /\ header[7] = b \div 256 /\ header[8] = b % 256
  BY <1>a DEF write_header
<1>3. header \in Seq(Nat) /\ data \in Seq(Nat)
  <2>1. a \div 256 \in Nat /\ a % 256 \in Nat /\ b \div 256 \in Nat /\ b % 256 \in Nat
    BY <1>a, WordBytes
  <2>2. dir \in Nat /\ fc \in Nat /\ HDR0 \in Nat /\ HDR1 \in Nat
    BY <1>a DEF header_dir_ok, header_fc_ok, HDR0, HDR1, DIR_REQUEST, DIR_RESPONSE,
           FC_READ, FC_CMD
  <2>3. data \in Seq(Nat)
    <3>1. \A i \in 1 .. Len(data) : data[i] \in Byte
      BY <1>a, ElementOfSeq
    <3>2. \A x \in Byte : x \in Nat
      BY <1>a DEF Byte
    <3>3. QED
      BY <1>a, <3>1, <3>2
  <2>4. QED
    BY <1>a, <2>1, <2>2, <2>3 DEF write_header
<1> HIDE DEF header
<1>4. /\ body \in Seq(Nat) /\ Len(body) = Len(data) + 8
      /\ \A i \in 1 .. 8 : body[i] = header[i]
      /\ \A i \in 1 .. Len(data) : body[8 + i] = data[i]
  <2>1. /\ header \o data \in Seq(Nat)
        /\ Len(header \o data) = Len(header) + Len(data)
        /\ \A i \in 1 .. Len(header) + Len(data) :
             (header \o data)[i] = IF i <= Len(header) THEN header[i]
                                   ELSE data[i - Len(header)]
    BY <1>a, <1>3, ConcatProperties
  <2>2. \A i \in 1 .. 8 : i \in 1 .. Len(header) + Len(data) /\ i <= Len(header)
    BY <1>a, <1>1, <1>2
  <2>3. \A i \in 1 .. Len(data) :
          /\ 8 + i \in 1 .. Len(header) + Len(data)
          /\ ~ (8 + i <= Len(header)) /\ (8 + i) - Len(header) = i
    BY <1>a, <1>1, <1>2
  <2>4. Len(header) + Len(data) = Len(data) + 8
    BY <1>a, <1>1, <1>2
  <2>5. QED
    BY <1>a, <2>1, <2>2, <2>3, <2>4
<1> HIDE DEF body
<1>5. /\ \A i \in 1 .. Len(data) + 8 : buf[i] = body[i]
      /\ buf[n] = compute_checksum(body, n)
  <2>1. SubSeq(buf, 1, n) = Append(body, compute_checksum(body, Len(body) + 1))
    BY <1>a DEF Seal, body, header, n
  <2>2. \A i \in 1 .. n : SubSeq(buf, 1, n)[i] = buf[i]
    BY <1>a, <1>1
  <2>3. Len(body) + 1 = n
    BY <1>a, <1>1, <1>4
  <2>4. /\ \A i \in 1 .. Len(body) : Append(body, compute_checksum(body, n))[i] = body[i]
        /\ Append(body, compute_checksum(body, n))[Len(body) + 1] = compute_checksum(body, n)
    <3> DEFINE c == compute_checksum(body, n)
    <3> HIDE DEF c
    <3>1. body \in Seq(Nat)
      BY <1>a, <1>4
    <3>2. /\ \A i \in 1 .. Len(body) : Append(body, c)[i] = body[i]
          /\ Append(body, c)[Len(body) + 1] = c
      BY <1>a, <3>1
    <3>3. QED
      BY <1>a, <3>2 DEF c
  <2>5. n \in 1 .. n /\ \A i \in 1 .. Len(data) + 8 : i \in 1 .. n /\ i \in 1 .. Len(body)
    <3>1. n \in 1 .. n /\ \A i \in 1 .. Len(data) + 8 : i \in 1 .. n
      BY <1>a, <1>1
    <3>2. QED
      BY <1>a, <1>4, <3>1
  <2>6. QED
    BY <1>a, <2>1, <2>2, <2>3, <2>4, <2>5
<1>6. /\ buf[1] = HDR0 /\ buf[2] = HDR1 /\ buf[3] = dir /\ buf[4] = fc
      /\ buf[5] = a \div 256 /\ buf[6] = a % 256
      /\ buf[7] = b \div 256 /\ buf[8] = b % 256
  <2>1. \A i \in 1 .. 8 : i \in 1 .. Len(data) + 8
    BY <1>a, <1>1
  <2>2. \A i \in 1 .. 8 : buf[i] = header[i]
    BY <1>a, <1>4, <1>5, <2>1
  <2>3. QED
    BY <1>a, <1>2, <2>2
<1>7. FieldA(buf) = a /\ FieldB(buf) = b
  BY <1>a, <1>6, WordBytes DEF FieldA, FieldB
<1>8. declared_len(buf) = n
  <2>1. b \in Nat
    BY <1>a, WordBytes
  <2>2. declared_len(buf) = IF fc = FC_CMD THEN command_frame_len(dir, b)
                                           ELSE frame_total_len(dir, b)
    BY <1>a, <1>6, <1>7 DEF declared_len
  <2>3. QED
    BY <1>a, <1>1, <2>1, <2>2, MaxFrameAssumption
    DEF command_frame_len, frame_total_len, AtMostMax, carries_payload, header_dir_ok,
        header_fc_ok, HDR_LEN, CHK_LEN, MIN_FRAME_LEN, DIR_REQUEST, DIR_RESPONSE,
        FC_READ, FC_CMD
<1>9. checksum_ok(buf)
  <2>1. SubSeq(buf, 3, n - 1) = SubSeq(body, 3, n - 1)
    <3>1. n - 1 = Len(data) + 8
      BY <1>a, <1>1
    <3>2. \A i \in 3 .. Len(data) + 8 : i \in 1 .. Len(data) + 8
      BY <1>a, <1>1
    <3>3. \A i \in 3 .. Len(data) + 8 : buf[i] = body[i]
      BY <1>a, <1>5, <3>2
    <3>4. /\ body \in Seq(Nat) /\ Len(body) = Len(data) + 8
          /\ buf \in Seq(Byte) /\ Len(data) + 8 <= Len(buf)
      BY <1>a, <1>1, <1>4
    <3>5. SubSeq(buf, 3, Len(data) + 8) = SubSeq(body, 3, Len(data) + 8)
      BY <1>a, <1>1, <3>3, <3>4
    <3>6. QED
      BY <1>a, <3>1, <3>5
  <2>2. compute_checksum(buf, n) = compute_checksum(body, n)
    BY <1>a, <2>1 DEF compute_checksum
  <2>3. QED
    BY <1>a, <1>5, <1>8, <2>2 DEF checksum_ok
<1>10. parse_frame(buf) = "OK"
  BY <1>a, <1>1, <1>6, <1>7, <1>8, <1>9 DEF parse_frame, HDR_LEN
<1>11. plausible_header(buf, 0)
  <2>1. 0 + HDR_LEN <= Len(buf)
    BY <1>1 DEF HDR_LEN
  <2>2. has_magic(buf, 0)
    BY <1>a, <1>6, <2>1 DEF has_magic
  <2>3. U16(buf[0 + 5], buf[0 + 6]) = a /\ U16(buf[0 + 7], buf[0 + 8]) = b
    BY <1>7 DEF FieldA, FieldB
  <2>4. QED
    BY <1>a, <1>6, <2>2, <2>3 DEF plausible_header
<1>12. parsed_frame(buf).payload = data
  <2>1. carries_payload(dir, fc) => SubSeq(buf, HDR_LEN + 1, HDR_LEN + b) = data
    <3> SUFFICES ASSUME carries_payload(dir, fc)
                 PROVE  SubSeq(buf, HDR_LEN + 1, HDR_LEN + b) = data
      BY <1>a
    <3>1. Len(data) = b
      BY <1>a
    <3>2. \A i \in 1 .. Len(data) : buf[8 + i] = data[i]
      <4>1. \A i \in 1 .. Len(data) : 8 + i \in 1 .. Len(data) + 8
        BY <1>a, <1>1
      <4>2. QED
        BY <1>a, <1>4, <1>5, <4>1
    <3>3. Len(SubSeq(buf, 9, 8 + Len(data))) = Len(data)
          /\ \A i \in 1 .. Len(data) : SubSeq(buf, 9, 8 + Len(data))[i] = buf[8 + i]
      BY <1>1
    <3>4. SubSeq(buf, 9, 8 + Len(data)) \in Seq(Byte) /\ data \in Seq(Byte)
      BY <1>a, <1>1
    <3>5. SubSeq(buf, 9, 8 + Len(data)) = data
      <4> DEFINE t == SubSeq(buf, 9, 8 + Len(data))
      <4> HIDE DEF t
      <4>1. /\ t \in Seq(Byte) /\ data \in Seq(Byte) /\ Len(t) = Len(data)
            /\ \A i \in 1 .. Len(data) : t[i] = data[i]
        BY <3>2, <3>3, <3>4 DEF t
      <4>2. t = data
        BY <4>1, SeqEqual
      <4>3. QED
        BY <4>2 DEF t
    <3>6. QED
      BY <3>1, <3>5 DEF HDR_LEN
  <2>2. ~ carries_payload(dir, fc) => data = <<>>
    BY <1>a
  <2>3. QED
    BY <1>a, <1>6, <1>7, <2>1, <2>2 DEF parsed_frame
<1>13. parsed_frame(buf) = [dir |-> dir, fc |-> fc, field_a |-> a, field_b |-> b,
                           frame_len |-> n, payload |-> data]
  BY <1>a, <1>6, <1>7, <1>8, <1>12, Zenon DEF parsed_frame
<1>14. QED
  BY <1>a, <1>10, <1>11, <1>13, Zenon DEF n

\* A command of one byte that fits a frame parses back to its address and its
\* byte.
LEMMA CommandFrame ==
  ASSUME NEW a \in Word, NEW byte \in Byte, encode_command(a, <<byte>>) # <<>>
  PROVE  LET f == encode_command(a, <<byte>>)
         IN  /\ parse_frame(f) = "OK"
             /\ parsed_frame(f).dir = DIR_REQUEST /\ parsed_frame(f).fc = FC_CMD
             /\ parsed_frame(f).field_a = a /\ parsed_frame(f).payload = <<byte>>
<1> DEFINE data == <<byte>>
           f == Seal(write_header(DIR_REQUEST, FC_CMD, a, 1) \o data)
<1>1. data \in Seq(Byte) /\ Len(data) = 1 /\ 1 \in Word
  BY WordRange
<1>2. encode_command(a, data) = f /\ command_frame_len(DIR_REQUEST, 1) # 0
  BY <1>1 DEF encode_command
<1>3. MIN_FRAME_LEN + 1 <= MAX_FRAME_LEN
  BY <1>2, MaxFrameAssumption
  DEF command_frame_len, AtMostMax, MIN_FRAME_LEN, HDR_LEN, CHK_LEN, DIR_REQUEST
<1>4. /\ header_dir_ok(DIR_REQUEST) /\ header_fc_ok(FC_CMD)
      /\ carries_payload(DIR_REQUEST, FC_CMD)
  BY DEF header_dir_ok, header_fc_ok, carries_payload
<1> HIDE DEF data
<1>5. Encodable(DIR_REQUEST, FC_CMD, a, 1, data)
  BY <1>1, <1>3, <1>4 DEF Encodable
<1>6. f \in Seq(Byte) /\ Len(f) = MIN_FRAME_LEN + Len(data)
  <2>1. DIR_REQUEST \in Byte /\ FC_CMD \in Byte
    BY DEF DIR_REQUEST, FC_CMD, Byte
  <2>2. f \in Seq(Byte)
    BY <1>1, <2>1, SealedType
  <2>3. data \in Seq(Byte)
    BY <1>1
  <2>4. Len(f) = MIN_FRAME_LEN + Len(data)
    <3>1. \A h : h \in Seq(Byte) =>
            Len(Seal(write_header(DIR_REQUEST, FC_CMD, a, 1) \o h)) = MIN_FRAME_LEN + Len(h)
      BY SealedLength
    <3> HIDE DEF f
    <3>2. QED
      BY <2>3, <3>1, Zenon DEF f
  <2>5. QED
    BY <2>2, <2>4
<1> DEFINE g == f
<1>7. g \in Seq(Byte) /\ Len(g) = MIN_FRAME_LEN + Len(data) /\ g = f
  BY <1>6
<1> HIDE DEF g
<1>8. SubSeq(g, 1, MIN_FRAME_LEN + Len(data)) = g
  <2>1. SubSeq(g, 1, Len(g)) = g
    BY <1>7
  <2>2. QED
    BY <1>7, <2>1
<1>9. MIN_FRAME_LEN + Len(data) <= Len(g)
  BY <1>1, <1>7 DEF MIN_FRAME_LEN, HDR_LEN, CHK_LEN
<1>10. /\ parse_frame(g) = "OK"
       /\ parsed_frame(g) = [dir |-> DIR_REQUEST, fc |-> FC_CMD, field_a |-> a, field_b |-> 1,
                              frame_len |-> MIN_FRAME_LEN + Len(data),
                              payload |-> data]
  BY <1>5, <1>7, <1>8, <1>9, SealedFrame
<1>11. QED
  BY <1>2, <1>7, <1>10 DEF data
-----------------------------------------------------------------------------
(* Requests *)

\* The fields of a window are numbers.
LEMMA WindowType ==
  ASSUME NEW w \in KNOWN_WINDOWS
  PROVE  /\ w.field_a \in Word /\ w.field_b \in Word
         /\ w.field_a \in Nat /\ w.field_b \in Nat
         /\ w.reg_base \in Nat /\ w.prefix_len \in Nat
<1>1. /\ w.field_a \in Word /\ w.field_b \in Word /\ w.reg_base \in Word
      /\ w.prefix_len \in Byte
  BY WindowsAssumption DEF RegWindow
<1>2. \A x \in Byte : x \in Nat
  BY DEF Byte
<1>3. QED
  BY <1>1, <1>2, WordBytes

\* A window is found by its address and count.
LEMMA FindWindow ==
  ASSUME NEW w \in KNOWN_WINDOWS
  PROVE  /\ is_known_window(w.field_a, w.field_b)
         /\ find_window(w.field_a, w.field_b) = w
<1>1. \A v \in KNOWN_WINDOWS :
        v.field_a = w.field_a /\ v.field_b = w.field_b => v = w
  BY WindowsAssumption
<1>2. QED
  BY <1>1 DEF is_known_window, find_window

\* The wire address of a register lies in the wire range of its window.
LEMMA WireAddress ==
  ASSUME NEW w \in KNOWN_WINDOWS, NEW r \in reg_range(w)
  PROVE  /\ wire_addr(w, r) \in wire_range(w)
         /\ wire_addr(w, r) \in Nat
         /\ r = w.reg_base + (wire_addr(w, r) - w.field_a - w.prefix_len)
<1>1. /\ w.field_a \in Nat /\ w.field_b \in Nat
      /\ w.reg_base \in Nat /\ w.prefix_len \in Nat
  BY WindowType
<1>2. r \in Int /\ r >= w.reg_base /\ r <= w.reg_base + (w.field_b - w.prefix_len) - 1
  BY <1>1 DEF reg_range
<1>3. QED
  BY <1>1, <1>2 DEF wire_addr, wire_range

\* It names that register and no other: no two windows share an address.
LEMMA AddressOfRegister ==
  ASSUME NEW w \in KNOWN_WINDOWS, NEW r \in reg_range(w), r \in Registers
  PROVE  registers_at(wire_addr(w, r)) = {r}
<1> DEFINE a == wire_addr(w, r)
<1>1. /\ a \in wire_range(w)
      /\ r = w.reg_base + (a - w.field_a - w.prefix_len)
  BY WireAddress
<1> HIDE DEF a
<1>2. \A v \in KNOWN_WINDOWS : a \in wire_range(v) => v = w
  <2> TAKE v \in KNOWN_WINDOWS
  <2>1. v # w => wire_range(v) \cap wire_range(w) = {}
    BY RangesAssumption
  <2>2. QED
    BY <1>1, <2>1
<1>3. r \in registers_at(a)
  BY <1>1 DEF registers_at
<1>4. ASSUME NEW q \in registers_at(a) PROVE q = r
  <2>1. PICK v \in KNOWN_WINDOWS :
          a \in wire_range(v) /\ q = v.reg_base + (a - v.field_a - v.prefix_len)
    BY <1>4 DEF registers_at
  <2>2. v = w
    BY <1>2, <2>1
  <2>3. QED
    BY <1>1, <2>1, <2>2
<1>5. QED
  BY <1>3, <1>4 DEF a

\* One byte written to the address of a register is stored in that register
\* and nowhere else (handle_command, macon_image.cpp).
LEMMA WriteOfByte ==
  ASSUME NEW img, NEW a \in Nat, NEW byte, NEW r, registers_at(a) = {r}
  PROVE  apply_write(img, a, <<byte>>) =
           [q \in DOMAIN img \cup {r} |-> IF q = r THEN byte ELSE img[q]]
<1> DEFINE data == <<byte>>
           target(i) == CHOOSE q \in registers_at(a + i - 1) : TRUE
           written == {target(i) : i \in 1 .. Len(data)}
           last(q) == CHOOSE i \in 1 .. Len(data) :
                        /\ target(i) = q
                        /\ \A j \in i + 1 .. Len(data) : target(j) # q
<1>1. Len(data) = 1 /\ data[1] = byte
  OBVIOUS
<1>2. a + 1 - 1 = a
  OBVIOUS
<1>3. target(1) = r
  BY <1>2
<1>4. is_writable(a, data)
  BY <1>1, <1>2 DEF is_writable
<1>5. apply_write(img, a, data) =
        [q \in DOMAIN img \cup written |-> IF q \in written THEN data[last(q)] ELSE img[q]]
  BY <1>4 DEF apply_write
<1> HIDE DEF data
<1>6. \A i : i \in 1 .. Len(data) <=> i = 1
  BY <1>1
<1> HIDE DEF target
<1>7. written = {r}
  BY <1>3, <1>6
<1>8. last(r) = 1
  <2>1. \A j \in 1 + 1 .. Len(data) : target(j) # r
    BY <1>1
  <2>2. \E i \in 1 .. Len(data) :
          target(i) = r /\ \A j \in i + 1 .. Len(data) : target(j) # r
    BY <1>3, <1>6, <2>1
  <2>3. last(r) \in 1 .. Len(data)
    BY <2>2
  <2> HIDE DEF last
  <2>4. QED
    BY <1>6, <2>3
<1> HIDE DEF written, last
<1>9. QED
  BY <1>1, <1>5, <1>7, <1>8, Zenon DEF data

\* The byte of a setpoint is the setpoint, clamped to what a signed byte holds
\* (set_setpoint, macon_link.cpp).
LEMMA SetpointByte ==
  ASSUME NEW c \in Int
  PROVE  /\ setpoint_byte(c) \in Byte
         /\ int8_of(setpoint_byte(c)) = IF c > 127 THEN 127
                                        ELSE IF c < -128 THEN -128 ELSE c
<1>1. CASE c < 0
  <2>1. \A d \in -128 .. -1 : d % 256 = d + 256
    OBVIOUS
  <2>2. QED
    BY <1>1, <2>1 DEF setpoint_byte, int8_of, Byte
<1>2. CASE c >= 0
  <2>1. \A d \in 0 .. 127 : d % 256 = d
    OBVIOUS
  <2>2. QED
    BY <1>2, <2>1 DEF setpoint_byte, int8_of, Byte
<1>3. QED
  BY <1>1, <1>2

\* A byte of a payload read as a signed setpoint.
LEMMA SignedByte ==
  ASSUME NEW byte \in Byte
  PROVE  int8_of(byte) \in -128 .. 127
BY DEF int8_of, Byte

\* The payload of a frame that was taken consists of bytes.
LEMMA PayloadType ==
  ASSUME NEW buf \in Seq(Byte), parse_frame(buf) = "OK"
  PROVE  parsed_frame(buf).payload \in Seq(Byte)
<1> DEFINE b == FieldB(buf)
<1>1. Len(buf) >= HDR_LEN
  BY DEF parse_frame, HDR_LEN
<1>2. b \in Nat /\ declared_len(buf) \in Nat
  BY <1>1, DeclaredLength, MaxFrameAssumption
<1>3. declared_len(buf) # 0 /\ declared_len(buf) <= Len(buf)
  BY <1>1, <1>2 DEF parse_frame
<1>4. CASE carries_payload(buf[3], buf[4])
  <2>1. HDR_LEN + b <= Len(buf)
    BY <1>2, <1>3, <1>4
    DEF carries_payload, declared_len, command_frame_len, frame_total_len, AtMostMax,
        HDR_LEN, CHK_LEN, DIR_REQUEST, DIR_RESPONSE, FC_READ, FC_CMD
  <2> HIDE DEF b
  <2>2. SubSeq(buf, HDR_LEN + 1, HDR_LEN + b) \in Seq(Byte)
    BY <1>2, <2>1 DEF HDR_LEN
  <2>3. QED
    BY <1>4, <2>2 DEF parsed_frame, b
<1>5. CASE ~ carries_payload(buf[3], buf[4])
  BY <1>5 DEF parsed_frame
<1>6. QED
  BY <1>4, <1>5
=============================================================================
