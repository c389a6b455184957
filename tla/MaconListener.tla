---------------------------- MODULE MaconListener ----------------------------
(***************************************************************************)
(* The passive decoder of src/src/macon_listener.cpp.  The consumer reads  *)
(* chunks of the bus and hands each to feed_bytes, which appends it to a   *)
(* bounded accumulator and drains complete frames from its front into the  *)
(* register image and the observed catalog.  One action is one step of     *)
(* those two loops; calls do not overlap (the consumer serialises them).   *)
(* Time stamps are left out.                                               *)
(***************************************************************************)
EXTENDS RegisterImage, ObservedCatalog

CONSTANTS kAccSize,     \* bytes of the accumulator, 512 in the code
          Streams,      \* the byte streams the bus may carry
          ChunkSizes,   \* bytes the consumer may pass to one feed_bytes call
          MaxResets     \* bound on the number of reset_buffer calls

ASSUME ListenerAssumption ==
  /\ kAccSize \in Nat /\ kAccSize >= MAX_FRAME_LEN
  /\ Streams \subseteq Seq(Byte)
  /\ ChunkSizes \subseteq Nat \ {0}
  /\ MaxResets \in Nat

VARIABLES
  stream,       \* all the bytes the bus will carry
  off,          \* how many of them were copied into the accumulator
  lim,          \* off + what the current call still has to copy
  acc,          \* the accumulator: acc_[0 .. acc_len_ - 1]
  consumed,     \* local of drain
  pc,           \* where feed_bytes is
  making_room,  \* this drain was entered because the accumulator was full
  stats,        \* stats_
  result,       \* the MaconFeedResult of the call
  image,        \* image_
  catalog,      \* catalog_
  \* history: not in the code, read by the properties only
  base,         \* bytes that left the accumulator
  accepted,     \* stream offsets of the frames taken
  dropped,      \* stream offsets given up by a reset
  resets,       \* reset_buffer calls so far
  callStart,    \* where the current call began to decode
  clearedAt     \* where decoding was when the catalog was last cleared

history == <<base, accepted, dropped, resets, callStart, clearedAt>>
vars == <<stream, off, lim, acc, consumed, pc, making_room, stats, result,
          image, catalog, history>>

NoResult == [any_response |-> FALSE, coverage |-> NoCoverage]

ZeroStats == [bytes_rx |-> 0, frames_ok |-> 0, req_frames |-> 0,
              resp_frames |-> 0, checksum_err |-> 0, resync |-> 0]

Init == /\ stream \in Streams
        /\ off = 0 /\ lim = 0
        /\ acc = <<>> /\ consumed = 0
        /\ pc = "idle" /\ making_room = FALSE
        /\ stats = ZeroStats /\ result = NoResult
        /\ image = EmptyImage /\ catalog = EmptyCatalog
        /\ base = 0 /\ accepted = {} /\ dropped = {} /\ resets = 0
        /\ callStart = 0 /\ clearedAt = 0
-----------------------------------------------------------------------------
(* The consumer's calls *)

\* feed_bytes with the next n bytes of the bus; a call without bytes returns
\* at once and changes nothing.
FeedBytes ==
  /\ pc = "idle"
  /\ \E n \in ChunkSizes : off + n <= Len(stream) /\ lim' = off + n
  /\ pc' = "append"
  /\ result' = NoResult
  /\ callStart' = base
  /\ UNCHANGED <<stream, off, acc, consumed, making_room, stats, image, catalog,
                 base, accepted, dropped, resets, clearedAt>>

\* reset_buffer between two calls.
ResetBuffer ==
  /\ pc = "idle"
  /\ resets < MaxResets
  /\ acc' = <<>>
  /\ base' = base + Len(acc)
  /\ dropped' = dropped \cup (base .. base + Len(acc) - 1)
  /\ resets' = resets + 1
  /\ UNCHANGED <<stream, off, lim, consumed, pc, making_room, stats, result,
                 image, catalog, accepted, callStart, clearedAt>>

\* MaconObservedCatalog::clear between two calls.
ClearCatalog ==
  /\ pc = "idle"
  /\ catalog # EmptyCatalog
  /\ catalog' = EmptyCatalog
  /\ clearedAt' = base
  /\ UNCHANGED <<stream, off, lim, acc, consumed, pc, making_room, stats, result,
                 image, base, accepted, dropped, resets, callStart>>
-----------------------------------------------------------------------------
(* The loop of feed_bytes *)

WholeBuffer == kAccSize   \* faulty variant: forgets what is in there
Space       == kAccSize - Len(acc)

AllCopied  == off <= lim   \* faulty variant: goes round once too often
MoreToCopy == off < lim

\* What memmove leaves of the accumulator when its first n bytes go.
RemainderShort(n) == SubSeq(acc, n + 1, Len(acc) - 1)   \* faulty variant
Remainder(n)      == SubSeq(acc, n + 1, Len(acc))

TakeBytes ==
  /\ pc = "append"
  /\ pc' = "drain"
  /\ making_room' = (Space = 0)
  /\ LET take == IF lim - off > Space THEN Space ELSE lim - off
     IN  /\ acc' = acc \o SubSeq(stream, off + 1, off + take)
         /\ off' = off + take
         /\ stats' = [stats EXCEPT !.bytes_rx = @ + take]
  /\ UNCHANGED <<stream, lim, consumed, result, image, catalog, history>>

\* After drain: shift the remainder to the front, or, when not even a full
\* accumulator could be drained, throw it away.
Compact ==
  /\ pc = "compact"
  /\ LET valve == consumed = 0 /\ making_room
     IN  /\ acc' = IF valve THEN <<>> ELSE Remainder(consumed)
         /\ stats' = IF valve THEN [stats EXCEPT !.resync = @ + 1] ELSE stats
         /\ base' = base + IF valve THEN Len(acc) ELSE consumed
         /\ dropped' = dropped \cup IF valve THEN base .. base + Len(acc) - 1 ELSE {}
  /\ consumed' = 0
  /\ making_room' = FALSE
  /\ pc' = IF MoreToCopy THEN "append" ELSE "idle"
  /\ UNCHANGED <<stream, off, lim, result, image, catalog,
                 accepted, resets, callStart, clearedAt>>
-----------------------------------------------------------------------------
(* The loop of drain *)

Rest == SubSeq(acc, consumed + 1, Len(acc))

InDrain == pc = "drain" /\ Len(Rest) >= HDR_LEN

Start == find_frame_start(Rest)

DrainDone ==
  /\ pc = "drain"
  /\ Len(Rest) < HDR_LEN
  /\ pc' = "compact"
  /\ UNCHANGED <<stream, off, lim, acc, consumed, making_room, stats, result,
                 image, catalog, history>>

OneByte == 1             \* faulty variant: room for a torn 0x55 only
TailLen == HDR_LEN - 1

\* No frame start: give up all but a possible partial header at the tail.
DropJunk ==
  /\ InDrain
  /\ Start = Len(Rest)
  /\ consumed' = Len(acc) - TailLen
  /\ pc' = "compact"
  /\ UNCHANGED <<stream, off, lim, acc, making_room, stats, result,
                 image, catalog, history>>

Resync ==
  /\ InDrain
  /\ Start \in 1 .. Len(Rest) - 1
  /\ consumed' = consumed + Start
  /\ stats' = [stats EXCEPT !.resync = @ + 1]
  /\ UNCHANGED <<stream, off, lim, acc, pc, making_room, result,
                 image, catalog, history>>

count_by_name(st, isRequest) ==   \* faulty variant: requests count as responses
  [st EXCEPT !.frames_ok = @ + 1, !.resp_frames = @ + 1]

count_frame(st, isRequest) ==
  [st EXCEPT !.frames_ok   = @ + 1,
             !.req_frames  = @ + IF isRequest THEN 1 ELSE 0,
             !.resp_frames = @ + IF isRequest THEN 0 ELSE 1]

AcceptFrame ==
  /\ InDrain
  /\ Start = 0
  /\ LET verdict == parse_frame(Rest)
         f == parsed_frame(Rest)
         known == verdict = "OK"
     IN  /\ verdict \in {"OK", "UNKNOWN_WINDOW"}
         /\ stats' = count_frame(stats, known /\ f.dir = DIR_REQUEST)
         /\ IF is_ingested(f)
            THEN LET data == window_data(f)
                     at   == window_of(f).reg_base
                 IN  /\ image' = ingest_bytes(image, at, data)
                     /\ result' = [any_response |-> TRUE,
                                   coverage |-> join_coverage(result.coverage,
                                                  coverage_of(at, Len(data)))]
            ELSE UNCHANGED <<image, result>>
         /\ catalog' = IF f.dir = DIR_RESPONSE
                       THEN record(catalog, <<f.field_a, f.field_b>>, known, f.payload)
                       ELSE catalog
         /\ consumed' = consumed + f.frame_len
  /\ accepted' = accepted \cup {base + consumed}
  /\ UNCHANGED <<stream, off, lim, acc, pc, making_room,
                 base, dropped, resets, callStart, clearedAt>>

\* The frame at the front is not complete yet.
AwaitMore ==
  /\ InDrain
  /\ Start = 0
  /\ parse_frame(Rest) = "TRUNCATED"
  /\ pc' = "compact"
  /\ UNCHANGED <<stream, off, lim, acc, consumed, making_room, stats, result,
                 image, catalog, history>>

WholeHeader == HDR_LEN   \* faulty variant
MagicLen    == 2

\* The header looked valid, the frame is not: skip its magic.
RejectFrame ==
  /\ InDrain
  /\ Start = 0
  /\ parse_frame(Rest) \in {"BAD_MAGIC", "BAD_DIR", "BAD_FC", "BAD_CHECKSUM"}
  /\ consumed' = consumed + MagicLen
  /\ stats' = IF parse_frame(Rest) = "BAD_CHECKSUM"
              THEN [stats EXCEPT !.checksum_err = @ + 1] ELSE stats
  /\ UNCHANGED <<stream, off, lim, acc, pc, making_room, result,
                 image, catalog, history>>
-----------------------------------------------------------------------------
\* One step of a call that is under way.
Step == \/ TakeBytes \/ Compact
        \/ DrainDone \/ DropJunk \/ Resync
        \/ AcceptFrame \/ AwaitMore \/ RejectFrame

Next == FeedBytes \/ ResetBuffer \/ ClearCatalog \/ Step

Spec == Init /\ [][Next]_vars

\* A call, once made, runs: nothing in feed_bytes blocks.
FairSpec == Spec /\ WF_vars(Step)
-----------------------------------------------------------------------------
(* Properties *)

TypeOK ==
  /\ stream \in Streams
  /\ off \in 0 .. Len(stream) /\ lim \in off .. Len(stream)
  /\ acc \in Seq(Byte) /\ Len(acc) <= kAccSize /\ consumed \in 0 .. Len(acc)
  /\ pc \in {"idle", "append", "drain", "compact"}
  /\ making_room \in BOOLEAN
  /\ stats \in [DOMAIN ZeroStats -> Nat]
  /\ base \in Nat /\ callStart \in Nat /\ clearedAt \in Nat /\ resets \in 0 .. MaxResets
  /\ accepted \subseteq Nat /\ dropped \subseteq Nat

\* The accumulator is exactly the part of the stream that was copied and has
\* not left it: appending and compacting lose, double and reorder nothing.
AccIsStreamSlice == acc = SubSeq(stream, base + 1, off)

\* feed_bytes never finds its accumulator full, so its safety valve never
\* throws data away (macon_listener.cpp:143-154): a drain leaves less than one
\* frame behind.
AccumulatorHasRoom ==
  /\ pc = "append" => Space > 0
  /\ pc = "idle" => Len(acc) < MAX_FRAME_LEN
  /\ ~ making_room

\* However the bytes were cut into calls, the frames taken are those of the
\* left-to-right reading of the stream.
FS == INSTANCE FrameStream WITH avail <- off, pos <- base + consumed
ReadsTheStream == FS!Spec

\* When a call returns, no intact frame that has fully arrived is still
\* waiting or was lost: all are decoded, but for those whose first byte an
\* earlier header claims and those a reset gave up.
NothingLeftBehind ==
  pc = "idle" =>
    \A i \in 0 .. off - 1 :
      /\ FS!Intact(i)
      /\ i + declared_len(FS!FrameAt(i)) <= off
      /\ ~ FS!Covered(i)
      /\ i \notin dropped
      => i \in accepted

Taken(i)     == parsed_frame(FS!FrameAt(i))
Responses(S) == {i \in S : Taken(i).dir = DIR_RESPONSE}
Key(f)       == <<f.field_a, f.field_b>>

\* Every register present in the image holds the byte of the latest decoded
\* response that carries it, and every register some response carried is
\* present: no request, acknowledgement or rejected frame leaks in.
Carries(i, r) ==
  /\ is_ingested(Taken(i))
  /\ LET at == window_of(Taken(i)).reg_base
     IN  r \in at .. at + Len(window_data(Taken(i))) - 1

ImageIsLatest ==
  \A r \in Registers :
    LET by == {i \in accepted : Carries(i, r)}
    IN  /\ r \in DOMAIN image <=> by # {}
        /\ r \in DOMAIN image =>
             \E i \in by :
               /\ \A j \in by : j <= i
               /\ image[r] = window_data(Taken(i))[r - window_of(Taken(i)).reg_base + 1]

\* The catalog counts every decoded response since it was cleared, under its
\* own key; a key is missing only when the catalog was full.
CatalogCounts ==
  LET since == Responses({i \in accepted : i >= clearedAt})
      of(k) == {i \in since : Key(Taken(i)) = k}
  IN  /\ \A k \in DOMAIN catalog :
           catalog[k].hits = Cardinality(of(k)) /\ of(k) # {}
      /\ \A i \in since : Key(Taken(i)) \in DOMAIN catalog
                            \/ Cardinality(DOMAIN catalog) = kMax
      /\ Cardinality(DOMAIN catalog) <= kMax

\* The counters tell what happened to the stream: each decoded frame counts
\* once, as a request or as a response, and every byte copied counts once.
StatsTellTheStream ==
  /\ stats.bytes_rx = off
  /\ stats.frames_ok = Cardinality(accepted)
  /\ stats.resp_frames = Cardinality(Responses(accepted))
  /\ stats.req_frames = stats.frames_ok - stats.resp_frames

\* The result of a call reports exactly the windows ingested during it.
ResultTellsTheCall ==
  LET fresh == {i \in accepted : i >= callStart /\ is_ingested(Taken(i))}
      touched(r) == \E i \in fresh : Carries(i, r)
  IN  pc = "idle" =>
        result = [any_response |-> fresh # {},
                  coverage |-> [status_updated    |-> touched(REG_OPERATING_MODE),
                                telemetry_updated |-> touched(REG_COMPRESSOR_FREQ)]]

\* Every call of feed_bytes returns: each turn of its loops makes progress.
CallsReturn == pc # "idle" ~> pc = "idle"

\* tests/test_macon_listener.cpp:5 says the catalog records both known and
\* unknown windows: a complete, checksum-valid response of an unmapped window
\* that no earlier header claims is in the catalog once it was fed.
UnknownResponse(i) ==
  /\ i + HDR_LEN <= Len(stream)
  /\ parse_frame(FS!FrameAt(i)) = "UNKNOWN_WINDOW"
  /\ Taken(i).dir = DIR_RESPONSE

UnknownWindowsCatalogued ==
  pc = "idle" /\ off = Len(stream) /\ resets = 0 /\ clearedAt = 0
    => \A i \in 0 .. Len(stream) - 1 :
         /\ UnknownResponse(i)
         /\ ~ FS!Covered(i)
         /\ Cardinality(DOMAIN catalog) < kMax
         => Key(Taken(i)) \in DOMAIN catalog
=============================================================================
