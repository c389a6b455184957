----------------------------- MODULE MaconMaster -----------------------------
(***************************************************************************)
(* The active bus master of src/src/macon_master.cpp: window polls, the    *)
(* preflight check for another master, the poll counters, and the sink     *)
(* MaconImageSink that takes the decoded windows into the register image.  *)
(* A call reads until a deadline on a wrapping millisecond counter.  The   *)
(* writes, which go through MaconLink, are left to module MaconLink.       *)
(***************************************************************************)
EXTENDS MaconRequests, ObservedCatalog

CONSTANTS ACC_CAP,         \* bytes of the accumulator, 192 in the code
          Streams,         \* the byte streams that may reach the transport
          ReadSizes,       \* bytes a transport read may return
          PolledWindows,   \* windows a caller may poll
          ClockSize,       \* values of the clock, 2^32 in the code
          StartTimes,      \* clock values at the start
          PollDeadline,    \* poll_txn_deadline_ms
          ResponseTimeout, \* response_timeout_ms, the longest read of a poll
          PreflightWindow, \* window_ms of preflight_bus_idle
          PreflightRead,   \* the longest read of a preflight, 100 ms
          MaxLate,         \* bound on the preemption of a call, in ms
          MaxCalls         \* bound on the number of calls

ASSUME MasterAssumption ==
  /\ ACC_CAP \in Nat /\ ACC_CAP >= HDR_LEN
  /\ Streams \subseteq Seq(Byte)
  /\ ReadSizes \subseteq Nat \ {0}
  /\ PolledWindows \subseteq RegWindow
  /\ {PollDeadline, ResponseTimeout, PreflightWindow, PreflightRead} \subseteq Nat \ {0}
  /\ MaxLate \in Nat /\ MaxCalls \in Nat
  /\ ClockSize \in Nat /\ StartTimes \subseteq 0 .. ClockSize - 1
  \* the longest call is less than half the range of the clock
  /\ 2 * (PollDeadline + MaxLate + 1) <= ClockSize
  /\ 2 * (PreflightWindow + PreflightRead + MaxLate + 1) <= ClockSize

VARIABLES
  stream,     \* all the bytes that will reach the transport
  off,        \* how many of them were read or flushed
  acc,        \* the accumulator of the call: acc[0 .. len - 1]
  now,        \* clock_.now_ms()
  deadline,   \* local of the call
  pc,         \* "idle", or where the call is
  task,       \* the call: the window polled, or the preflight
  stats,      \* poll_stats_
  outcome,    \* PollOutcome of the last poll, or what the preflight returned
  image, catalog, coverage, any,   \* the sink
  \* history: not in the code, read by the properties only
  begin,      \* where in the stream the call began to listen
  drained,    \* how many bytes of the stream the last drain had before it
  lost,       \* offsets the overflow guard threw away
  elapsed,    \* real time since the deadline was set
  late,       \* how much of it the call was preempted
  outcomes,   \* what the polls so far came to
  before,     \* image and catalog when the call began
  fed,        \* the windows that reached the sink since take_coverage
  calls       \* calls so far

sink    == <<image, catalog, coverage, any>>
history == <<begin, drained, lost, elapsed, late, outcomes, before, fed, calls>>
vars == <<stream, off, acc, now, deadline, pc, task, stats, outcome, sink, history>>

ZeroStats == [ok |-> 0, no_response |-> 0, transport_error |-> 0,
              checksum_errors |-> 0, consecutive_failures |-> 0]

NoTask    == [op |-> "none"]
Preflight == [op |-> "preflight"]
Poll(win) == [op |-> "poll", win |-> win]

Init == /\ stream \in Streams
        /\ off = 0 /\ acc = <<>>
        /\ now \in StartTimes /\ deadline = now
        /\ pc = "idle" /\ task = NoTask
        /\ stats = ZeroStats /\ outcome = "none"
        /\ image = EmptyImage /\ catalog = EmptyCatalog
        /\ coverage = NoCoverage /\ any = FALSE
        /\ begin = 0 /\ drained = 0 /\ lost = {} /\ elapsed = 0 /\ late = 0
        /\ outcomes = <<>> /\ before = [image |-> EmptyImage, catalog |-> EmptyCatalog]
        /\ fed = {} /\ calls = 0
-----------------------------------------------------------------------------
(* The clock *)

unsigned(x) == x % ClockSize     \* faulty variant: without the cast to int32_t
signed(x) ==
  LET m == x % ClockSize IN IF m < ClockSize \div 2 THEN m ELSE m - ClockSize

Remaining == signed(deadline - now)

Pass(ms) == now' = (now + ms) % ClockSize /\ elapsed' = elapsed + ms
-----------------------------------------------------------------------------
(* The outcome of a poll *)

failures_kept(st) == st.consecutive_failures   \* faulty variant: no reset
failures_after_ok(st) == 0

count_poll(st, o) ==
  IF o = "Ok"
  THEN [st EXCEPT !.ok = @ + 1, !.consecutive_failures = failures_after_ok(st)]
  ELSE [st EXCEPT !.no_response     = @ + IF o = "NoResponse" THEN 1 ELSE 0,
                  !.transport_error = @ + IF o = "TransportError" THEN 1 ELSE 0,
                  !.consecutive_failures = @ + 1]

Polled(o) ==
  /\ stats' = count_poll(stats, o)
  /\ outcome' = o
  /\ outcomes' = Append(outcomes, o)

\* The call under way ends; its accumulator is gone.
End == pc' = "idle" /\ acc' = <<>>
-----------------------------------------------------------------------------
(* The calls *)

Ready == pc = "idle" /\ calls < MaxCalls

\* flush_rx drops what has reached the transport by now.
Flushed == {off} \cup {n \in {off + k : k \in ReadSizes} : n <= Len(stream)}

Listen(t, from, ms) ==
  /\ task' = t
  /\ deadline' = (now + ms) % ClockSize
  /\ pc' = "loop"
  /\ begin' = from /\ drained' = from /\ lost' = {} /\ elapsed' = 0 /\ late' = 0
  /\ before' = [image |-> image, catalog |-> catalog]
  /\ calls' = calls + 1
  /\ UNCHANGED <<stream, acc, now, sink, fed>>

PollWindow ==
  /\ Ready
  /\ \E win \in PolledWindows :
       /\ encode_request(FC_READ, win.field_a, win.field_b) # <<>>
       /\ off' \in Flushed
       /\ Listen(Poll(win), off', PollDeadline)
  /\ UNCHANGED <<stats, outcome, outcomes>>

\* The window has no request, or the transport takes less than all of it.
PollNotSent ==
  /\ Ready
  /\ \E win \in PolledWindows :
       /\ IF encode_request(FC_READ, win.field_a, win.field_b) = <<>>
          THEN off' = off ELSE off' \in Flushed
       /\ task' = Poll(win)
  /\ Polled("TransportError")
  /\ begin' = off' /\ drained' = off' /\ lost' = {} /\ elapsed' = 0 /\ late' = 0
  /\ before' = [image |-> image, catalog |-> catalog]
  /\ calls' = calls + 1
  /\ UNCHANGED <<stream, acc, now, deadline, pc, sink, fed>>

PreflightBusIdle ==
  /\ Ready
  /\ Listen(Preflight, off, PreflightWindow)
  /\ outcome' = "none"
  /\ UNCHANGED <<off, stats, outcomes>>

\* The consumer asks the sink what was covered.
TakeCoverage ==
  /\ pc = "idle"
  /\ any
  /\ coverage' = NoCoverage /\ any' = FALSE
  /\ fed' = {}
  /\ UNCHANGED <<stream, off, acc, now, deadline, pc, task, stats, outcome, image,
                 catalog, begin, drained, lost, elapsed, late, outcomes, before, calls>>
-----------------------------------------------------------------------------
(* The loop *)

Polling == task.op = "poll"

\* The deadline is looked at before each turn, and by a poll before each read.
KeepOn ==
  /\ pc = "loop"
  /\ Remaining > 0
  /\ pc' = IF Polling THEN "drain" ELSE "read"
  /\ UNCHANGED <<stream, off, acc, now, deadline, task, stats, outcome, sink, history>>

GiveUp ==
  /\ \/ pc = "loop"
     \/ pc = "read" /\ Polling
  /\ Remaining <= 0
  /\ IF Polling
     THEN Polled("NoResponse")
     ELSE outcome' = "Idle" /\ UNCHANGED <<stats, outcomes>>
  /\ End
  /\ UNCHANGED <<stream, off, now, deadline, task, sink,
                 begin, drained, lost, elapsed, late, before, fed, calls>>

\* Other threads have the processor.
Preempted ==
  /\ pc # "idle"
  /\ late < MaxLate
  /\ Pass(1)
  /\ late' = late + 1
  /\ UNCHANGED <<stream, off, acc, deadline, pc, task, stats, outcome, sink,
                 begin, drained, lost, outcomes, before, fed, calls>>

CanRead == pc = "read" /\ (Polling => Remaining > 0)

ReadTimeout ==
  IF ~ Polling THEN PreflightRead
  ELSE IF Remaining < ResponseTimeout THEN Remaining ELSE ResponseTimeout

WholeBuffer == ACC_CAP   \* faulty variant: forgets what is in there
Space       == ACC_CAP - Len(acc)

Receive ==
  /\ CanRead
  /\ \E n \in ReadSizes :
       /\ n <= Space
       /\ off + n <= Len(stream)
       /\ acc' = acc \o SubSeq(stream, off + 1, off + n)
       /\ off' = off + n
  /\ \E ms \in 0 .. ReadTimeout : Pass(ms)
  /\ pc' = IF Polling THEN "loop" ELSE "drain"
  /\ UNCHANGED <<stream, deadline, task, stats, outcome, sink,
                 begin, drained, lost, late, outcomes, before, fed, calls>>

ReadTimesOut ==
  /\ CanRead
  /\ Pass(ReadTimeout)
  /\ pc' = "loop"
  /\ UNCHANGED <<stream, off, acc, deadline, task, stats, outcome, sink,
                 begin, drained, lost, late, outcomes, before, fed, calls>>

\* A poll gives up; a preflight listens on (its turns within one millisecond
\* are one step).
ReadFails ==
  /\ CanRead
  /\ IF Polling
     THEN Polled("TransportError") /\ End /\ UNCHANGED <<now, elapsed>>
     ELSE /\ pc' = "loop"
          /\ \E ms \in 1 .. ReadTimeout : Pass(ms)
          /\ UNCHANGED <<acc, stats, outcome, outcomes>>
  /\ UNCHANGED <<stream, off, deadline, task, sink,
                 begin, drained, lost, late, before, fed, calls>>
-----------------------------------------------------------------------------
(* The drain *)

InDrain == pc = "drain" /\ Len(acc) >= HDR_LEN

Start == find_frame_start(acc)

Discard(n) == acc' = SubSeq(acc, n + 1, Len(acc))

\* The drain is over: throw a full accumulator away, and go on.
LeaveDrain ==
  /\ pc' = IF Polling THEN "read" ELSE "loop"
  /\ drained' = off

OneByte == 1             \* faulty variant: room for a torn 0x55 only
TailLen == HDR_LEN - 1

DropJunk ==
  /\ InDrain
  /\ Start = Len(acc)
  /\ Discard(Len(acc) - TailLen)
  /\ LeaveDrain
  /\ UNCHANGED <<stream, off, now, deadline, task, stats, outcome, sink,
                 begin, lost, elapsed, late, outcomes, before, fed, calls>>

Resync ==
  /\ InDrain
  /\ Start \in 1 .. Len(acc) - 1
  /\ Discard(Start)
  /\ UNCHANGED <<stream, off, now, deadline, pc, task, stats, outcome, sink, history>>

AtFrame == InDrain /\ Start = 0

\* Too few bytes for a header, or for the frame at the head.
AwaitMore ==
  /\ \/ pc = "drain" /\ Len(acc) < HDR_LEN
     \/ AtFrame /\ parse_frame(acc) = "TRUNCATED"
  /\ LET overflow == Len(acc) >= ACC_CAP
     IN  /\ acc' = IF overflow THEN <<>> ELSE acc
         /\ lost' = lost \cup IF overflow THEN off - Len(acc) .. off - 1 ELSE {}
  /\ LeaveDrain
  /\ UNCHANGED <<stream, off, now, deadline, task, stats, outcome, sink,
                 begin, elapsed, late, outcomes, before, fed, calls>>

\* The response of the polled window goes to the sink.
TakeResponse ==
  /\ AtFrame
  /\ Polling
  /\ parse_frame(acc) = "OK"
  /\ LET f == parsed_frame(acc)
     IN  /\ is_match(f, task.win)
         /\ IF is_ingested(f)
            THEN LET data == window_data(f)
                     at   == window_of(f).reg_base
                 IN  /\ image' = ingest_bytes(image, at, data)
                     /\ coverage' = join_coverage(coverage, coverage_of(at, Len(data)))
                     /\ any' = TRUE
                     /\ fed' = fed \cup {window_of(f)}
            ELSE UNCHANGED <<image, coverage, any, fed>>
         /\ catalog' = record(catalog, <<f.field_a, f.field_b>>, TRUE, f.payload)
  /\ Polled("Ok")
  /\ End
  /\ UNCHANGED <<stream, off, now, deadline, task,
                 begin, drained, lost, elapsed, late, before, calls>>

\* Another master is on the bus.
RefuseBus ==
  /\ AtFrame
  /\ ~ Polling
  /\ parse_frame(acc) = "OK"
  /\ outcome' = "Busy"
  /\ End
  /\ UNCHANGED <<stream, off, now, deadline, task, stats, sink, history>>

payload_only(f) == Len(f.payload)   \* faulty variant: forgets the header
frame_only(f)   == f.frame_len

\* An intact frame that is not the response, for instance our own echo.
SkipFrame ==
  /\ AtFrame
  /\ Polling
  /\ parse_frame(acc) = "OK"
  /\ LET f == parsed_frame(acc)
     IN  ~ is_match(f, task.win) /\ Discard(frame_only(f))
  /\ UNCHANGED <<stream, off, now, deadline, pc, task, stats, outcome, sink, history>>

DropByte ==
  /\ AtFrame
  /\ parse_frame(acc) \notin {"OK", "TRUNCATED"}
  /\ Discard(1)
  /\ stats' = IF Polling /\ parse_frame(acc) = "BAD_CHECKSUM"
              THEN [stats EXCEPT !.checksum_errors = @ + 1] ELSE stats
  /\ UNCHANGED <<stream, off, now, deadline, pc, task, outcome, sink, history>>
-----------------------------------------------------------------------------
Call == PollWindow \/ PollNotSent \/ PreflightBusIdle \/ TakeCoverage

Step == \/ KeepOn \/ GiveUp
        \/ Receive \/ ReadTimesOut \/ ReadFails
        \/ DropJunk \/ Resync \/ AwaitMore
        \/ TakeResponse \/ RefuseBus \/ SkipFrame \/ DropByte

Next == Call \/ Step \/ Preempted

Spec == Init /\ [][Next]_vars

\* A call, once made, runs: a transport read blocks for its time-out at most.
FairSpec == Spec /\ WF_vars(Step)
-----------------------------------------------------------------------------
(* Properties *)

Outcomes == {"Ok", "NoResponse", "TransportError"}

TypeOK ==
  /\ stream \in Streams /\ off \in 0 .. Len(stream)
  /\ acc \in Seq(Byte) /\ Len(acc) <= ACC_CAP /\ begin + Len(acc) <= off
  /\ now \in 0 .. ClockSize - 1 /\ deadline \in 0 .. ClockSize - 1
  /\ pc \in {"idle", "loop", "read", "drain"}
  /\ stats \in [DOMAIN ZeroStats -> Nat]
  /\ outcome \in Outcomes \cup {"none", "Idle", "Busy"}
  /\ coverage \in [DOMAIN NoCoverage -> BOOLEAN] /\ any \in BOOLEAN
  /\ begin \in 0 .. off /\ drained \in begin .. off /\ lost \subseteq begin .. off - 1
  /\ elapsed \in Nat /\ late \in 0 .. MaxLate /\ calls \in 0 .. MaxCalls
  /\ outcomes \in Seq(Outcomes) /\ Len(outcomes) <= calls

FS == INSTANCE FrameStream
        WITH avail <- off, pos <- off - Len(acc), accepted <- {}, dropped <- lost

FrameOf(i) == parsed_frame(FS!FrameAt(i))

\* An intact frame starts at offset i, within the first n bytes of the stream.
IntactWithin(i, n) == FS!Intact(i) /\ i + declared_len(FS!FrameAt(i)) <= n

\* An earlier header of this call claims the byte at offset i for its own
\* frame, which is intact or not complete within the first n bytes.
ClaimedAt(i, n) ==
  \E j \in begin .. i - 1 :
    /\ plausible_header(stream, j)
    /\ i < j + declared_len(FS!FrameAt(j))
    /\ parse_frame(SubSeq(stream, j + 1, n)) \in {"OK", "TRUNCATED"}

PollEnded      == pc = "idle" /\ task.op = "poll"
PreflightEnded == pc = "idle" /\ task.op = "preflight"

\* A poll that returns true has fed the sink one response: an intact frame of
\* the window asked for, received after the request.  Any other call leaves
\* image and catalog as they were, whatever it heard.
OkFedTheResponse ==
  pc = "idle" =>
    IF task.op = "poll" /\ outcome = "Ok"
    THEN \E i \in begin .. off - 1 :
           LET f == FrameOf(i)
           IN  /\ IntactWithin(i, off) /\ is_match(f, task.win)
               /\ image = ingest_bytes(before.image, window_of(f).reg_base, window_data(f))
               /\ catalog = record(before.catalog, <<task.win.field_a, task.win.field_b>>,
                                   TRUE, f.payload)
    ELSE image = before.image /\ catalog = before.catalog

\* A poll that reports no response had none in what it drained, but for one
\* in bytes another header claims and one the overflow guard threw away.
NoResponseIsTrue ==
  PollEnded /\ outcome = "NoResponse" =>
    \A i \in begin .. drained - 1 :
      IntactWithin(i, drained) /\ is_match(FrameOf(i), task.win)
        => ClaimedAt(i, drained) \/ i \in lost

\* The preflight refuses the bus for an intact frame only, and allows it only
\* when every frame it read whole stood in claimed or overflowed bytes.
PreflightIsTrue ==
  PreflightEnded =>
    /\ outcome = "Busy" => \E i \in begin .. off - 1 : IntactWithin(i, off)
    /\ outcome = "Idle" => \A i \in begin .. off - 1 :
                             IntactWithin(i, off) /\ ~ ClaimedAt(i, off) => i \in lost

\* The counters tell the history of the polls: each poll is in one bucket,
\* the failures since the last success are counted, and a damaged frame
\* counts once at most.
Count(o) == Cardinality({k \in DOMAIN outcomes : outcomes[k] = o})

Damaged == {i \in 0 .. off - 1 :
              /\ plausible_header(stream, i)
              /\ parse_frame(SubSeq(stream, i + 1, off)) = "BAD_CHECKSUM"}

StatsTellThePolls ==
  /\ stats.ok = Count("Ok") /\ stats.no_response = Count("NoResponse")
  /\ stats.transport_error = Count("TransportError")
  /\ stats.consecutive_failures =
       Cardinality({k \in DOMAIN outcomes : \A j \in k .. Len(outcomes) : outcomes[j] # "Ok"})
  /\ stats.checksum_errors <= Cardinality(Damaged)

\* The deadline holds in real time, also when the clock wraps: a call neither
\* gives up early nor goes on longer than preemption and its last read allow.
DeadlineIsKept ==
  /\ pc # "idle" \/ outcome \in {"NoResponse", "Idle"} =>
       elapsed <= late + IF task.op = "poll" THEN PollDeadline
                                             ELSE PreflightWindow + PreflightRead - 1
  /\ PollEnded /\ outcome = "NoResponse" => elapsed >= PollDeadline
  /\ PreflightEnded /\ outcome = "Idle" => elapsed >= PreflightWindow

\* What the sink reports is exactly the windows fed since it was last asked:
\* polls in between add up, and none is reported twice.
CoverageTellsTheWindows ==
  LET covers(r) == \E w \in fed : r \in reg_range(w)
  IN  /\ any = (fed # {})
      /\ coverage = [status_updated    |-> covers(REG_OPERATING_MODE),
                     telemetry_updated |-> covers(REG_COMPRESSOR_FREQ)]

\* Every call returns, whatever the bus carries.
CallsReturn == pc # "idle" ~> pc = "idle"

\* macon_master.h:110 says that the preflight "returns true only if NO valid
\* Tuya frame was seen": that a complete frame with a good checksum is traffic
\* also when its window is not one the codec maps.
NoFrameOfAnyWindow ==
  PreflightEnded /\ outcome = "Idle" =>
    \A i \in begin .. off - 1 :
      parse_frame(SubSeq(stream, i + 1, off)) = "UNKNOWN_WINDOW"
        => ClaimedAt(i, off) \/ i \in lost
=============================================================================
