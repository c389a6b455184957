# TLA+ models of arctic-macon

arctic-macon is the library for the wire protocol and register map of the Arctic
(Macon) heat pump: a serial bus on which a controller (the master) polls two
register windows of the unit and writes single registers, and on which other
devices listen. The library is single-threaded C++ whose consumers own the UART
and the locks. What is hard about it is not threads but the bus: bytes arrive in
pieces of any size, mixed with echoes, other masters' traffic, damaged frames and
trailing tag bytes, and every component must find the same frames in them with a
small buffer and a bounded time.

## Inventory

| part | state it keeps | operations | interacts with |
|------|----------------|------------|----------------|
| `tuya_codec` | none | frame lengths, checksum, `parse_frame`, encoders, `find_frame_start` | called by every receiver |
| `macon_listener` | accumulator of 512 bytes, counters | `feed_bytes`, `reset_buffer` | writes `MaconImage` and `MaconObservedCatalog` |
| `MaconObservedCatalog` | up to 64 entries | `record`, `clear` | shared by the listener and the master's sink |
| `macon_link` | per call: a buffer of 256 bytes, a count of reads | setpoint, mode and register writes, setpoint reads | the injected transport |
| `macon_master` | `poll_stats_`; per call: a buffer of 192 bytes and a deadline | `poll_window`, `preflight_bus_idle`, writes through the link | transport, clock, sink |
| `MaconImageSink` | accumulated coverage | `on_window`, `on_observed`, `take_coverage` | called back by the master, writes image and catalog |
| `macon_image` | 143 bytes and their presence | ingest, semantic setters, fault setters, slave side (`read_window`, `apply_write`) | listener and master write it, `decode_state` reads it |
| `macon_state` | none | `decode_state` and derived values | reads the image |
| `macon_faults` | none (a table) | fault lookup, `macon_decode_faults` | image, state |
| `macon_fields` | none (a table) | set and get by name, fingerprints | image, state |
| `macon_advanced_params` | none (a table) | `validate_advanced_write`, plans from engineering values, user values and options, and the way back | the consumer carries a plan to `write_register` |
| `macon_registers`, `macon_fluid`, `macon_bus.h` | none | names and text, fluid tables, line constants | none |

Correct means: the codec's answer on a prefix of the bus stays right when more
bytes come; a listener decodes the same frames however its input is cut, and its
image, catalog and counters tell that history; a transaction's result says what
was on the bus; a write puts the asked value in the asked register; a poll has one
outcome and keeps its deadline; what was acknowledged is in the unit and what a poll
shows is not older than that. `PROJECT.json` lists under `hazards` the lines
where each of these can go wrong.

## Modules

| module | models |
|--------|--------|
| `TuyaCodec` | `tuya_codec.{h,cpp}` as operators over byte sequences |
| `CodecStream` | a receive buffer that grows: the use every receiver makes of the codec |
| `FrameStream` | abstract receiver: the left-to-right reading of one stream of bytes |
| `RegisterImage` | the register cache as a function, ingest, coverage, the slave's `apply_write` and `read_window`; shared by the modules below |
| `ObservedCatalog` | `MaconObservedCatalog` |
| `MaconListener` | `macon_listener.cpp`; implements `FrameStream` |
| `MaconRequests` | the arguments of requests and the match of their answers, shared by link, master and session |
| `MaconLink` | `macon_link.cpp` |
| `MaconMaster` | polls, preflight, counters and sink of `macon_master.cpp` |
| `AdvancedParams` | the guardrail and the plans of `macon_advanced_params.cpp`, for any table |
| `Session` | a consumer, the master's writes and polls, the bus and the unit, frame by frame; implements `RegisterService` |
| `RegisterService` | abstract service: posted writes, applied in order and at most once, and views that never go back |
| `MaconTables` | the library's tables: windows, fault bits, fields, flags and parameters, as data |
| `MaconFaults` | `macon_faults.cpp`: sites of a fault, `macon_has_fault`, `macon_decode_faults` |
| `MaconState` | `macon_state.cpp`: the decode of readings, flags and modes, `decode_operation`, the limits of setpoints; validity of `macon_field_get` |
| `MaconImage` | every call that changes the image, strict and clamping; implements `UnitPanel` |
| `UnitPanel` | abstract image: a panel of readings, flags, faults and modes, without bytes |
| `MCWire` and `MC...` | the scaled-down wire and the instances for TLC |
| `...Proofs` | the theorems |

A buffer of the code is a sequence of bytes, an offset `i` of the code is index
`i + 1`. An encoder that returns length 0 returns `<<>>`. Null pointers and buffers
too small for the caller's own purpose do not occur in `src/` and are left out, and
so are time stamps that nothing but diagnostics reads. Operators marked *faulty
variant* are not part of any model: each is a plausible mistake in the definition
below it, and each property is known to fail when its variant takes the
definition's place (`mutants` in `PROJECT.json`).

**MaconListener.** One action is one step of the loops of `feed_bytes` and `drain`.
`FeedBytes` starts a call with the next bytes of the bus, `TakeBytes` is the copy
into the accumulator, `DropJunk`, `Resync`, `AcceptFrame`, `AwaitMore`,
`RejectFrame` and `DrainDone` are the branches of `drain`, `Compact` is the shift
after it, with the safety valve. The code drains a full accumulator before it
copies; here that is a `TakeBytes` of zero bytes with `making_room` set. The
history variables record which offsets of the stream were taken or dropped.

**MaconLink.** A call writes its frame or fails; then `TakeNack`, `DropJunk`,
`Resync`, `AwaitMore`, `TakeAnswer`, `SkipFrame` and `DropByte` are the branches of
the drain of `read_matching_frame`, and `Receive`, `ReadFails` and `StopReading`
its reads. The transport is the environment: it may cut the incoming bytes
anywhere, time out at any read and fall short on any write. Bytes a call leaves
unread are there for the next.

**MaconMaster.** `PollWindow` flushes and sends, `KeepOn` and `GiveUp` are the
checks of the deadline, `Receive`, `ReadTimesOut` and `ReadFails` the reads, each of
which takes any time up to its limit, and `Preempted` lets other threads run. The
clock is a counter modulo `ClockSize`; `elapsed` is the real time the code cannot
see. Polls and the preflight share the actions where the code repeats itself.

**MaconImage.** One action per call: the setters of the image (`set_temp`,
`set_value`, `set_flag`, the modes), the strict setter of the fields
(`macon_field_set`), the fault setters, `clear`, `fill_baseline`, `ingest` and the
simulator's `apply_write` and `set_register`. The image is a function whose domain
is the set of registers that are present; an absent register reads 0, as in the
code. The call and what it returned are kept in `op` and `ret`, so that the panel can
say what each call promised. The `_valid` flags of `MaconState` are domains too:
`decode_readings` is defined for the fields that are valid.

**Session.** A call is one action that flushes, builds its frame and sends it, or fails;
the link's and the master's loops are `TakeAck`, `TakeNack`, `TakeResponse` and
`SkipFrame`, on the frame at the head of what comes in, and `GiveUp`. The two directions
of the serial line are sequences of frames. `toMaster` holds what has arrived and what
is still coming; how much has arrived matters to a flush only, which drops any number
`n` of frames from its head. A frame that a read brings together with the answer is
dropped by the link in the code and stays here; the next call flushes it or skips it,
as it may have been late in any case. The unit and the bus are outside the repository:
the unit answers with `apply_write` and `read_window` of `macon_image.cpp`, late or
not at all, or refuses with the exception frame that the link knows (the repository's
README says none was ever seen); the bus loses frames at either end, which stands for
damaged ones too, and sends every request back as an echo. The consumer clamps setpoints by the limits of the
state it has decoded and carries plans of the guardrail to `write_register`, of whose 16
bits that call takes eight. Each command carries the index of its post and each response
the number of writes the unit had applied; only the history variables read these tags.

**How they compose.** `MaconListener`, `MaconMaster` and `MaconLink` use `TuyaCodec`
and `RegisterImage`; the listener and the master also share `ObservedCatalog`.
`MaconListener` implements `FrameStream` with the stream read so far as its reading
point, and `MaconImage` implements `UnitPanel` with the decode as its mapping.
`WritesWhatWasAsked` of the link applies the frames of the link to the image by
`apply_write`: master's encoder and slave's decoder in one property. `Session` puts
`MaconState`, `MaconRequests` and `AdvancedParams` between one consumer and one unit
and implements `RegisterService` with no mapping but names: what the unit holds is a
replay of the posts it applied, and the image is, window by window, such a replay up to
a point that only moves on.

## Runs

| run | shows |
|-----|-------|
| `codec_stream` | codec answers are stable under growth, waits bounded, encoded frames parse back |
| `listener_streams` | decoding, image, catalog, counters and results do not depend on the cut, with `reset_buffer` at any point; every call returns |
| `listener_unknown` | violation: unmapped windows are not catalogued |
| `link_calls` | two transactions in a row: results are true, written frames put the asked value in the asked register of the slave, every call returns |
| `link_torn` | violation: an answer read whole ends in `NoResponse` |
| `master_calls` | two calls, polls or preflights, with `take_coverage` between: outcome, sink, counters, coverage and deadline; every call returns |
| `master_preflight` | violation: frames of unmapped windows count as silence |
| `image_calls` | setters, fault setters, ingest and slave writes in any order: each changes what it names only, faults are listed and reported, writes are served back |
| `image_operation` | violation: a unit whose run-state register is absent is shown as Off |
| `session_calls` | three calls of a consumer with lost, late and refused frames: what `Ok` and `Nack` tell, that polls show confirmed writes, and that every plan and setpoint fits its byte; implements `RegisterService` |
| `session_late` | violation: a late acknowledgement confirms a write that the unit does not hold |
| `image_absent` | violation: fields whose register is absent are given as valid |

**Bounds of the wire.** The wire is scaled down: windows of 2 and 3 bytes for 50 and
58, laid out as in the code (adjacent on the wire, apart in register numbers), a
longest frame of 18 or 28 for 256, accumulators of 20 for 512 and 23 for 192. The
relations that matter are kept: the listener's accumulator is no smaller than the
longest frame, but small enough that it fills up in the middle of a call; the master's
is smaller than the longest frame but larger than an echo with a response; payloads may
hold the magic bytes. Streams are made of bursts: each kind of frame, each kind of
damage, heads of torn frames, false headers with long and impossible counts, frames
inside frames, lone 0x55 and 0xAA. The listener reads all pairs of 16 bursts and nine
triples, in chunks of 1, 9 and 24 bytes in any order with one reset; two bursts suffice
for every case in which one frame's bytes disturb the next, and three for a frame
behind two such. The link meets all pairs of 17 bursts before the first answer and
six behind it, reads of 1, 7 and 18 bytes, six reads to a transaction for the code's
limit, and two calls, so that what the first leaves unread meets the second. The
master meets ten streams, chosen for the branches of the poll, with reads of 4, 9 and
22 bytes; its clock of 16 values starts at 14 and wraps during the first call.
`MaxCalls`, `MaxResets`, `MaxOps` and `MaxLate` bound counters that the code does not
have. Runs stop when the stream is used up or the calls are spent, therefore deadlock is
not checked.

**Bounds of the image.** `image_calls` uses the library's own tables and layout, not
scaled ones, since where the bits and fields lie is what the properties are about. The
inputs are listed in `MCMaconImage`: numbers beyond, at and inside the range of each way
of storing, faults with one bit, two bits in one register and two in two, ingests that
light every register of faults, writes across the seam of the windows and over their
ends. Three calls in a row: two to set up bits that share a byte, by different
routes, and a third that must leave them alone.

**Bounds of the session.** `session_calls` has the library's own tables, as the wire
addresses, the registers of the parameters and the ceiling are what it is about. Three
calls are the fewest in which a stale answer can do harm after the write it belongs to
was confirmed (a poll that times out, a write, a poll; or two writes and a poll), and
every loss and delay is possible in each. The calls have two values for one address, an
address in each window, a mode and a register that are refused, and polls of both
windows. `PlansAreExact` looks besides at every parameter with every value between -60
and 1000, beyond all ranges of the table, and at every ceiling from 0 to 255.

**Fairness.** `FairSpec` asks weak fairness of the steps of a call under way, and of
nothing else: nothing makes the bus carry bytes or the consumer call. It is what the
code gives, as none of its loops waits but in a transport read, which returns
after its time-out (`MaconTransport::read`). `MaconMaster` moreover has the clock
advance when a read times out or fails, as a clock does.

## What the runs say of the code

* `find_frame_start` knows read frames of mapped windows only, so every branch for
  `UNKNOWN_WINDOW` in the receivers is unreachable (`FoundIsNeverUnknown`, proved).
  The catalog never sees an unmapped window, against a test's header and the
  comments of the listener, and the preflight takes such traffic for silence.
* The link keeps one byte of a buffer without a frame start where listener and
  master keep seven. `MissedOnlyIfTorn` says that this is the only way in which it
  misses an answer it has read whole, `AnswerReadIsTaken` that it happens.
* The listener's safety valve and the link's overflow guard cannot fire (proved).
  The master's can, behind a false command header with a large count, and then a
  response may go with the junk; `NoResponseIsTrue` allows exactly that and the
  response that arrives in the read that ends at the deadline.
* `decode_operation` answers Unknown only if faults, mode and frequency are all
  absent; a master that has polled only the telemetry window shows Off for a unit that
  runs. `macon_field_get` gives the fan level and four flags as valid whatever is absent.
  `FaultIsReported` therefore asks for `faults_valid`: with one of the four fault
  registers absent, the bits of the other three do not make the operation Fault.

* An acknowledgement says address and count, not what it acknowledges. `flush_rx` keeps
  the promise of `AnswerTellsTheUnit`: nothing that has arrived before the call can pass
  for its answer. It cannot keep `AckMeansApplied`: after a write that timed out, the
  late acknowledgement confirms the next write to the same register, which may be lost.
  A consumer that needs to know polls the window; a poll cannot be fooled in this way
  once a write was confirmed with nothing of its address under way (`ReadYourWrites`),
  since the line keeps the order of frames.

Seen while modelling, without a run of their own:

* The ceiling of the hot water is heeded only above 30 degrees (`macon_state.cpp:381`),
  while AP13, which is the same register, may be 20 to 55 (`macon_advanced_params.cpp:82`):
  a unit with a ceiling of 25 is offered 30 to 60, where `macon_state.h:344-346` says
  that the maximum tracks the ceiling when it is present.

* Acknowledgements are catalogued as known windows (`macon_listener.cpp:102`), where
  `macon_listener.h:59` speaks of responses.
* `encode_request` accepts the write function code (`tuya_codec.cpp:191`), where
  `tuya_codec.h:24-25` knows reads only; nothing in `src/` asks it to.
* A valve position of 1280 steps and more is stored in a byte that has room for it, and
  told as `Ok` (`macon_image.h:72`), but reads back as 0: the decode takes the byte for a
  negative number (`macon_state.cpp:171-174`). The panel therefore promises the read-back only of values that a reading
  can show.
* Two bits that the table of faults does not know (2126.3, 2128.6) make the operation
  Fault while `macon_has_fault` is false.
* `macon_decode_faults` with room for fewer faults than are lit keeps the first of the
  table, sorted, and not the most severe; `DecodeTellsTheFaults` asks for no more.

## Proofs

| module | proves |
|--------|--------|
| `WireProofs` | lemmas of the codec (what `find_frame_start` returns, that headers, complete frames and verdicts do not change when bytes are appended, that a declared length is between 9 and `MAX_FRAME_LEN`) and of requests: what their frames look like, which answers match, and what `apply_write` makes of them; used by all below |
| `CodecStreamProofs` | every property of `codec_stream` |
| `FrameStreamProofs` | the abstract reading misses no intact frame and makes none up |
| `MaconListenerProofs` | every invariant of `listener_streams`, and that the listener implements `FrameStream` |
| `MaconLinkProofs` | every invariant of `link_calls` |
| `MaconMasterProofs` | every invariant of `master_calls` |
| `MaconImageProofs` | every property of `image_calls`, among them that the image implements `UnitPanel` |
| `SessionProofs` | every property of `session_calls`, among them that the session implements `RegisterService` |

All hold for every window table without two entries of one key, every longest frame of
at least 9 bytes, every set of streams, every way of cutting them and any number of
calls; `MaxCalls` and the like are arbitrary numbers to the provers. What more is
assumed stands as an `ASSUME` with the constants it is about and is evaluated by every
run: that the listener's accumulator is no smaller than the longest frame
(`ListenerAssumption`), that no two windows share a register or a wire address
(`RangesAssumption`), that the telemetry window begins with the setpoints and the
windows fit the wire (`LinkAssumption`, `WireAssumption`), that a call is shorter than
half the range of the clock (`MasterAssumption`), how the tables of the image and of
the parameters lie (below), and that the consumer asks for
no setpoint above 127 degrees: `write_byte` sends a byte, and `clamp_setpoint` lets a
larger number through when AP13 of the unit does.

**Codec.** `FramesRoundTrip` needs the checksum of a frame of any length. The sum
is a recursive function; that sums over a prefix agree, and over a
frame with one byte appended, is proved by taking the least index at
which they would not, which is an instance of the natural numbers' well-order
and no induction over an operator.

**Listener.** `BufferInv`: the accumulator is the slice of the stream
from `base` to `off`, `consumed` lies within it, and at the end of a drain less than
one frame is left over. Room in the accumulator follows, and with it that `making_room`
is never set, which the refinement needs: the listener's steps are steps of `FrameStream`
or leave its state alone (`Implements`), and `NoFrameLeftBehind` and
`NothingDecodedTwice` follow through the refinement. `FrameStream`'s own invariant
says that every intact frame before the reading point is taken, dropped or covered.
What the listener tells needs `AtInv`: every frame taken, and the marks of the last call
and the last `clear`, lie before the position `base + consumed`, so that a
frame taken now is new and the latest. Every step then is one of four kinds (it takes a
frame, it starts a call, it clears the catalog, or it passes), and image, result,
counters and catalog are followed over the four.

**Link.** `StoreInv` is the slice again. `ScanInv` adds that every answer in front of
the buffer was torn by a read or lies inside an intact frame that was skipped, that an
exception frame that comes first is not passed, and that the drain stops only at
an incomplete frame; the three verdicts (`AnswersInv`) follow at the end of a call.
`WriteInv` says that what was sent of a call is the encoded frame that writes what was
asked.

**Master.** `AccInv`, `TypeInv` and `ScanInv` are the same three, with the bytes
the overflow guard drops as a further excuse and `drained` as the place up to which the
drain has looked. `ClockInv` ties the wrapping clock to the time elapsed: the
deadline lies `Window - elapsed` ahead modulo `ClockSize`, and time is bounded in every
control state, since otherwise a step could jump over half the range of the clock
and the difference change its sign. `FedInv` says that during a call image and catalog
are those from before, `StatsInv` that damaged frames are counted only once the scan
has passed them. `NoResponseIsTrue` excuses a frame only by a header that was not yet
judged in the bytes the drain had seen (`ClaimedAt(i, drained)`), which the proof
showed to be the right bound: a header may become a whole frame only in the
bytes that arrive with the deadline.

**Session.** `Core` describes the two queues of frames: commands under way to the unit
carry increasing posts after those done, answers under way carry what the unit had done
when it sent them, in order, and a response tells the unit's registers at
that point. `FreshInv` says that while a write waits whose acknowledgement
cannot be late, all commands and acknowledgements of its address under way are its own;
`RefusedInv` that with nothing late a refusal belongs to the pending write;
`ReturnedInv` keeps what a call returned true afterwards. The refinement to
`RegisterService` follows from `Core`.

`PlansAreExact` rests on two assumptions about the table of parameters, which hold of the
library's own table as `session_calls` evaluates them. `OneByteAssumption`: what may be
written to a parameter that is known and not locked is one byte, signed or not, and no
other parameter has its register; the code relies on it (`macon_advanced_params.cpp:262`
says it of the signed ones, and `write_register` takes a byte). `PlansAssumption`: such a
register lies in a window, and the parameter that is the ceiling of the hot water stays
below 128. From these, `WriteExact` shows that the 16 bits of a plan are a byte that
reads back as the value, `DisplayExact` that a multiple of the step comes back as the
user's value within 16 bits, `EveryOptionExact` that an option comes back at its place.
The theorem is about every table with these properties; the bounds -60 to 1000 of the
property are for TLC, its lemmas take every 16-bit value. `PlanInv` carries it to the
bus: while a write is under way and after it returned Ok, the last post reads
back as what the task asked for.

**Image.** `ImageInv` types the image and needs no more, as every property of it is
about one call; what takes work is the data. `StateAssumption` says of the tables, for
which the library's own satisfy it in `image_calls`, that fields and modes have registers
of their own, that no bit is two things, and that the run indicator is the one row of
the table of faults that is no fault; `NumbersAssumption`, that a field is read in the
unit in which it is stored and that what a strict setter accepts can be stored.
`BitsOfByte` is the fact about bytes: the sum of the masks of some bits has these bits
and no others, so that a bit switched, kept or cleared leaves its neighbours.
`ImageImplementsPanel` then goes call by call. For each setter of bits it compares the
places that are switched with the places of the flags and of the rows, of which a site
is the token (`SiteIsPlace`); for each setter of numbers `NumberReadBack` goes through
the ways of storing and reading, the valve that reads back 0 included. A wire address
has one register at most and a register one address (`OneRegister`, `OneAddress`),
from which `WritesAsServed` follows for commands of any length. For `FaultIsReported`,
a lit row of the run register is one of the low four bits that `decode_operation`
looks at, and a lit row elsewhere makes its register nonzero.

`macon_decode_faults` is two loops, a scan of the table and an insertion sort, and both
are recursive functions over the number of turns. That such a function exists and obeys
its equation (`TurnsExist`), and that what a turn preserves holds after the last
(`ListFound`, `RowsSorted`), is proved by taking the least number of turns at which it
would not. The scan leaves lit faults in the order of the table, as many as there are or
fit (`Found`); a row is inserted behind the last one that is not less severe
(`InsertPlace`), and as it comes behind all of them in the table, equals keep the order
of the table (`InsertNext`). No state is involved: `FaultsTold` holds for every image.

Only model-checked:

* liveness (`CallsReturn` of listener, link and master), which rests on fairness and is
  out of the provers' reach. Every other property of the passing runs is a theorem.

## Plan

1. done: codec, listener with its abstract reading, link, polls and preflight; the
   image with its setters, the slave's side, decode and faults, with the panel as its
   abstract specification; the guardrail of the parameters, the limits of the setpoints
   and the session of a consumer with a unit, with the service as its abstract
   specification.
2. done: the theorems above.
3. open: fingerprints and keys of `macon_fields`, should they come to carry decisions.

Not modelled: text formatting and names (`macon_registers`, the string keys and
fingerprints of `macon_fields`), texts and units of the
parameters, floating-point performance estimates and fluid tables,
which TLC cannot evaluate, and line constants.
