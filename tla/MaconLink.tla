------------------------------ MODULE MaconLink ------------------------------
(***************************************************************************)
(* The transactions of src/src/macon_link.cpp: write a command or a read   *)
(* request to the bus and look for the matching answer in what the         *)
(* transport delivers.  The transport cuts the incoming bytes into reads   *)
(* of any size; a read that times out or fails ends the call.  Bytes that  *)
(* a call does not read are there for the next one.                        *)
(***************************************************************************)
EXTENDS MaconRequests, FiniteSets

CONSTANTS Telemetry,      \* KNOWN_WINDOWS[0]: the window read_setpoint reads
          Streams,        \* the byte streams that may reach the transport
          ReadSizes,      \* bytes a transport read may return
          MAX_READS,      \* reads per call, 16 in the code
          SetpointAddrs,  \* wire addresses of the setpoints, 0 .. 2 in the code
          MODE_ADDR,      \* wire address of the working mode, 3 in the code
          Celsius,        \* setpoints a caller may ask for
          Modes,          \* working modes a caller may ask for
          RegisterNumbers,\* registers a caller may ask for
          Values,         \* bytes a caller may write
          MaxCalls        \* bound on the number of calls

ASSUME LinkAssumption ==
  /\ Telemetry \in KNOWN_WINDOWS
  /\ Streams \subseteq Seq(Byte)
  /\ ReadSizes \subseteq Nat \ {0}
  /\ MAX_READS \in Nat /\ MaxCalls \in Nat
  /\ Celsius \subseteq Int /\ Modes \subseteq Byte /\ Values \subseteq Byte
  /\ RegisterNumbers \subseteq Nat
  \* The telemetry window begins with the setpoints and the mode.
  /\ \A a \in SetpointAddrs \cup {MODE_ADDR} :
       a \in Word /\ registers_at(a) = {Telemetry.reg_base + a}
  \* The windows lie within the image and within 16 bits of the wire.
  /\ \A w \in KNOWN_WINDOWS : /\ reg_range(w) \subseteq Registers
                               /\ w.field_a + w.field_b \in Word

VARIABLES
  stream,   \* all the bytes that will reach the transport
  off,      \* how many of them were read
  store,    \* the receive buffer of the call: store[0 .. len - 1]
  reads,    \* transport reads of the call
  pc,       \* "idle", or where read_matching_frame is
  want,     \* the answer the call waits for
  asked,    \* what the caller asked for: the operation and its arguments
  result,   \* the MaconResult of the last call
  out,      \* the value read_setpoint returned
  \* history: not in the code, read by the properties only
  sent,     \* the frame the call wrote to the bus
  begin,    \* where in the stream the call began
  torn,     \* offsets discarded while fewer than HDR_LEN bytes from there were read
  calls     \* calls so far

history == <<sent, begin, torn, calls>>
vars == <<stream, off, store, reads, pc, want, asked, result, out, history>>

cap == MAX_FRAME_LEN

NoWant == [fc |-> 0, a |-> 0, b |-> 0]
NoCall == [op |-> "none"]

Init == /\ stream \in Streams
        /\ off = 0 /\ store = <<>> /\ reads = 0
        /\ pc = "idle" /\ want = NoWant /\ asked = NoCall
        /\ result = "none" /\ out = 0
        /\ sent = <<>> /\ begin = 0 /\ torn = {} /\ calls = 0
-----------------------------------------------------------------------------
(* The calls *)

Refuse(call, r) ==
  /\ asked' = call
  /\ result' = r
  /\ sent' = <<>>
  /\ begin' = off
  /\ calls' = calls + 1
  /\ UNCHANGED <<stream, off, store, reads, pc, want, out, torn>>

\* Write a frame and wait for the answer; a transport write may fall short.
Transact(call, frame, expected) ==
  \/ Refuse(call, "WriteFailed")
  \/ /\ frame # <<>>
     /\ asked' = call /\ want' = expected
     /\ sent' = frame /\ begin' = off /\ calls' = calls + 1
     /\ store' = <<>> /\ reads' = 0
     /\ pc' = "drain"
     /\ UNCHANGED <<stream, off, result, out, torn>>

write_byte(call, addr, byte) ==
  Transact(call, encode_command(addr, <<byte>>), [fc |-> FC_CMD, a |-> addr, b |-> 1])

Ready == pc = "idle" /\ calls < MaxCalls

SetSetpoint ==
  /\ Ready
  /\ \E addr \in SetpointAddrs, c \in Celsius :
       write_byte([op |-> "set_setpoint", addr |-> addr, celsius |-> c],
                  addr, setpoint_byte(c))

SetWorkingMode ==
  /\ Ready
  /\ \E mode \in Modes :
       LET call == [op |-> "set_working_mode", mode |-> mode]
       IN  IF working_mode_selectable(mode)
           THEN write_byte(call, MODE_ADDR, mode)
           ELSE Refuse(call, "UnsupportedRegister")

WriteRegister ==
  /\ Ready
  /\ \E reg \in RegisterNumbers, v \in Values :
       LET call == [op |-> "write_register", reg |-> reg, value |-> v]
       IN  IF windows_of(reg) = {}
           THEN Refuse(call, "UnsupportedRegister")
           ELSE LET w == CHOOSE w \in windows_of(reg) : TRUE
                IN  write_byte(call, wire_addr(w, reg), v)

ReadSetpoint ==
  /\ Ready
  /\ \E addr \in SetpointAddrs :
       Transact([op |-> "read_setpoint", addr |-> addr],
                encode_request(FC_READ, Telemetry.field_a, Telemetry.field_b),
                [fc |-> FC_READ, a |-> Telemetry.field_a, b |-> Telemetry.field_b])
-----------------------------------------------------------------------------
(* The loop of read_matching_frame *)

Return(r) ==
  /\ result' = r
  /\ pc' = "idle"
  /\ store' = <<>>
  /\ UNCHANGED <<stream, off, reads, want, asked, history>>

\* The buffer loses its first n bytes; the drain goes on.
Discard(n) ==
  /\ store' = SubSeq(store, n + 1, Len(store))
  /\ UNCHANGED <<stream, off, reads, pc, want, asked, result, out, history>>

\* An exception frame (fc | 0x80) at the head; its checksum is not looked at.
any_exception(buf) ==   \* faulty variant: does not look at the direction
  /\ buf[1] = HDR0 /\ buf[2] = HDR1 /\ buf[4] >= 128

is_exception(buf) ==
  /\ buf[1] = HDR0 /\ buf[2] = HDR1 /\ buf[3] = DIR_RESPONSE /\ buf[4] >= 128

InDrain == pc = "drain" /\ Len(store) >= HDR_LEN

Scanning == InDrain /\ ~ is_exception(store)

Start == find_frame_start(store)

TakeNack ==
  /\ InDrain
  /\ is_exception(store)
  /\ Return("Nack")
  /\ UNCHANGED out

\* No frame start: drop everything but a last byte that may begin a header.
DropJunk ==
  /\ Scanning
  /\ Start = Len(store)
  /\ LET lastByte == store[Len(store)]
     IN  store' = IF lastByte = HDR0 THEN <<lastByte>> ELSE <<>>
  /\ torn' = torn \cup (off - (HDR_LEN - 1) .. off - 2)
  /\ pc' = "read"
  /\ UNCHANGED <<stream, off, reads, want, asked, result, out, sent, begin, calls>>

Resync ==
  /\ Scanning
  /\ Start \in 1 .. Len(store) - 1
  /\ Discard(Start)

AtFrame(verdict) ==
  /\ Scanning
  /\ Start = 0
  /\ verdict = parse_frame(store)

AwaitMore ==
  /\ \/ pc = "drain" /\ Len(store) < HDR_LEN
     \/ AtFrame("TRUNCATED")
  /\ pc' = "read"
  /\ UNCHANGED <<stream, off, store, reads, want, asked, result, out, history>>

\* The answer: a read takes its value from the payload.
TakeAnswer ==
  /\ AtFrame("OK")
  /\ LET f == parsed_frame(store)
     IN  /\ matches(f, want)
         /\ IF asked.op = "read_setpoint"
            THEN IF Len(f.payload) <= asked.addr
                 THEN Return("BadResponse") /\ UNCHANGED out
                 ELSE Return("Ok") /\ out' = int8_of(f.payload[asked.addr + 1])
            ELSE Return("Ok") /\ UNCHANGED out

payload_only(f)     == Len(f.payload)   \* faulty variant: forgets the header
everything_after(f) == Len(store)   \* faulty variant: len = 0
frame_only(f)       == f.frame_len

\* An intact frame that is not the answer, for instance our own echo.
SkipFrame ==
  /\ AtFrame("OK")
  /\ LET f == parsed_frame(store)
     IN  ~ matches(f, want) /\ Discard(frame_only(f))

DropByte ==
  /\ Scanning
  /\ Start = 0
  /\ parse_frame(store) \notin {"OK", "TRUNCATED"}
  /\ Discard(1)
-----------------------------------------------------------------------------
(* The transport *)

CanRead == pc = "read" /\ reads < MAX_READS /\ Len(store) < cap

StopReading ==
  /\ pc = "read"
  /\ ~ CanRead
  /\ Return(IF reads >= MAX_READS THEN "NoResponse" ELSE "BadResponse")
  /\ UNCHANGED out

Receive ==
  /\ CanRead
  /\ \E n \in ReadSizes :
       /\ n <= cap - Len(store)
       /\ off + n <= Len(stream)
       /\ store' = store \o SubSeq(stream, off + 1, off + n)
       /\ off' = off + n
  /\ reads' = reads + 1
  /\ pc' = "drain"
  /\ UNCHANGED <<stream, want, asked, result, out, history>>

\* A read that times out or fails.
ReadFails ==
  /\ CanRead
  /\ Return("NoResponse")
  /\ UNCHANGED out
-----------------------------------------------------------------------------
Call == SetSetpoint \/ SetWorkingMode \/ WriteRegister \/ ReadSetpoint

Step == \/ TakeNack \/ DropJunk \/ Resync \/ AwaitMore
        \/ TakeAnswer \/ SkipFrame \/ DropByte
        \/ StopReading \/ Receive \/ ReadFails

Next == Call \/ Step

Spec == Init /\ [][Next]_vars

\* A call, once made, runs: a transport read blocks for its time-out at most.
FairSpec == Spec /\ WF_vars(Step)
-----------------------------------------------------------------------------
(* Properties *)

Results == {"Ok", "WriteFailed", "NoResponse", "BadResponse",
            "UnsupportedRegister", "Nack"}

TypeOK ==
  /\ stream \in Streams /\ off \in 0 .. Len(stream) /\ begin \in 0 .. off
  /\ store \in Seq(Byte) /\ Len(store) <= cap /\ Len(store) <= off - begin
  /\ reads \in 0 .. MAX_READS /\ calls \in 0 .. MaxCalls
  /\ pc \in {"idle", "drain", "read"}
  /\ result \in Results \cup {"none"}
  /\ want \in [fc : Byte, a : Nat, b : Nat]
  /\ out \in -128 .. 127
  /\ sent \in Seq(Byte) /\ torn \subseteq Int

FS == INSTANCE FrameStream
        WITH avail <- off, pos <- off - Len(store), accepted <- {}, dropped <- {}

\* The answer the call waits for was read, and lies whole at offset i.
AnswerAt(i) ==
  /\ FS!Intact(i)
  /\ LET f == parsed_frame(FS!FrameAt(i))
     IN  /\ <<f.dir, f.fc>> = <<DIR_RESPONSE, want.fc>>
         /\ <<f.field_a, f.field_b>> = <<want.a, want.b>>
  /\ i + declared_len(FS!FrameAt(i)) <= off

\* An earlier header of this call claims the byte at offset i for its own
\* frame, which is intact or not complete yet.
ClaimedAt(i) ==
  \E j \in begin .. i - 1 :
    /\ plausible_header(stream, j)
    /\ i < j + declared_len(FS!FrameAt(j))
    /\ parse_frame(SubSeq(stream, j + 1, off)) \in {"OK", "TRUNCATED"}

ExceptionAt(i) ==
  /\ i + HDR_LEN <= off
  /\ SubSeq(stream, i + 1, i + 3) = <<HDR0, HDR1, DIR_RESPONSE>>
  /\ stream[i + 4] >= 128

Answered == pc = "idle" /\ sent # <<>>

\* Ok says that the bus carried, after the request, an intact frame with the
\* direction, function, address and count the request calls for; the value
\* read is its byte.
OkIsAnAnswer ==
  Answered /\ result = "Ok" =>
    \E i \in begin .. off - 1 :
      /\ AnswerAt(i)
      /\ asked.op = "read_setpoint"
           => out = int8_of(parsed_frame(FS!FrameAt(i)).payload[asked.addr + 1])

\* NoResponse says that no answer was read, but for one that stands in bytes
\* another header claims or whose header a read tore while the buffer held
\* nothing but junk before it: an answer that comes first is never missed.
MissedOnlyIfTorn ==
  Answered /\ result = "NoResponse" =>
    \A i \in begin .. off - 1 :
      AnswerAt(i) /\ ~ ClaimedAt(i) => i \in torn /\ i # begin

\* Nack says that an exception frame was read; one that comes first is told.
NackIsAnException ==
  Answered =>
    /\ result = "Nack" => \E i \in begin .. off - 1 : ExceptionAt(i)
    /\ ExceptionAt(begin) => result = "Nack"

\* The register and the value the caller asked to write.
AskedRegister ==
  CASE asked.op = "set_setpoint"     -> Telemetry.reg_base + asked.addr
    [] asked.op = "set_working_mode" -> Telemetry.reg_base + MODE_ADDR
    [] asked.op = "write_register"   -> asked.reg

Clamped(c) == IF c > 127 THEN 127 ELSE IF c < -128 THEN -128 ELSE c

IsAskedValue(byte) ==
  CASE asked.op = "set_setpoint"     -> int8_of(byte) = Clamped(asked.celsius)
    [] asked.op = "set_working_mode" -> byte = asked.mode
    [] asked.op = "write_register"   -> byte = asked.value

\* The slave that applies the frame of a write stores the value asked for in
\* the register asked for, and nothing else; what cannot be written is
\* refused without a byte on the bus.
WritesWhatWasAsked ==
  asked.op \in {"set_setpoint", "set_working_mode", "write_register"} =>
    /\ sent # <<>> =>
         LET f == parsed_frame(sent)
             img == apply_write(EmptyImage, f.field_a, f.payload)
         IN  /\ parse_frame(sent) = "OK" /\ f.dir = DIR_REQUEST /\ f.fc = FC_CMD
             /\ DOMAIN img = {AskedRegister}
             /\ IsAskedValue(img[AskedRegister])
    /\ pc = "idle" /\ result = "UnsupportedRegister" =>
         /\ sent = <<>>
         /\ \/ asked.op = "set_working_mode" /\ ~ working_mode_selectable(asked.mode)
            \/ asked.op = "write_register"
                 /\ \A w \in KNOWN_WINDOWS : asked.reg \notin reg_range(w)

\* The receive buffer always has room for the next read: the overflow guard
\* of read_matching_frame cannot fire.
StoreHasRoom == pc = "read" => Len(store) < cap

\* Every call returns: the drain makes progress and the reads are bounded.
CallsReturn == pc # "idle" ~> pc = "idle"

\* macon_link.h:140 says that bytes are read until a matching frame is found:
\* an answer that was read whole is not answered with NoResponse.
AnswerReadIsTaken ==
  Answered /\ result = "NoResponse" =>
    \A i \in begin .. off - 1 : AnswerAt(i) => ClaimedAt(i)
=============================================================================
