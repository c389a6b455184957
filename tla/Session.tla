-------------------------------- MODULE Session --------------------------------
(***************************************************************************)
(* A consumer drives a unit through MaconMaster: setpoints, modes,         *)
(* registers and installer's parameters go out as writes, polled windows   *)
(* come back into the controller's image.  The bus carries whole frames,   *)
(* in order, each way; it may lose any of them and the unit may be slow,   *)
(* so that an answer comes when the call that asked for it has given up.   *)
(* How frames are found in bytes is the matter of modules MaconLink and    *)
(* MaconMaster; the unit answers as src/src/macon_image.cpp has it.        *)
(***************************************************************************)
EXTENDS MaconState, MaconRequests, AdvancedParams

CONSTANTS SetpointCalls,  \* <<kind, degrees>> a consumer may set
          ModeCalls,      \* working modes
          RegisterCalls,  \* <<register, value>>
          ParamCalls,     \* <<AP number, value as the user sees it>>
          PolledWindows,  \* windows a consumer may poll
          UnitStart,      \* what the unit holds apart from zeros
          MaxCalls        \* bound on the number of calls

ASSUME SessionAssumption ==
  /\ \A c \in SetpointCalls : c[1] \in DOMAIN DefaultLimits /\ c[2] \in Int
  /\ ModeCalls \subseteq Byte
  /\ \A c \in RegisterCalls : c[1] \in Registers /\ c[2] \in Byte
  /\ \A c \in ParamCalls : c[1] \in 0 .. 255 /\ c[2] \in int16
  /\ PolledWindows \subseteq KNOWN_WINDOWS
  /\ MaxCalls \in Nat

VARIABLES
  unit,      \* the registers of the unit
  image,     \* the registers as the controller knows them
  toUnit,    \* frames under way to the unit
  toMaster,  \* frames under way to the master, or arrived and not yet read
  pc,        \* "idle", or "wait" for the answer of the call
  task,      \* the call
  want,      \* the function, address and count of its answer
  result,    \* what the last call returned
  \* history: not in the code, read by the properties only
  posts,     \* the writes put on the bus: the register and the value asked for
  done,      \* indices of those the unit applied
  seen,      \* window -> how much of done the image shows of it
  sure,      \* indices of those an acknowledgement confirms
  late,      \* functions and addresses under way when the call began
  calls      \* calls so far

history == <<posts, done, seen, sure, late, calls>>
vars == <<unit, image, toUnit, toMaster, pc, task, want, result, history>>

NoWant == [fc |-> 0, a |-> 0, b |-> 0]

Init == /\ unit = with_baseline(UnitStart)
        /\ image = EmptyImage
        /\ toUnit = <<>> /\ toMaster = <<>>
        /\ pc = "idle" /\ task = [op |-> "none"] /\ want = NoWant /\ result = "none"
        /\ posts = <<>> /\ done = <<>> /\ seen = [w \in KNOWN_WINDOWS |-> 0]
        /\ sure = {} /\ late = {} /\ calls = 0
-----------------------------------------------------------------------------
(* The calls *)

\* tag is history: the post a command carries, or how much of done an answer shows.
Frame(dir, fc, a, b, payload, tag) ==
  [dir |-> dir, fc |-> fc, field_a |-> a, field_b |-> b, payload |-> payload, tag |-> tag]

Ready == pc = "idle" /\ calls < MaxCalls

\* Of the frames to the master n have arrived; a flush drops these only.
no_flush(bus, n) == bus   \* faulty variant
flush_rx(bus, n) == SubSeq(bus, n + 1, Len(bus))

UnderWay(n) ==
  LET rest == ToSet(SubSeq(toMaster, n + 1, Len(toMaster)))
  IN  {<<f.fc, f.field_a>> : f \in ToSet(toUnit) \cup {g \in rest : g.dir = DIR_RESPONSE}}

\* A call begins with a flush, n frames having arrived.
Begin(what, expected, n) ==
  /\ task' = what /\ want' = expected
  /\ late' = UnderWay(n)
  /\ calls' = calls + 1
  /\ UNCHANGED <<unit, image, done, seen, sure>>

\* The transport sends the frame, which comes back as an echo too.
Send(f, n) ==
  /\ toUnit' = Append(toUnit, f)
  /\ toMaster' = Append(flush_rx(toMaster, n), f)
  /\ pc' = "wait"
  /\ UNCHANGED result

\* Nothing goes out; what came in is flushed.
NotSent(r, n) ==
  /\ result' = r
  /\ toMaster' = flush_rx(toMaster, n)
  /\ UNCHANGED <<toUnit, pc, posts>>

Refuse(what) ==
  \E n \in 0 .. Len(toMaster) : Begin(what, NoWant, n) /\ NotSent("UnsupportedRegister", n)

\* Write one byte to a wire address; reg and value are what the caller meant.
write_byte(what, addr, byte, reg, value) ==
  \E n \in 0 .. Len(toMaster) :
    /\ Begin(what, [fc |-> FC_CMD, a |-> addr, b |-> 1], n)
    /\ \/ NotSent("WriteFailed", n)
       \/ /\ Send(Frame(DIR_REQUEST, FC_CMD, addr, 1, <<byte>>, Len(posts) + 1), n)
          /\ posts' = Append(posts, [reg |-> reg, value |-> value % 256])

SetpointAddr  == [Cooling |-> 0, Heating |-> 1, HotWater |-> 2]
SetpointField == [Cooling |-> "CoolingSetpoint", Heating |-> "HeatingSetpoint",
                  HotWater |-> "HotWaterSetpoint"]
MODE_ADDR == 3

\* The windows lie in the image; the wire addresses of the setpoints and of the
\* mode are those of their registers, and a setpoint is read as a signed byte; the
\* unit starts with bytes.  A setpoint of a caller fits its byte: one that does
\* not would be cut by the link.
ASSUME WireAssumption ==
  /\ \A w \in KNOWN_WINDOWS : reg_range(w) \subseteq Registers
  /\ \A kind \in DOMAIN SetpointAddr :
       /\ registers_at(SetpointAddr[kind]) = {FieldMap[SetpointField[kind]].reg}
       /\ FieldMap[SetpointField[kind]].read = "Signed"
  /\ registers_at(MODE_ADDR) = {REG_WORKING_MODE}
  /\ \A r \in DOMAIN UnitStart : r \in Registers /\ UnitStart[r] \in Byte
  /\ \A c \in SetpointCalls : c[2] <= 127

\* The consumer clamps to the limits, which its image of the unit may move.
SetSetpoint ==
  /\ Ready
  /\ \E c \in SetpointCalls :
       LET kind    == c[1]
           celsius == clamp_setpoint(kind, c[2], decode_state(image))
       IN  write_byte([op |-> "set_setpoint", kind |-> kind, celsius |-> celsius],
                      SetpointAddr[kind], setpoint_byte(celsius),
                      FieldMap[SetpointField[kind]].reg, celsius)

SetWorkingMode ==
  /\ Ready
  /\ \E mode \in ModeCalls :
       LET what == [op |-> "set_working_mode", mode |-> mode]
       IN  IF working_mode_selectable(mode)
           THEN write_byte(what, MODE_ADDR, mode, REG_WORKING_MODE, mode)
           ELSE Refuse(what)

write_register(what, reg, value) ==
  IF windows_of(reg) = {} THEN Refuse(what)
  ELSE LET w == CHOOSE w \in windows_of(reg) : TRUE
       IN  write_byte(what, wire_addr(w, reg), value, reg, value)

WriteRegister ==
  /\ Ready
  /\ \E c \in RegisterCalls :
       write_register([op |-> "write_register", reg |-> c[1], value |-> c[2]], c[1], c[2])

\* A parameter that may be written lies in a window, and as the ceiling of the
\* hot water it may not leave the range of a signed byte.
ASSUME PlansAssumption ==
  \A ap \in Writable :
    LET p == s_advanced[ap]
    IN  /\ windows_of(p.reg) # {}
        /\ p.reg = FieldMap["HotWaterCeiling"].reg =>
             \A v \in Byte : value_allowed(p, v) => v <= 127

\* The consumer narrows the plan of the guardrail to the byte that
\* write_register takes; without a plan nothing is called.
WriteParam ==
  /\ Ready
  /\ \E c \in ParamCalls :
       LET plan == advanced_prepare_display_write(c[1], c[2])
       IN  /\ plan.result = "OK"
           /\ write_register([op |-> "write_param", ap |-> c[1], value |-> c[2]],
                             plan.reg, plan.raw % 256)

PollWindow ==
  /\ Ready
  /\ \E win \in PolledWindows, n \in 0 .. Len(toMaster) :
       /\ Begin([op |-> "poll", win |-> win],
                [fc |-> FC_READ, a |-> win.field_a, b |-> win.field_b], n)
       /\ \/ NotSent("TransportError", n)
          \/ /\ Send(Frame(DIR_REQUEST, FC_READ, win.field_a, win.field_b, <<>>, 0), n)
             /\ UNCHANGED posts
-----------------------------------------------------------------------------
(* The answers *)

Return(r) == result' = r /\ pc' = "idle"

Polling == task.op = "poll"

\* A frame is at the head of what the call reads.
AtFrame == pc = "wait" /\ toMaster # <<>>

is_exception(f) == f.dir = DIR_RESPONSE /\ f.fc >= 128

TakeAck ==
  /\ AtFrame /\ ~ Polling
  /\ matches(Head(toMaster), want)
  /\ Return("Ok")
  /\ toMaster' = Tail(toMaster)
  /\ sure' = sure \cup IF <<FC_CMD, want.a>> \in late THEN {} ELSE {Len(posts)}
  /\ UNCHANGED <<unit, image, toUnit, task, want, posts, done, seen, late, calls>>

\* A write fails: what has come in since is flushed.
WriteFails(r) ==
  /\ Return(r)
  /\ \E n \in 0 .. Len(toMaster) : toMaster' = flush_rx(toMaster, n)
  /\ UNCHANGED <<unit, image, toUnit, task, want, history>>

TakeNack ==
  /\ AtFrame /\ ~ Polling
  /\ is_exception(Head(toMaster))
  /\ \E n \in 1 .. Len(toMaster) : toMaster' = flush_rx(toMaster, n)
  /\ Return("Nack")
  /\ UNCHANGED <<unit, image, toUnit, task, want, history>>

\* The window of the response goes into the controller's image.
TakeResponse ==
  /\ AtFrame /\ Polling
  /\ LET f == Head(toMaster)
     IN  /\ is_match(f, task.win)
         /\ IF is_ingested(f)
            THEN /\ image' = ingest_bytes(image, window_of(f).reg_base, window_data(f))
                 /\ seen' = [seen EXCEPT ![window_of(f)] = f.tag]
            ELSE UNCHANGED <<image, seen>>
  /\ Return("Ok")
  /\ toMaster' = Tail(toMaster)
  /\ UNCHANGED <<unit, toUnit, task, want, posts, done, sure, late, calls>>

SkipFrame ==
  /\ AtFrame
  /\ LET f == Head(toMaster)
     IN  IF Polling THEN ~ is_match(f, task.win) ELSE ~ matches(f, want) /\ ~ is_exception(f)
  /\ toMaster' = Tail(toMaster)
  /\ UNCHANGED <<unit, image, toUnit, pc, task, want, result, history>>

\* No answer came in time.
GiveUp ==
  /\ pc = "wait"
  /\ IF Polling
     THEN Return("NoResponse")
          /\ UNCHANGED <<unit, image, toUnit, toMaster, task, want, history>>
     ELSE WriteFails("NoResponse")
-----------------------------------------------------------------------------
(* The unit and the bus *)

Answer(f) == toMaster' = Append(toMaster, f)

UnitApplies ==
  /\ toUnit # <<>> /\ Head(toUnit).fc = FC_CMD
  /\ LET f == Head(toUnit)
     IN  /\ unit' = apply_write(unit, f.field_a, f.payload)
         /\ done' = Append(done, f.tag)
         /\ Answer(Frame(DIR_RESPONSE, FC_CMD, f.field_a, f.field_b, <<>>, f.tag))
  /\ toUnit' = Tail(toUnit)
  /\ UNCHANGED <<image, pc, task, want, result, posts, seen, sure, late, calls>>

UnitReports ==
  /\ toUnit # <<>> /\ Head(toUnit).fc = FC_READ
  /\ LET f == Head(toUnit)
     IN  Answer(Frame(DIR_RESPONSE, FC_READ, f.field_a, f.field_b,
                      read_window(unit, f.field_a, f.field_b), Len(done)))
  /\ toUnit' = Tail(toUnit)
  /\ UNCHANGED <<unit, image, pc, task, want, result, history>>

UnitRefuses ==
  /\ toUnit # <<>>
  /\ LET f == Head(toUnit)
     IN  Answer(Frame(DIR_RESPONSE, f.fc + 128, f.field_a, f.field_b, <<>>, 0))
  /\ toUnit' = Tail(toUnit)
  /\ UNCHANGED <<unit, image, pc, task, want, result, history>>

LoseRequest ==
  /\ toUnit # <<>>
  /\ toUnit' = Tail(toUnit)
  /\ UNCHANGED <<unit, image, toMaster, pc, task, want, result, history>>

LoseAnswer ==
  /\ toMaster # <<>>
  /\ toMaster' = Tail(toMaster)
  /\ UNCHANGED <<unit, image, toUnit, pc, task, want, result, history>>
-----------------------------------------------------------------------------
Call == SetSetpoint \/ SetWorkingMode \/ WriteRegister \/ WriteParam \/ PollWindow

Step == TakeAck \/ TakeNack \/ TakeResponse \/ SkipFrame \/ GiveUp

Environment == UnitApplies \/ UnitReports \/ UnitRefuses \/ LoseRequest \/ LoseAnswer

Next == Call \/ Step \/ Environment

Spec == Init /\ [][Next]_vars
-----------------------------------------------------------------------------
(* Properties *)

WriteEnded == pc = "idle" /\ want.fc = FC_CMD
PollEnded  == pc = "idle" /\ Polling

Applied(i) == \E k \in 1 .. Len(done) : done[k] = i

\* A write that returns Ok is in the unit, value and all, provided that no
\* earlier command to its address, nor the answer of one, was under way when
\* it was flushed and sent; one that returns Nack is not in the unit, provided
\* that nothing was under way.  Without the flush it would have to be said of
\* all that the master has not read.
AnswerTellsTheUnit ==
  WriteEnded =>
    LET last == Len(posts)
    IN  /\ result = "Ok" /\ <<FC_CMD, want.a>> \notin late =>
             Applied(last) /\ unit[posts[last].reg] = posts[last].value
        /\ result = "Nack" /\ late = {} => ~ Applied(last)

\* A poll that returns Ok after such a write shows it, or a later one to the
\* same register: no answer from before the write can pass for a fresh one.
ReadYourWrites ==
  PollEnded /\ result = "Ok" =>
    \A i \in sure :
      posts[i].reg \in reg_range(task.win) =>
        /\ posts[i].reg \in DOMAIN image
        /\ \E j \in i .. Len(posts) : /\ posts[j].reg = posts[i].reg
                                      /\ image[posts[i].reg] = posts[j].value

\* Whatever is lost or late, the unit holds the writes it applied, in the
\* order of the calls and at most once, and what the controller shows of a
\* window never goes back in time.
Service == INSTANCE RegisterService WITH
  Block     <- [w \in KNOWN_WINDOWS |-> reg_range(w)],
  FirstUnit <- with_baseline(UnitStart)
ImplementsService == Service!Spec

\* Whatever value of a parameter the guardrail accepts, from the user or as an
\* option of the list: the register can be written, holds that parameter only
\* and in one byte, and reads back as the value or the option.  A setpoint
\* clamped to the limits fits its byte for every ceiling the guardrail lets
\* the unit have.  And so it is with what a call that returned Ok has put on
\* the bus.
PlanIsExact(ap, v) ==
  LET plan == advanced_prepare_display_write(ap, v)
  IN  plan.result = "OK" =>
        /\ plan.raw \in Byte
        /\ windows_of(plan.reg) # {} /\ advanced_params_at(plan.reg) = {ap}
        /\ advanced_display_value(ap, advanced_decode_raw(ap, plan.raw)) = v

OptionIsExact(ap, i) ==
  LET plan == advanced_prepare_write_option(ap, i)
  IN  plan.result = "OK" =>
        advanced_enum_option_index_for_wire(ap, advanced_decode_raw(ap, plan.raw)) = i

CeilingParams == advanced_params_at(FieldMap["HotWaterCeiling"].reg)

SetpointFits(kind, celsius, ceiling) ==
  LET known == [readings |-> [HotWaterCeiling |-> ceiling]]
      c     == clamp_setpoint(kind, celsius, known)
  IN  int8_of(setpoint_byte(c)) = c /\ clamp_setpoint(kind, c, known) = c

EveryPlanIsExact ==
  /\ \A ap \in DOMAIN s_advanced :
       /\ \A v \in -60 .. 1000 : PlanIsExact(ap, v)
       /\ \A i \in 0 .. 8 : OptionIsExact(ap, i)
  /\ \A ap \in CeilingParams : \A ceiling \in Byte :
       validate_advanced_write(ap, ceiling) = "OK" =>
         \A kind \in DOMAIN DefaultLimits, c \in -130 .. 130 : SetpointFits(kind, c, ceiling)

ReadsAs(byte) ==
  CASE task.op = "write_param" ->
         advanced_display_value(task.ap, advanced_decode_raw(task.ap, byte)) = task.value
    [] task.op = "set_setpoint" ->
         reading(FieldMap[SetpointField[task.kind]].read, byte) = task.celsius
    [] OTHER -> TRUE

PlansAreExact ==
  /\ EveryPlanIsExact
  /\ WriteEnded /\ result = "Ok" => ReadsAs(posts[Len(posts)].value)

\* README.md:46 of the repository says that an acknowledgement is the
\* confirmation that the write was applied: a write that returns Ok leaves its
\* value in the unit.
AckMeansApplied ==
  WriteEnded /\ result = "Ok" =>
    LET last == posts[Len(posts)] IN unit[last.reg] = last.value
=============================================================================
