---------------------------- MODULE RegisterImage ----------------------------
(***************************************************************************)
(* The register cache of src/src/macon_image.cpp as a value: a function    *)
(* from the registers that are present to their bytes.  A register that is *)
(* absent holds 0 in the code too (clear() zeroes values_ and present_     *)
(* together and every store sets both), so nothing is lost.                *)
(***************************************************************************)
EXTENDS TuyaCodec

CONSTANTS kBase,                \* first register of the image, 2000 in the code
          kCount,               \* registers of the image, 143 in the code
          REG_OPERATING_MODE,   \* tells that the status window was covered
          REG_COMPRESSOR_FREQ   \* tells that the telemetry window was covered

Registers == kBase .. kBase + kCount - 1

ASSUME ImageAssumption ==
  /\ kBase \in Nat /\ kCount \in Nat
  /\ {REG_OPERATING_MODE, REG_COMPRESSOR_FREQ} \subseteq Registers

\* The register range and the wire range of a window.
reg_range(w)  == w.reg_base .. w.reg_base + (w.field_b - w.prefix_len) - 1
wire_range(w) == w.field_a + w.prefix_len .. w.field_a + w.field_b - 1

ASSUME RangesAssumption ==
  \A v, w \in KNOWN_WINDOWS :
    v # w => /\ reg_range(v) \cap reg_range(w) = {}
             /\ wire_range(v) \cap wire_range(w) = {}

EmptyImage == [r \in {} |-> 0]

Image == UNION {[S -> Byte] : S \in SUBSET Registers}

value_of(img, r) == IF r \in DOMAIN img THEN img[r] ELSE 0

put(img, r, v) ==
  IF r \in Registers
  THEN [q \in DOMAIN img \cup {r} |-> IF q = r THEN v % 256 ELSE img[q]]
  ELSE img

\* Faulty variant: the loop ends one byte early.
ingest_all_but_last(img, base, bytes) ==
  LET covered == (base .. base + Len(bytes) - 2) \cap Registers
  IN  [r \in DOMAIN img \cup covered |->
         IF r \in covered THEN bytes[r - base + 1] ELSE img[r]]

\* Store bytes from register base on; those outside the image are skipped.
ingest_bytes(img, base, bytes) ==
  LET covered == (base .. base + Len(bytes) - 1) \cap Registers
  IN  [r \in DOMAIN img \cup covered |->
         IF r \in covered THEN bytes[r - base + 1] ELSE img[r]]

\* Every register of the known windows is present, those that were not with 0.
with_baseline(img) ==
  [r \in DOMAIN img \cup (Registers \cap UNION {reg_range(w) : w \in KNOWN_WINDOWS}) |->
     value_of(img, r)]

NoCoverage == [status_updated |-> FALSE, telemetry_updated |-> FALSE]

coverage_of(base, count) ==
  LET covers(r) == base <= r /\ r < base + count
  IN  [status_updated    |-> covers(REG_OPERATING_MODE),
       telemetry_updated |-> covers(REG_COMPRESSOR_FREQ)]

later_coverage(c, d) == d   \* faulty variant: forgets the earlier window

join_coverage(c, d) ==
  [status_updated    |-> c.status_updated \/ d.status_updated,
   telemetry_updated |-> c.telemetry_updated \/ d.telemetry_updated]
-----------------------------------------------------------------------------
(* What a received frame adds to the image *)

window_of(f) == find_window(f.field_a, f.field_b)

\* The payload of a response of a known window, behind the window's prefix.
is_ingested(f) ==
  /\ f.dir = DIR_RESPONSE /\ f.fc # FC_CMD
  /\ is_known_window(f.field_a, f.field_b)
  /\ Len(f.payload) > window_of(f).prefix_len

window_data(f) == SubSeq(f.payload, window_of(f).prefix_len + 1, Len(f.payload))
-----------------------------------------------------------------------------
(* The slave's side of the wire *)

\* The register a wire address names, or the empty set when no window has it
\* or the register lies outside the image.
registers_at(a) ==
  {r \in Registers : \E w \in KNOWN_WINDOWS :
                       /\ a \in wire_range(w)
                       /\ r = w.reg_base + (a - w.field_a - w.prefix_len)}

\* A command of data to wire address addr: all of its bytes or none.
is_writable(addr, data) ==
  /\ Len(data) \in 1 .. 64
  /\ \A i \in 1 .. Len(data) : registers_at(addr + i - 1) # {}

\* Faulty variant: stores what it can and then tells that it could not.
apply_mapped_bytes(img, addr, data) ==
  LET at(r) == {i \in 1 .. Len(data) : r \in registers_at(addr + i - 1)}
      written == {r \in Registers : at(r) # {}}
  IN  [r \in DOMAIN img \cup written |->
         IF r \in written THEN data[CHOOSE i \in at(r) : TRUE] ELSE img[r]]

apply_write(img, addr, data) ==
  LET target(i) == CHOOSE r \in registers_at(addr + i - 1) : TRUE
      written == {target(i) : i \in 1 .. Len(data)}
      last(r) == CHOOSE i \in 1 .. Len(data) :
                   /\ target(i) = r
                   /\ \A j \in i + 1 .. Len(data) : target(j) # r
  IN  IF is_writable(addr, data)
      THEN [r \in DOMAIN img \cup written |-> IF r \in written THEN data[last(r)] ELSE img[r]]
      ELSE img

\* What a read of a window is answered with.
read_window(img, a, b) ==
  IF is_known_window(a, b)
  THEN LET w == find_window(a, b)
       IN  [i \in 1 .. b |-> IF i <= w.prefix_len THEN 0
                             ELSE value_of(img, w.reg_base + i - 1 - w.prefix_len)]
  ELSE <<>>
=============================================================================
