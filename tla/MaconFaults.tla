----------------------------- MODULE MaconFaults -----------------------------
(***************************************************************************)
(* The fault decode of src/src/macon_faults.cpp over its table of bits.  A *)
(* row of the table says which bit of which register is which fault; its   *)
(* texts are left out.  A fault may have several bits, its sites.          *)
(***************************************************************************)
EXTENDS RegisterImage, SequencesExt

CONSTANT MACON_FAULT_BITS   \* the rows of the table, in its order

Severities == <<"INFO", "WARNING", "FAULT", "CRITICAL">>

FaultBit == [reg : Registers, bit : 0 .. 7, code : STRING,
             severity : ToSet(Severities), id : STRING]

\* No bit has two rows, a code is one fault, and only a row without a fault
\* is informational.
ASSUME FaultTableAssumption ==
  /\ MACON_FAULT_BITS \in Seq(FaultBit)
  /\ \A i, j \in DOMAIN MACON_FAULT_BITS :
       LET p == MACON_FAULT_BITS[i]  q == MACON_FAULT_BITS[j]
       IN  /\ p.reg = q.reg /\ p.bit = q.bit => i = j
           /\ p.code = q.code <=> p.id = q.id
           /\ p.severity = "INFO" <=> p.id = "Unknown"

Rows      == ToSet(MACON_FAULT_BITS)
FaultRows == {row \in Rows : row.severity # "INFO"}

\* The bits of a byte, the byte of some bits, and a byte with bits switched.
bit_is_set(v, b) == (v \div 2^b) % 2 = 1

bits_of(v) == {b \in 0 .. 7 : bit_is_set(v, b)}

byte_of(bits) ==
  LET mask(b) == IF b \in bits THEN 2^b ELSE 0
  IN  mask(0) + mask(1) + mask(2) + mask(3) + mask(4) + mask(5) + mask(6) + mask(7)

with_bits(v, bits, on) ==
  byte_of(IF on THEN bits_of(v) \cup bits ELSE bits_of(v) \ bits)

lit(img, row) == bit_is_set(value_of(img, row.reg), row.bit)

\* The token of a physical bit, and the tokens of a fault.
macon_fault_site_id(row)     == row.reg * 8 + row.bit
macon_fault_sites_for_id(id) ==
  {macon_fault_site_id(row) : row \in {r \in FaultRows : r.id = id}}

macon_has_fault(img)        == \E row \in FaultRows : lit(img, row)
macon_has_fault_id(img, id) == \E row \in FaultRows : row.id = id /\ lit(img, row)

rank(row) == CHOOSE i \in DOMAIN Severities : Severities[i] = row.severity

\* The scan of the table stops when out is full, and leaves lit faults only.
fault_lit(img, row) == row.severity # "INFO" /\ lit(img, row)

collect_faults(img, max) ==
  LET out[n \in 0 .. Len(MACON_FAULT_BITS)] ==
        IF n = 0 THEN <<>>
        ELSE LET row == MACON_FAULT_BITS[n]
                 before == out[n - 1]
             IN  IF Len(before) < max /\ fault_lit(img, row)
                 THEN Append(before, row) ELSE before
  IN  out[Len(MACON_FAULT_BITS)]

\* The places of those a row does not go in front of.
ahead_if_graver(sorted, row) ==   \* faulty variant: <= for <
  {k \in 1 .. Len(sorted) : rank(sorted[k]) > rank(row)}
ahead_of(sorted, row) == {k \in 1 .. Len(sorted) : rank(sorted[k]) >= rank(row)}

\* One turn of the insertion sort.
insert_by_severity(sorted, row) ==
  LET ahead == ahead_of(sorted, row)
      j     == IF ahead = {} THEN 0 ELSE Max(ahead)
  IN  SubSeq(sorted, 1, j) \o <<row>> \o SubSeq(sorted, j + 1, Len(sorted))

sort_by_severity(rows) ==
  LET sorted[n \in 0 .. Len(rows)] ==
        IF n = 0 THEN <<>> ELSE insert_by_severity(sorted[n - 1], rows[n])
  IN  sorted[Len(rows)]

\* The first max lit faults of the table, the most severe first.
macon_decode_faults(img, max) == sort_by_severity(collect_faults(img, max))
=============================================================================
