--------------------------- MODULE MaconImageProofs ---------------------------
(***************************************************************************)
(* The image for every table that the assumptions allow: the types of what *)
(* it holds, the atomicity of the slave's writes, the report and the list  *)
(* of faults, and that seen through the decode it is the panel of          *)
(* UnitPanel.                                                              *)
(***************************************************************************)
EXTENDS MaconImage, WireProofs, FiniteSetTheorems

-----------------------------------------------------------------------------
(* Images *)

\* An image is a function from some registers to bytes.
LEMMA ImageIs ==
  ASSUME NEW img
  PROVE  img \in Image <=> /\ img = [r \in DOMAIN img |-> img[r]]
                           /\ DOMAIN img \subseteq Registers
                           /\ \A r \in DOMAIN img : img[r] \in Byte
<1>1. ASSUME img \in Image
      PROVE  /\ img = [r \in DOMAIN img |-> img[r]]
             /\ DOMAIN img \subseteq Registers
             /\ \A r \in DOMAIN img : img[r] \in Byte
  <2>1. PICK S \in SUBSET Registers : img \in [S -> Byte]
    BY <1>1 DEF Image
  <2>2. QED
    BY <2>1
<1>2. ASSUME /\ img = [r \in DOMAIN img |-> img[r]]
             /\ DOMAIN img \subseteq Registers
             /\ \A r \in DOMAIN img : img[r] \in Byte
      PROVE  img \in Image
  <2>1. img \in [DOMAIN img -> Byte]
    BY <1>2
  <2>2. QED
    BY <1>2, <2>1 DEF Image
<1>3. QED
  BY <1>1, <1>2

\* A register of an image holds a byte, also when it is absent.
LEMMA ValueType ==
  ASSUME NEW img \in Image, NEW r
  PROVE  value_of(img, r) \in Byte
<1>1. 0 \in Byte
  BY DEF Byte
<1>2. QED
  BY <1>1, ImageIs DEF value_of

\* A number brought into a byte.
LEMMA ByteOfInt ==
  ASSUME NEW v \in Int
  PROVE  v % 256 \in Byte
BY DEF Byte

LEMMA ByteStays ==
  ASSUME NEW v \in Byte
  PROVE  v % 256 = v
BY DEF Byte

LEMMA PutType ==
  ASSUME NEW img \in Image, NEW r, NEW v \in Int
  PROVE  put(img, r, v) \in Image
<1>1. CASE r \in Registers
  <2>1. \A q \in DOMAIN img \cup {r} : (IF q = r THEN v % 256 ELSE img[q]) \in Byte
    BY ByteOfInt, ImageIs
  <2>2. DOMAIN img \cup {r} \subseteq Registers
    BY <1>1, ImageIs
  <2>3. put(img, r, v) \in [DOMAIN img \cup {r} -> Byte]
    BY <1>1, <2>1 DEF put
  <2>4. QED
    BY <2>2, <2>3 DEF Image
<1>2. QED
  BY <1>1 DEF put
-----------------------------------------------------------------------------
(* Bits *)

\* The masks of the eight bits.
LEMMA Masks ==
  /\ 2^0 = 1 /\ 2^1 = 2 /\ 2^2 = 4 /\ 2^3 = 8
  /\ 2^4 = 16 /\ 2^5 = 32 /\ 2^6 = 64 /\ 2^7 = 128
OBVIOUS

\* A sum of masks, and the bits of it.
IsSum(x, v) ==
  v = x[0] + 2 * x[1] + 4 * x[2] + 8 * x[3] + 16 * x[4] + 32 * x[5] + 64 * x[6] + 128 * x[7]

HasBits(x, v) ==
  /\ v \in 0 .. 255
  /\ (v \div 1) % 2 = x[0] /\ (v \div 2) % 2 = x[1]
  /\ (v \div 4) % 2 = x[2] /\ (v \div 8) % 2 = x[3]
  /\ (v \div 16) % 2 = x[4] /\ (v \div 32) % 2 = x[5]
  /\ (v \div 64) % 2 = x[6] /\ (v \div 128) % 2 = x[7]

\* The eight bits of a sum of masks are those that were put in.
LEMMA BitsOfSum ==
  ASSUME NEW x \in [0 .. 7 -> 0 .. 1], NEW v \in Int, IsSum(x, v)
  PROVE  HasBits(x, v)
<1> USE DEF IsSum
<1>0. /\ x[0] \in 0 .. 1 /\ x[1] \in 0 .. 1 /\ x[2] \in 0 .. 1 /\ x[3] \in 0 .. 1
      /\ x[4] \in 0 .. 1 /\ x[5] \in 0 .. 1 /\ x[6] \in 0 .. 1 /\ x[7] \in 0 .. 1
  OBVIOUS
<1>1. v \in 0 .. 255
  BY <1>0
<1>2. (v \div 1) % 2 = x[0]
  <2>1. v = 2 * (x[1] + 2 * x[2] + 4 * x[3] + 8 * x[4] + 16 * x[5] + 32 * x[6] + 64 * x[7]) + x[0]
    BY <1>0
  <2>2. QED
    BY <1>0, <2>1
<1>3. (v \div 2) % 2 = x[1]
  <2>1. v \div 2 = x[1] + 2 * x[2] + 4 * x[3] + 8 * x[4] + 16 * x[5] + 32 * x[6] + 64 * x[7]
    BY <1>0
  <2>2. QED
    BY <1>0, <2>1
<1>4. (v \div 4) % 2 = x[2]
  <2>1. v \div 4 = x[2] + 2 * x[3] + 4 * x[4] + 8 * x[5] + 16 * x[6] + 32 * x[7]
    BY <1>0
  <2>2. QED
    BY <1>0, <2>1
<1>5. (v \div 8) % 2 = x[3]
  <2>1. v \div 8 = x[3] + 2 * x[4] + 4 * x[5] + 8 * x[6] + 16 * x[7]
    BY <1>0
  <2>2. QED
    BY <1>0, <2>1
<1>6. (v \div 16) % 2 = x[4]
  <2>1. v \div 16 = x[4] + 2 * x[5] + 4 * x[6] + 8 * x[7]
    BY <1>0
  <2>2. QED
    BY <1>0, <2>1
<1>7. (v \div 32) % 2 = x[5]
  <2>1. v \div 32 = x[5] + 2 * x[6] + 4 * x[7]
    BY <1>0
  <2>2. QED
    BY <1>0, <2>1
<1>8. (v \div 64) % 2 = x[6]
  <2>1. v \div 64 = x[6] + 2 * x[7]
    BY <1>0
  <2>2. QED
    BY <1>0, <2>1
<1>9. (v \div 128) % 2 = x[7]
  BY <1>0
<1>10. QED
  BY <1>1, <1>2, <1>3, <1>4, <1>5, <1>6, <1>7, <1>8, <1>9 DEF HasBits

\* The byte of some bits has these bits and no others.
LEMMA BitsOfByte ==
  ASSUME NEW S
  PROVE  /\ byte_of(S) \in Byte
         /\ \A n \in 0 .. 7 : bit_is_set(byte_of(S), n) <=> n \in S
<1> DEFINE x == [n \in 0 .. 7 |-> IF n \in S THEN 1 ELSE 0]
           v == byte_of(S)
<1>1. x \in [0 .. 7 -> 0 .. 1] /\ \A n \in 0 .. 7 : x[n] = 1 <=> n \in S
  OBVIOUS
<1>2. IsSum(x, v)
  BY Masks DEF byte_of, IsSum
<1> HIDE DEF x, v
<1>3. v \in Int
  BY <1>1, <1>2 DEF IsSum
<1>4. HasBits(x, v)
  BY <1>1, <1>2, <1>3, BitsOfSum
<1>5. /\ bit_is_set(v, 0) <=> 0 \in S
      /\ bit_is_set(v, 1) <=> 1 \in S
      /\ bit_is_set(v, 2) <=> 2 \in S
      /\ bit_is_set(v, 3) <=> 3 \in S
      /\ bit_is_set(v, 4) <=> 4 \in S
      /\ bit_is_set(v, 5) <=> 5 \in S
      /\ bit_is_set(v, 6) <=> 6 \in S
      /\ bit_is_set(v, 7) <=> 7 \in S
  BY <1>1, <1>4, Masks DEF bit_is_set, HasBits
<1>6. \A n \in 0 .. 7 : n = 0 \/ n = 1 \/ n = 2 \/ n = 3 \/ n = 4 \/ n = 5 \/ n = 6 \/ n = 7
  OBVIOUS
<1>7. \A n \in 0 .. 7 : bit_is_set(v, n) <=> n \in S
  BY <1>5, <1>6, Zenon
<1>8. QED
  BY <1>4, <1>7 DEF v, Byte, HasBits

\* No bit of 0 is set.
LEMMA NoBitOfZero == \A n \in 0 .. 7 : ~ bit_is_set(0, n)
<1>1. byte_of({}) = 0
  BY DEF byte_of
<1>2. QED
  BY <1>1, BitsOfByte

\* Switching some bits of a byte leaves the others.
LEMMA BitsSwitched ==
  ASSUME NEW v, NEW bits, NEW on \in BOOLEAN
  PROVE  /\ with_bits(v, bits, on) \in Byte
         /\ \A n \in 0 .. 7 : bit_is_set(with_bits(v, bits, on), n)
                                <=> IF n \in bits THEN on ELSE bit_is_set(v, n)
<1> DEFINE S == IF on THEN bits_of(v) \cup bits ELSE bits_of(v) \ bits
<1>1. with_bits(v, bits, on) = byte_of(S)
  BY DEF with_bits
<1>2. \A n \in 0 .. 7 : n \in bits_of(v) <=> bit_is_set(v, n)
  BY DEF bits_of
<1>3. \A n \in 0 .. 7 : n \in S <=> IF n \in bits THEN on ELSE bit_is_set(v, n)
  BY <1>2
<1> HIDE DEF S
<1>4. QED
  BY <1>1, <1>3, BitsOfByte

\* The bits at some places of an image are switched, and no others.
HasSwitched(img, places, on, new) ==
  /\ DOMAIN new = DOMAIN img \cup {p.reg : p \in places}
  /\ \A r, n : n \in 0 .. 7 =>
       (bit_is_set(value_of(new, r), n)
          <=> IF \E p \in places : p.reg = r /\ p.bit = n THEN on
              ELSE bit_is_set(value_of(img, r), n))

\* A register is as it was.
Same(img, new, r) ==
  (r \in DOMAIN new <=> r \in DOMAIN img) /\ value_of(new, r) = value_of(img, r)

LEMMA Switching ==
  ASSUME NEW img \in Image, NEW places, NEW on \in BOOLEAN,
         \A p \in places : p.reg \in Registers
  PROVE  /\ switch(img, places, on) \in Image
         /\ HasSwitched(img, places, on, switch(img, places, on))
         /\ \A r : r \notin {p.reg : p \in places} => Same(img, switch(img, places, on), r)
<1> DEFINE regs == {p.reg : p \in places}
           bits(r) == {p.bit : p \in {q \in places : q.reg = r}}
           byte(r) == IF r \in regs THEN with_bits(value_of(img, r), bits(r), on) ELSE img[r]
           new == switch(img, places, on)
<1>1. new = [r \in DOMAIN img \cup regs |-> byte(r)]
  BY DEF switch
<1>2. \A r : \A n : n \in bits(r) <=> \E p \in places : p.reg = r /\ p.bit = n
  OBVIOUS
<1>3. \A r \in regs :
        /\ byte(r) \in Byte
        /\ \A n \in 0 .. 7 : bit_is_set(byte(r), n)
                               <=> IF n \in bits(r) THEN on ELSE bit_is_set(value_of(img, r), n)
  <2> TAKE r \in regs
  <2>1. byte(r) = with_bits(value_of(img, r), bits(r), on)
    OBVIOUS
  <2> HIDE DEF byte, bits
  <2>2. QED
    BY <2>1, BitsSwitched
<1>4. regs \subseteq Registers
  OBVIOUS
<1>5. \A r \in regs : \E p \in places : p.reg = r
  OBVIOUS
<1>6. \A r : r \notin regs => ~ \E p \in places : p.reg = r
  OBVIOUS
<1>7. \A r : r \notin regs => byte(r) = img[r]
  OBVIOUS
<1> HIDE DEF new, byte, bits, regs
<1>8. DOMAIN new = DOMAIN img \cup regs /\ \A r \in DOMAIN new : new[r] = byte(r)
  BY <1>1
<1>9. new \in Image
  <2>1. \A r \in DOMAIN new : new[r] \in Byte
    BY <1>3, <1>7, <1>8, ImageIs
  <2>2. DOMAIN new \subseteq Registers
    BY <1>4, <1>8, ImageIs
  <2>3. new = [r \in DOMAIN new |-> new[r]]
    BY <1>1
  <2>4. QED
    BY <2>1, <2>2, <2>3, ImageIs
<1>10. \A r : r \notin regs => Same(img, new, r)
  BY <1>7, <1>8 DEF Same, value_of
<1>11. \A r : r \in regs => value_of(new, r) = byte(r)
  BY <1>8 DEF value_of
<1>12. ASSUME NEW r, NEW n \in 0 .. 7
       PROVE  bit_is_set(value_of(new, r), n)
                <=> IF \E p \in places : p.reg = r /\ p.bit = n THEN on
                    ELSE bit_is_set(value_of(img, r), n)
  <2>1. CASE r \in regs
    <3>1. value_of(new, r) = byte(r)
      BY <1>11, <2>1
    <3>2. bit_is_set(byte(r), n) <=> IF n \in bits(r) THEN on ELSE bit_is_set(value_of(img, r), n)
      BY <1>3, <2>1
    <3>3. n \in bits(r) <=> \E p \in places : p.reg = r /\ p.bit = n
      BY <1>2
    <3> HIDE DEF bit_is_set, value_of
    <3>4. QED
      BY <3>1, <3>2, <3>3
  <2>2. CASE r \notin regs
    BY <1>6, <1>10, <2>2, Zenon DEF Same
  <2>3. QED
    BY <2>1, <2>2
<1>13. HasSwitched(img, places, on, new)
  BY <1>8, <1>12 DEF HasSwitched, regs
<1>14. QED
  BY <1>9, <1>10, <1>13 DEF new, regs
-----------------------------------------------------------------------------
(* The decode *)

\* What is shown of the readings depends on the registers of the fields only.
LEMMA ReadingsKept ==
  ASSUME NEW img, NEW new, \A f \in DOMAIN FieldMap : Same(img, new, FieldMap[f].reg)
  PROVE  decode_readings(new) = decode_readings(img)
<1>1. \A f \in DOMAIN FieldMap :
        /\ FieldMap[f].reg \in DOMAIN new <=> FieldMap[f].reg \in DOMAIN img
        /\ FieldMap[f].reg \in DOMAIN img => new[FieldMap[f].reg] = img[FieldMap[f].reg]
  BY DEF Same, value_of
<1>2. QED
  BY <1>1 DEF decode_readings

\* The lit faults, by their sites.
SitesLit(img) == {macon_fault_site_id(row) : row \in litRows(img)}

LEMMA FaultsKept ==
  ASSUME NEW img, NEW new, \A row \in FaultRows : Same(img, new, row.reg)
  PROVE  SitesLit(new) = SitesLit(img)
<1>1. \A row \in FaultRows : lit(new, row) <=> lit(img, row)
  BY DEF Same, lit
<1>2. QED
  BY <1>1 DEF SitesLit, litRows

LEMMA FlagsKept ==
  ASSUME NEW img, NEW new, \A fl \in DOMAIN FlagMap : Same(img, new, FlagMap[fl].reg)
  PROVE  decode_flags(new) = decode_flags(img)
<1>1. \A fl \in DOMAIN FlagMap :
        value_of(new, FlagMap[fl].reg) = value_of(img, FlagMap[fl].reg)
  BY DEF Same
<1>2. QED
  BY <1>1 DEF decode_flags

LEMMA ModesKept ==
  ASSUME NEW img, NEW new,
         Same(img, new, REG_WORKING_MODE), Same(img, new, REG_OPERATING_MODE)
  PROVE  /\ decode_modes(new).mode = decode_modes(img).mode
         /\ decode_modes(new).working_mode = decode_modes(img).working_mode
BY DEF Same, value_of, decode_modes
-----------------------------------------------------------------------------
(* Writes of the slave *)

\* A wire address in a window names a register in the range of the window.
LEMMA RegisterOfAddress ==
  ASSUME NEW a, NEW w \in KNOWN_WINDOWS, a \in wire_range(w)
  PROVE  /\ a \in Nat
         /\ w.reg_base + (a - w.field_a - w.prefix_len) \in reg_range(w)
<1>1. /\ w.field_a \in Nat /\ w.field_b \in Nat
      /\ w.reg_base \in Nat /\ w.prefix_len \in Nat
  BY WindowType
<1>2. a \in Int /\ a >= w.field_a + w.prefix_len /\ a <= w.field_a + w.field_b - 1
  BY <1>1 DEF wire_range
<1>3. QED
  BY <1>1, <1>2 DEF reg_range

\* It names one register at most.
LEMMA OneRegister ==
  ASSUME NEW a, NEW q \in registers_at(a), NEW r \in registers_at(a)
  PROVE  q = r
<1>1. PICK v \in KNOWN_WINDOWS :
        a \in wire_range(v) /\ q = v.reg_base + (a - v.field_a - v.prefix_len)
  BY DEF registers_at
<1>2. PICK w \in KNOWN_WINDOWS :
        a \in wire_range(w) /\ r = w.reg_base + (a - w.field_a - w.prefix_len)
  BY DEF registers_at
<1>3. v = w
  BY <1>1, <1>2, RangesAssumption
<1>4. QED
  BY <1>1, <1>2, <1>3

\* And a register has one address at most.
LEMMA OneAddress ==
  ASSUME NEW a, NEW b, NEW r \in registers_at(a), r \in registers_at(b)
  PROVE  a = b
<1>1. PICK v \in KNOWN_WINDOWS :
        a \in wire_range(v) /\ r = v.reg_base + (a - v.field_a - v.prefix_len)
  BY DEF registers_at
<1>2. PICK w \in KNOWN_WINDOWS :
        b \in wire_range(w) /\ r = w.reg_base + (b - w.field_a - w.prefix_len)
  BY DEF registers_at
<1>3. r \in reg_range(v) /\ r \in reg_range(w) /\ a \in Nat /\ b \in Nat
  BY <1>1, <1>2, RegisterOfAddress
<1>4. v = w
  BY <1>3, RangesAssumption
<1>5. /\ v.field_a \in Nat /\ v.reg_base \in Nat /\ v.prefix_len \in Nat
  BY WindowType
<1>6. QED
  BY <1>1, <1>2, <1>3, <1>4, <1>5

\* A command that is taken puts each of its bytes into the register of its
\* address, and into no other.
LEMMA WriteStores ==
  ASSUME NEW img \in Image, NEW addr \in Nat, NEW data \in Seq(Byte), is_writable(addr, data)
  PROVE  /\ apply_write(img, addr, data) \in Image
         /\ \A i \in 1 .. Len(data) : \A r \in registers_at(addr + i - 1) :
              value_of(apply_write(img, addr, data), r) = data[i]
         /\ \A r : (\A i \in 1 .. Len(data) : r \notin registers_at(addr + i - 1))
                     => Same(img, apply_write(img, addr, data), r)
<1> DEFINE n == Len(data)
           target(i) == CHOOSE r \in registers_at(addr + i - 1) : TRUE
           written == {target(i) : i \in 1 .. Len(data)}
           last(r) == CHOOSE i \in 1 .. Len(data) :
                        /\ target(i) = r
                        /\ \A j \in i + 1 .. Len(data) : target(j) # r
           new == apply_write(img, addr, data)
<1>0. n \in Nat
  OBVIOUS
<1>1. \A i \in 1 .. n : target(i) \in registers_at(addr + i - 1)
  BY DEF is_writable
<1>2. \A i \in 1 .. n : \A r \in registers_at(addr + i - 1) : r = target(i)
  BY <1>1, OneRegister
<1>3. ASSUME NEW i \in 1 .. n, NEW j \in 1 .. n, target(i) = target(j) PROVE i = j
  <2>1. addr + i - 1 = addr + j - 1
    BY <1>1, <1>3, OneAddress
  <2>2. QED
    BY <1>0, <2>1
<1>4. new = [r \in DOMAIN img \cup written |-> IF r \in written THEN data[last(r)] ELSE img[r]]
  BY DEF apply_write
<1> HIDE DEF target, new
<1>5. ASSUME NEW i \in 1 .. n PROVE last(target(i)) = i
  <2>1. \A j \in i + 1 .. n : target(j) # target(i)
    <3>1. \A j \in i + 1 .. n : j \in 1 .. n /\ j # i
      BY <1>0
    <3>2. QED
      BY <1>3, <3>1
  <2>2. \A k \in 1 .. n : target(k) = target(i) => k = i
    BY <1>3
  <2>3. QED
    BY <2>1, <2>2
<1> HIDE DEF last
<1>6. /\ DOMAIN new = DOMAIN img \cup written
      /\ \A r \in DOMAIN new : new[r] = IF r \in written THEN data[last(r)] ELSE img[r]
  BY <1>4
<1>7. \A i \in 1 .. n : target(i) \in written
  OBVIOUS
<1>8. \A r \in written : \E i \in 1 .. n : r = target(i)
  OBVIOUS
<1> HIDE DEF written, n
<1>9. \A i \in 1 .. n : target(i) \in DOMAIN new /\ new[target(i)] = data[i]
  BY <1>5, <1>6, <1>7
<1>10. \A i \in 1 .. n : data[i] \in Byte
  BY DEF n
<1>11. new \in Image
  <2>1. DOMAIN new \subseteq Registers
    <3>1. \A r \in written : r \in Registers
      BY <1>1, <1>8 DEF registers_at
    <3>2. QED
      BY <1>6, <3>1, ImageIs
  <2>2. \A r \in DOMAIN new : new[r] \in Byte
    <3>1. \A r \in written : new[r] \in Byte
      BY <1>8, <1>9, <1>10
    <3>2. QED
      BY <1>6, <3>1, ImageIs
  <2>3. new = [r \in DOMAIN new |-> new[r]]
    BY <1>4
  <2>4. QED
    BY <2>1, <2>2, <2>3, ImageIs
<1>12. \A i \in 1 .. n : \A r \in registers_at(addr + i - 1) : value_of(new, r) = data[i]
  BY <1>2, <1>9 DEF value_of
<1>13. ASSUME NEW r, \A i \in 1 .. n : r \notin registers_at(addr + i - 1)
       PROVE  Same(img, new, r)
  <2>1. r \notin written
    BY <1>1, <1>8, <1>13
  <2>2. QED
    BY <1>6, <2>1 DEF Same, value_of
<1>14. QED
  BY <1>11, <1>12, <1>13 DEF new, n
-----------------------------------------------------------------------------
(* Types *)

\* Every value can be stored: it is clamped.
LEMMA StoredByte ==
  ASSUME NEW kind \in Kinds, NEW v \in Int
  PROVE  stored_byte(kind, v) \in Byte
<1> DEFINE raw == v \div Unit(kind)
<1>1. Unit(kind) \in {1, 10, 100} /\ Lowest(kind) \in Int /\ Highest(kind) \in Int
  BY DEF Unit, Lowest, Highest, Kinds
<1>2. raw \in Int
  <2>1. v \div 1 \in Int /\ v \div 10 \in Int /\ v \div 100 \in Int
    OBVIOUS
  <2>2. QED
    BY <1>1, <2>1
<1> DEFINE kept_in == CASE raw < Lowest(kind)  -> Lowest(kind)
                        [] raw > Highest(kind) -> Highest(kind)
                        [] OTHER               -> raw
<1> HIDE DEF raw
<1>3. kept_in \in Int
  BY <1>1, <1>2
<1>4. stored_byte(kind, v) = kept_in % 256
  BY DEF stored_byte, raw
<1> HIDE DEF kept_in
<1>5. QED
  BY <1>3, <1>4, ByteOfInt

\* A mode is stored as the byte that is decoded as the mode.
LEMMA ModeByte ==
  ASSUME NEW mode \in ToSet(WorkingModes) \cup {"Unknown"}
  PROVE  /\ mode_byte(mode) \in Byte
         /\ decode_working_mode(mode_byte(mode)) = mode
<1>1. DOMAIN WorkingModes = 1 .. 7
  BY DEF WorkingModes
<1>2. CASE mode = "Unknown"
  BY <1>1, <1>2 DEF mode_byte, decode_working_mode, Byte
<1>3. CASE mode # "Unknown"
  <2> DEFINE i == CHOOSE i \in DOMAIN WorkingModes : WorkingModes[i] = mode
  <2>1. \E j \in DOMAIN WorkingModes : WorkingModes[j] = mode
    BY <1>3 DEF ToSet
  <2>2. i \in 1 .. 7 /\ WorkingModes[i] = mode
    BY <1>1, <2>1
  <2>3. mode_byte(mode) = i - 1
    BY <1>3 DEF mode_byte
  <2> HIDE DEF i
  <2>4. QED
    BY <1>1, <2>2, <2>3 DEF decode_working_mode, Byte
<1>4. QED
  BY <1>2, <1>3

\* The rows of the table lie in the image.
LEMMA RowType ==
  ASSUME NEW row \in Rows
  PROVE  row.reg \in Registers /\ row.bit \in 0 .. 7 /\ row.reg \in FaultRegisters
<1>1. PICK i \in DOMAIN MACON_FAULT_BITS : row = MACON_FAULT_BITS[i]
  BY DEF Rows, ToSet
<1>2. row \in FaultBit
  BY <1>1, FaultTableAssumption
<1>3. QED
  BY <1>2, StateAssumption DEF FaultBit

\* The image is an image, and the calls are counted.
ImageInv == image \in Image /\ ops \in 0 .. MaxOps

LEMMA EmptyIsImage == EmptyImage \in Image
<1>1. EmptyImage \in [{} -> Byte]
  BY DEF EmptyImage
<1>2. QED
  BY <1>1 DEF Image

\* One more call that leaves an image.
LEMMA CallType ==
  ASSUME ImageInv, Ready, ops' = ops + 1, image' \in Image
  PROVE  ImageInv'
BY ImageCallsAssumption DEF ImageInv, Ready

LEMMA NumberType ==
  ASSUME ImageInv, set_temp \/ set_value \/ macon_field_set
  PROVE  ImageInv'
<1>1. ASSUME NEW c \in NumberCalls, NEW strict, StoreNumber(c[1], c[2], strict)
      PROVE  image' \in Image /\ ops' = ops + 1
  <2>1. c[1] \in DOMAIN FieldMap /\ c[2] \in Int
    BY ImageCallsAssumption
  <2>2. FieldMap[c[1]].kind \in Kinds
    BY <2>1, StateAssumption
  <2>3. stored_byte(FieldMap[c[1]].kind, c[2]) \in Int
    BY <2>1, <2>2, StoredByte DEF Byte
  <2>4. image' = put(image, FieldMap[c[1]].reg, stored_byte(FieldMap[c[1]].kind, c[2]))
        /\ ops' = ops + 1
    BY <1>1 DEF StoreNumber, Call
  <2>5. QED
    BY <2>3, <2>4, PutType DEF ImageInv
<1>2. ASSUME NEW what, NEW result, Refuse(what, result) PROVE image' \in Image /\ ops' = ops + 1
  BY <1>2 DEF Refuse, Call, ImageInv
<1>3. Ready
  BY DEF set_temp, set_value, macon_field_set
<1>4. image' \in Image /\ ops' = ops + 1
  <2>1. CASE set_temp
    BY <1>1, <1>2, <2>1 DEF set_temp
  <2>2. CASE set_value
    BY <1>1, <2>2 DEF set_value
  <2>3. CASE macon_field_set
    BY <1>1, <1>2, <2>3 DEF macon_field_set
  <2>4. QED
    BY <2>1, <2>2, <2>3
<1>5. QED
  BY <1>3, <1>4, CallType

LEMMA FlagType ==
  ASSUME ImageInv, set_flag
  PROVE  ImageInv'
<1>1. Ready
  BY DEF set_flag
<1>2. PICK c \in FlagCalls :
        /\ ops' = ops + 1
        /\ image' = switch(image, {FlagMap[c[1]]}, c[2] # 0) \/ image' = image
  BY DEF set_flag, Call, Refuse
<1>3. FlagMap[c[1]].reg \in Registers
  <2>1. c[1] \in DOMAIN FlagMap
    BY ImageCallsAssumption
  <2>2. QED
    BY <2>1, StateAssumption
<1>4. (c[2] # 0) \in BOOLEAN
  OBVIOUS
<1>5. switch(image, {FlagMap[c[1]]}, c[2] # 0) \in Image
  BY <1>3, <1>4, Switching DEF ImageInv
<1>6. QED
  BY <1>1, <1>2, <1>5, CallType DEF ImageInv

LEMMA ModeType ==
  ASSUME ImageInv, set_working_mode \/ set_operating_direction
  PROVE  ImageInv'
<1>1. Ready
  BY DEF set_working_mode, set_operating_direction
<1>2. image' \in Image /\ ops' = ops + 1
  <2>1. CASE set_working_mode
    <3>1. PICK mode \in ModeCalls :
            /\ ops' = ops + 1
            /\ image' = put(image, REG_WORKING_MODE, mode_byte(mode)) \/ image' = image
      BY <2>1 DEF set_working_mode, Call, Refuse
    <3>2. mode \in ToSet(WorkingModes) \cup {"Unknown"}
      BY ImageCallsAssumption
    <3>3. mode_byte(mode) \in Int
      BY <3>2, ModeByte DEF Byte
    <3>4. QED
      BY <3>1, <3>3, PutType DEF ImageInv
  <2>2. CASE set_operating_direction
    <3>1. /\ ops' = ops + 1
          /\ \/ image' = put(image, REG_OPERATING_MODE, 4)
             \/ image' = put(image, REG_OPERATING_MODE, 0)
             \/ image' = image
      BY <2>2 DEF set_operating_direction, Call, Refuse
    <3>2. QED
      BY <3>1, PutType DEF ImageInv
  <2>3. QED
    BY <2>1, <2>2
<1>3. QED
  BY <1>1, <1>2, CallType

LEMMA FaultType ==
  ASSUME ImageInv, set_fault \/ set_fault_by_code \/ set_fault_site
  PROVE  ImageInv'
<1>1. Ready
  BY DEF set_fault, set_fault_by_code, set_fault_site
<1>2. \A rows \in SUBSET Rows : \A on \in BOOLEAN : switch(image, rows, on) \in Image
  BY RowType, Switching DEF ImageInv
<1>3. \E rows \in SUBSET Rows : \E on \in BOOLEAN :
        image' = switch(image, rows, on) /\ ops' = ops + 1
  <2>1. CASE set_fault
    <3>1. PICK id \in FaultIds, on \in BOOLEAN :
            image' = switch(image, {row \in FaultRows : row.id = id}, on) /\ ops' = ops + 1
      BY <2>1 DEF set_fault, Call
    <3>2. {row \in FaultRows : row.id = id} \in SUBSET Rows
      BY DEF FaultRows
    <3>3. QED
      BY <3>1, <3>2
  <2>2. CASE set_fault_by_code
    <3>1. PICK code \in FaultCodes, on \in BOOLEAN :
            image' = switch(image, {row \in Rows : row.code = code}, on) /\ ops' = ops + 1
      BY <2>2 DEF set_fault_by_code, Call
    <3>2. {row \in Rows : row.code = code} \in SUBSET Rows
      OBVIOUS
    <3>3. QED
      BY <3>1, <3>2
  <2>3. CASE set_fault_site
    <3>1. PICK site \in FaultSites, on \in BOOLEAN :
            /\ image' = switch(image, {row \in FaultRows : macon_fault_site_id(row) = site}, on)
            /\ ops' = ops + 1
      BY <2>3 DEF set_fault_site, Call
    <3>2. {row \in FaultRows : macon_fault_site_id(row) = site} \in SUBSET Rows
      BY DEF FaultRows
    <3>3. QED
      BY <3>1, <3>2
  <2>4. QED
    BY <2>1, <2>2, <2>3
<1>4. QED
  BY <1>1, <1>2, <1>3, CallType

\* Zeroing the registers of faults keeps the run indicator only.
LEMMA Zeroing ==
  ASSUME NEW img \in Image, NEW new,
         new = [r \in DOMAIN img \cup FaultRegisters |->
                  IF r \in FaultRegisters THEN kept(r, value_of(img, r)) ELSE img[r]]
  PROVE  /\ new \in Image
         /\ \A r \in FaultRegisters : value_of(new, r) = kept(r, value_of(img, r))
         /\ \A r : r \notin FaultRegisters => Same(img, new, r)
<1>1. FaultRegisters \subseteq Registers
  BY StateAssumption DEF FaultRegisters
<1>2. \A r : kept(r, value_of(img, r)) \in Byte
  BY BitsOfByte DEF kept
<1> HIDE DEF FaultRegisters
<1>3. new \in [DOMAIN img \cup FaultRegisters -> Byte]
  BY <1>2, ImageIs
<1>4. new \in Image
  BY <1>1, <1>3, ImageIs DEF Image
<1>5. QED
  BY <1>4 DEF Same, value_of

\* The baseline adds zeros.
LEMMA Baseline ==
  ASSUME NEW img \in Image
  PROVE  /\ with_baseline(img) \in Image
         /\ DOMAIN img \subseteq DOMAIN with_baseline(img)
         /\ \A r : value_of(with_baseline(img), r) = value_of(img, r)
<1> DEFINE added == Registers \cap UNION {reg_range(w) : w \in KNOWN_WINDOWS}
           new == with_baseline(img)
<1>1. new = [r \in DOMAIN img \cup added |-> value_of(img, r)]
  BY DEF with_baseline
<1>2. added \subseteq Registers
  OBVIOUS
<1> HIDE DEF added, new
<1>3. new \in [DOMAIN img \cup added -> Byte]
  BY <1>1, ValueType
<1>4. DOMAIN new = DOMAIN img \cup added /\ \A r \in DOMAIN new : new[r] = value_of(img, r)
  BY <1>1
<1>5. new \in Image
  BY <1>2, <1>3, ImageIs DEF Image
<1>6. QED
  BY <1>4, <1>5 DEF value_of, new

\* What is ingested are bytes.
LEMMA Ingesting ==
  ASSUME NEW img \in Image, NEW base \in Nat, NEW bytes \in Seq(Byte)
  PROVE  /\ ingest_bytes(img, base, bytes) \in Image
         /\ Len(bytes) = 0 => ingest_bytes(img, base, bytes) = img
<1> DEFINE covered == (base .. base + Len(bytes) - 1) \cap Registers
           new == ingest_bytes(img, base, bytes)
<1>1. new = [r \in DOMAIN img \cup covered |->
               IF r \in covered THEN bytes[r - base + 1] ELSE img[r]]
  BY DEF ingest_bytes
<1>2. \A r \in covered : bytes[r - base + 1] \in Byte
  <2>1. \A r \in covered : r - base + 1 \in 1 .. Len(bytes)
    OBVIOUS
  <2>2. QED
    BY <2>1
<1>3. covered \subseteq Registers
  OBVIOUS
<1>4. Len(bytes) = 0 => covered = {}
  OBVIOUS
<1> HIDE DEF covered, new
<1>5. new \in [DOMAIN img \cup covered -> Byte]
  BY <1>1, <1>2, ImageIs
<1>6. new \in Image
  BY <1>3, <1>5, ImageIs DEF Image
<1>7. ASSUME Len(bytes) = 0 PROVE new = img
  <2>1. new = [r \in DOMAIN img |-> img[r]]
    BY <1>1, <1>4, <1>7
  <2>2. QED
    BY <2>1, ImageIs
<1>8. QED
  BY <1>6, <1>7 DEF new

LEMMA LowBytes ==
  ASSUME NEW regs \in Seq(Word)
  PROVE  low_bytes(regs) \in Seq(Byte) /\ Len(low_bytes(regs)) = Len(regs)
<1>1. \A i \in 1 .. Len(regs) : regs[i] \in Int
  <2>1. \A v \in Word : v \in Int
    BY WordBytes
  <2>2. QED
    BY <2>1
<1>2. \A i \in 1 .. Len(regs) : regs[i] % 256 \in Byte
  BY <1>1, ByteOfInt
<1>3. low_bytes(regs) = [i \in 1 .. Len(regs) |-> regs[i] % 256]
  BY DEF low_bytes
<1>4. QED
  BY <1>2, <1>3

LEMMA WholeType ==
  ASSUME ImageInv,
         clear_faults \/ clear \/ fill_baseline \/ ingest \/ write \/ set_register
  PROVE  ImageInv'
<1>0. image \in Image
  BY DEF ImageInv
<1>1. Ready /\ ops' = ops + 1
  BY DEF clear_faults, clear, fill_baseline, ingest, write, set_register, Call
<1>2. CASE clear_faults
  BY <1>0, <1>1, <1>2, Zeroing, CallType DEF clear_faults
<1>3. CASE clear
  BY <1>1, <1>3, EmptyIsImage, CallType DEF clear
<1>4. CASE fill_baseline
  BY <1>0, <1>1, <1>4, Baseline, CallType DEF fill_baseline
<1>5. CASE ingest
  <2>1. PICK c \in Ingests : image' = ingest_bytes(image, c[1], low_bytes(c[2]))
    BY <1>5 DEF ingest
  <2>2. c[1] \in Nat /\ low_bytes(c[2]) \in Seq(Byte)
    BY ImageCallsAssumption, LowBytes, WordBytes
  <2>3. QED
    BY <1>0, <1>1, <2>1, <2>2, Ingesting, CallType
<1>6. CASE write
  <2>1. PICK c \in Writes : image' = apply_write(image, c[1], c[2])
    BY <1>6 DEF write
  <2>2. c[1] \in Nat /\ c[2] \in Seq(Byte)
    BY ImageCallsAssumption, WordBytes
  <2>3. CASE is_writable(c[1], c[2])
    BY <1>0, <1>1, <2>1, <2>2, <2>3, WriteStores, CallType
  <2>4. CASE ~ is_writable(c[1], c[2])
    BY <1>0, <1>1, <2>1, <2>4, CallType DEF apply_write
  <2>5. QED
    BY <2>3, <2>4
<1>7. CASE set_register
  <2>1. PICK c \in Pokes : image' = put(image, c[1], c[2]) \/ image' = image
    BY <1>7 DEF set_register
  <2>2. c[2] \in Int
    BY ImageCallsAssumption, WordBytes
  <2>3. QED
    BY <1>0, <1>1, <2>1, <2>2, PutType, CallType
<1>8. QED
  BY <1>2, <1>3, <1>4, <1>5, <1>6, <1>7

LEMMA TypeStep == ImageInv /\ [Next]_vars => ImageInv'
<1>1. ASSUME ImageInv, UNCHANGED vars PROVE ImageInv'
  BY <1>1 DEF ImageInv, vars
<1>2. QED
  BY <1>1, NumberType, FlagType, ModeType, FaultType, WholeType DEF Next

LEMMA TypeInit == Init => ImageInv
BY EmptyIsImage, ImageCallsAssumption DEF Init, ImageInv

\* Whatever is set, ingested, written or poked, the image holds bytes at its
\* own registers (MaconImage::put and the stores that bypass it).
THEOREM TypesOfImage == Spec => []TypeOK
<1>1. ImageInv => TypeOK
  BY ImageIs DEF ImageInv, TypeOK
<1>2. QED
  BY <1>1, TypeInit, TypeStep, PTL DEF Spec
-----------------------------------------------------------------------------
(* Writes are served back *)

\* A read serves at an address the value of the register of the address.
LEMMA Served ==
  ASSUME NEW img, NEW w \in KNOWN_WINDOWS, NEW a \in wire_range(w)
  PROVE  ServedAt(img, a) = value_of(img, w.reg_base + (a - w.field_a - w.prefix_len))
<1> DEFINE i == a - w.field_a + 1
<1>1. /\ w.field_a \in Nat /\ w.field_b \in Nat
      /\ w.reg_base \in Nat /\ w.prefix_len \in Nat
  BY WindowType
<1>2. a \in Int /\ a >= w.field_a + w.prefix_len /\ a <= w.field_a + w.field_b - 1
  BY <1>1 DEF wire_range
<1>3. i \in 1 .. w.field_b /\ i > w.prefix_len
  BY <1>1, <1>2
<1>4. (CHOOSE v \in KNOWN_WINDOWS : a \in wire_range(v)) = w
  BY RangesAssumption
<1>5. ServedAt(img, a) = read_window(img, w.field_a, w.field_b)[i]
  BY <1>4 DEF ServedAt
<1>6. read_window(img, w.field_a, w.field_b) =
        [k \in 1 .. w.field_b |-> IF k <= w.prefix_len THEN 0
                                  ELSE value_of(img, w.reg_base + k - 1 - w.prefix_len)]
  BY FindWindow DEF read_window
<1>7. w.reg_base + i - 1 - w.prefix_len = w.reg_base + (a - w.field_a - w.prefix_len)
  BY <1>1, <1>2
<1>8. ~ (i <= w.prefix_len)
  BY <1>1, <1>2
<1> HIDE DEF i
<1>9. read_window(img, w.field_a, w.field_b)[i] =
        value_of(img, w.reg_base + i - 1 - w.prefix_len)
  BY <1>3, <1>6, <1>8
<1>10. QED
  BY <1>5, <1>7, <1>9

\* What a read serves after a command was taken.
LEMMA ServedAfter ==
  ASSUME NEW img \in Image, NEW addr \in Nat, NEW data \in Seq(Byte), is_writable(addr, data),
         NEW w \in KNOWN_WINDOWS, NEW a \in wire_range(w)
  PROVE  ServedAt(apply_write(img, addr, data), a) =
           IF a \in addr .. addr + Len(data) - 1 THEN data[a - addr + 1] ELSE ServedAt(img, a)
<1> DEFINE r == w.reg_base + (a - w.field_a - w.prefix_len)
           new == apply_write(img, addr, data)
<1>1. ServedAt(new, a) = value_of(new, r) /\ ServedAt(img, a) = value_of(img, r)
  BY Served
<1>2. a \in Nat /\ r \in reg_range(w)
  BY RegisterOfAddress
<1>3. /\ \A i \in 1 .. Len(data) : \A q \in registers_at(addr + i - 1) :
           value_of(new, q) = data[i]
      /\ \A q : (\A i \in 1 .. Len(data) : q \notin registers_at(addr + i - 1))
                  => Same(img, new, q)
  BY WriteStores
<1>4. r = w.reg_base + (a - w.field_a - w.prefix_len)
  OBVIOUS
<1> HIDE DEF new, r
<1>5. CASE a \in addr .. addr + Len(data) - 1
  <2> DEFINE i == a - addr + 1
  <2>1. i \in 1 .. Len(data) /\ addr + i - 1 = a
    BY <1>2, <1>5
  <2>2. registers_at(addr + i - 1) # {}
    BY <2>1 DEF is_writable
  <2>3. registers_at(a) # {}
    BY <2>1, <2>2
  <2>4. PICK q \in registers_at(a) : TRUE
    BY <2>3
  <2>5. PICK v \in KNOWN_WINDOWS :
          a \in wire_range(v) /\ q = v.reg_base + (a - v.field_a - v.prefix_len)
    BY <2>4 DEF registers_at
  <2>6. v = w
    BY <2>5, RangesAssumption
  <2>7. q = r
    BY <1>4, <2>5, <2>6
  <2>8. r \in registers_at(addr + i - 1)
    BY <2>1, <2>4, <2>7
  <2> HIDE DEF i
  <2>9. value_of(new, r) = data[i]
    BY <1>3, <2>1, <2>8
  <2>10. QED
    BY <1>1, <1>5, <2>9 DEF i, new
<1>6. CASE a \notin addr .. addr + Len(data) - 1
  <2>1. ASSUME NEW i \in 1 .. Len(data), r \in registers_at(addr + i - 1) PROVE FALSE
    <3> DEFINE b == addr + i - 1
    <3>0. r \in registers_at(b)
      BY <2>1
    <3> HIDE DEF b
    <3>1. PICK v \in KNOWN_WINDOWS :
            b \in wire_range(v) /\ r = v.reg_base + (b - v.field_a - v.prefix_len)
      BY <3>0 DEF registers_at
    <3>2. r \in reg_range(v)
      BY <3>1, RegisterOfAddress
    <3>3. v = w
      BY <1>2, <3>2, RangesAssumption
    <3>4. w.field_a \in Nat /\ w.reg_base \in Nat /\ w.prefix_len \in Nat
      BY WindowType
    <3>5. b \in Nat
      BY <3>1, RegisterOfAddress
    <3>6. b = a
      BY <1>2, <1>4, <3>1, <3>3, <3>4, <3>5
    <3>7. QED
      BY <1>6, <3>6 DEF b
  <2>2. Same(img, new, r)
    BY <1>3, <2>1
  <2>3. QED
    BY <1>1, <1>6, <2>2 DEF Same, new
<1>7. QED
  BY <1>5, <1>6

WriteServed ==
  op'.name = "apply_write" =>
    \A w \in KNOWN_WINDOWS : \A a \in wire_range(w) :
      ServedAt(image', a) =
        IF ret' /\ a \in op'.base .. op'.base + Len(op'.data) - 1
        THEN op'.data[a - op'.base + 1] ELSE ServedAt(image, a)

\* No other call is taken for a command.
LEMMA OtherCalls ==
  ASSUME \/ set_temp \/ set_value \/ macon_field_set \/ set_flag \/ set_working_mode
         \/ set_operating_direction \/ set_fault \/ set_fault_by_code \/ set_fault_site
         \/ clear_faults \/ clear \/ fill_baseline \/ ingest \/ set_register
  PROVE  op'.name # "apply_write"
<1>1. CASE set_temp \/ set_value \/ macon_field_set
  <2>1. op'.name = "set_number"
    BY <1>1 DEF set_temp, set_value, macon_field_set, StoreNumber, Refuse, Call
  <2>2. QED
    BY <2>1
<1>2. CASE set_flag \/ set_working_mode \/ set_operating_direction
  <2>1. \/ \E fl, v : op' = [name |-> "set_flag", flag |-> fl, value |-> v]
        \/ \E mode : op' = [name |-> "set_working_mode", mode |-> mode]
        \/ \E mode : op' = [name |-> "set_operating_direction", mode |-> mode]
    <3>1. CASE set_flag
      BY <3>1, Zenon DEF set_flag, Refuse, Call
    <3>2. CASE set_working_mode
      BY <3>2, Zenon DEF set_working_mode, Refuse, Call
    <3>3. CASE set_operating_direction
      BY <3>3, Zenon DEF set_operating_direction, Refuse, Call
    <3>4. QED
      BY <1>2, <3>1, <3>2, <3>3
  <2>2. QED
    BY <2>1
<1>3. CASE set_fault \/ set_fault_by_code \/ set_fault_site \/ clear_faults
  <2>1. \/ \E id, on : op' = [name |-> "set_fault", id |-> id, on |-> on]
        \/ \E code, on : op' = [name |-> "set_fault_by_code", code |-> code, on |-> on]
        \/ \E site, on : op' = [name |-> "set_fault_site", site |-> site, on |-> on]
        \/ op' = [name |-> "clear_faults"]
    <3>1. CASE set_fault
      BY <3>1, Zenon DEF set_fault, Call
    <3>2. CASE set_fault_by_code
      BY <3>2, Zenon DEF set_fault_by_code, Call
    <3>3. CASE set_fault_site
      BY <3>3, Zenon DEF set_fault_site, Call
    <3>4. CASE clear_faults
      BY <3>4, Zenon DEF clear_faults, Call
    <3>5. QED
      BY <1>3, <3>1, <3>2, <3>3, <3>4
  <2>2. QED
    BY <2>1
<1>4. CASE clear \/ fill_baseline \/ ingest \/ set_register
  <2>1. op'.name \in {"clear", "fill_baseline", "ingest", "set_register"}
    BY <1>4 DEF clear, fill_baseline, ingest, set_register, Call
  <2>2. QED
    BY <2>1
<1>5. QED
  BY <1>1, <1>2, <1>3, <1>4

LEMMA WriteIsServed ==
  ASSUME ImageInv, write
  PROVE  WriteServed
<1>1. PICK c \in Writes :
        /\ image' = apply_write(image, c[1], c[2])
        /\ op' = [name |-> "apply_write", base |-> c[1], data |-> c[2]]
        /\ ret' = is_writable(c[1], c[2])
  BY DEF write, Call
<1>2. op'.base = c[1] /\ op'.data = c[2]
  BY <1>1
<1>3. c[1] \in Nat /\ c[2] \in Seq(Byte) /\ image \in Image
  BY ImageCallsAssumption, WordBytes DEF ImageInv
<1>4. CASE is_writable(c[1], c[2])
  <2>1. \A w \in KNOWN_WINDOWS : \A a \in wire_range(w) :
          ServedAt(image', a) =
            IF a \in c[1] .. c[1] + Len(c[2]) - 1
            THEN c[2][a - c[1] + 1] ELSE ServedAt(image, a)
    BY <1>1, <1>3, <1>4, ServedAfter
  <2>2. ret'
    BY <1>1, <1>4
  <2>3. QED
    BY <1>2, <2>1, <2>2 DEF WriteServed
<1>5. CASE ~ is_writable(c[1], c[2])
  <2>1. image' = image /\ ~ ret'
    BY <1>1, <1>5 DEF apply_write
  <2>2. QED
    BY <2>1 DEF WriteServed
<1>6. QED
  BY <1>4, <1>5

\* A command is stored as a whole or not at all, and what was stored is what
\* the next read of its window serves (MaconImage::apply_write, read_window).
THEOREM WritesAreServed == Spec => WritesAsServed
<1>1. ImageInv /\ [Next]_vars => [WriteServed]_vars
  <2> SUFFICES ASSUME ImageInv, Next PROVE WriteServed
    OBVIOUS
  <2>1. CASE write
    BY <2>1, WriteIsServed
  <2>2. CASE ~ write
    BY <2>2, OtherCalls DEF Next, WriteServed
  <2>3. QED
    BY <2>1, <2>2
<1>2. QED
  BY <1>1, TypeInit, TypeStep, PTL DEF Spec, WritesAsServed, WriteServed
-----------------------------------------------------------------------------
(* Faults are reported *)

\* One of the low four bits of a byte.
LEMMA LowBits ==
  ASSUME NEW v \in Byte, NEW n \in 0 .. 3, bit_is_set(v, n)
  PROVE  v % 16 # 0
<1>1. v \in 0 .. 255
  BY DEF Byte
<1>2. n = 0 \/ n = 1 \/ n = 2 \/ n = 3
  OBVIOUS
<1>3. (v \div 1) % 2 = 1 \/ (v \div 2) % 2 = 1 \/ (v \div 4) % 2 = 1 \/ (v \div 8) % 2 = 1
  <2>1. bit_is_set(v, 0) \/ bit_is_set(v, 1) \/ bit_is_set(v, 2) \/ bit_is_set(v, 3)
    BY <1>2, Zenon
  <2>2. QED
    BY <2>1, Masks DEF bit_is_set
<1>4. ASSUME v % 16 = 0
      PROVE  /\ (v \div 1) % 2 = 0 /\ (v \div 2) % 2 = 0
             /\ (v \div 4) % 2 = 0 /\ (v \div 8) % 2 = 0
  <2> DEFINE q == v \div 16
  <2>1. q \in Int /\ v = 16 * q
    BY <1>1, <1>4
  <2> HIDE DEF q
  <2>2. v \div 1 = 2 * (8 * q) /\ v \div 2 = 2 * (4 * q)
        /\ v \div 4 = 2 * (2 * q) /\ v \div 8 = 2 * q
    BY <2>1
  <2>3. QED
    BY <2>1, <2>2
<1>5. QED
  BY <1>3, <1>4

LEMMA Reported == ImageInv => FaultIsReported
<1> SUFFICES ASSUME ImageInv, State.faults_valid, macon_has_fault(image)
             PROVE  decode_operation(State) = "Fault"
  BY DEF FaultIsReported
<1>1. PICK row \in FaultRows : lit(image, row)
  BY DEF macon_has_fault
<1> DEFINE v == value_of(image, row.reg)
<1>2. v \in Byte /\ bit_is_set(v, row.bit)
  BY <1>1, ValueType DEF ImageInv, lit
<1>3. row \in Rows /\ row.bit \in 0 .. 7 /\ row.reg \in FaultRegisters
  BY RowType DEF FaultRows
<1>4. v # 0
  BY <1>2, <1>3, NoBitOfZero
<1>5. /\ State.fault_run = value_of(image, REG_FAULT_RUNSTATE)
      /\ State.faults_lit = {r \in REG_FAULTS : value_of(image, r) # 0}
  BY DEF State, decode_state
<1>6. State.faults_lit # {} \/ run_faults(State.fault_run)
  <2>1. CASE row.reg \in REG_FAULTS
    BY <1>4, <1>5, <2>1
  <2>2. CASE row.reg = REG_FAULT_RUNSTATE
    <3>1. row.bit \in 0 .. 3
      BY <1>3, <2>2, StateAssumption
    <3> HIDE DEF v
    <3>2. v % 16 # 0
      BY <1>2, <3>1, LowBits
    <3>3. QED
      BY <1>5, <2>2, <3>2 DEF run_faults, v
  <2>3. QED
    BY <1>3, <2>1, <2>2 DEF FaultRegisters
<1> HIDE DEF State
<1>7. QED
  BY <1>6 DEF decode_operation

\* A unit with a fault is shown as faulty, whatever else it does, once all its
\* fault registers are known (decode_operation, macon_has_fault).
THEOREM FaultsAreReported == Spec => []FaultIsReported
BY Reported, TypeInit, TypeStep, PTL DEF Spec
-----------------------------------------------------------------------------
(* Numbers are read back *)

\* The five ways in which a field is stored and read.
LEMMA Ways ==
  ASSUME NEW f \in DOMAIN FieldMap
  PROVE  LET n == FieldMap[f] IN
         /\ n.kind \in Kinds
         /\ \/ n.kind = "SignedTemp" /\ n.read = "Signed"
            \/ n.kind = "Raw" /\ n.read = "Raw"
            \/ n.kind = "DivTen" /\ n.read = "TimesTen"
            \/ n.kind = "DivTen" /\ n.read = "Eev"
            \/ n.kind = "DivHundred" /\ n.read = "TimesHundred"
<1>1. FieldMap[f].kind \in Kinds
  BY StateAssumption
<1>2. <<FieldMap[f].kind, FieldMap[f].read>> \in
             {<<"SignedTemp", "Signed">>, <<"Raw", "Raw">>, <<"DivTen", "TimesTen">>,
              <<"DivTen", "Eev">>, <<"DivHundred", "TimesHundred">>}
  BY NumbersAssumption
<1>3. QED
  BY <1>1, <1>2

\* What is stored of a value, in units.
clamped(kind, v) ==
  LET raw == v \div Unit(kind)
  IN  CASE raw < Lowest(kind)  -> Lowest(kind)
        [] raw > Highest(kind) -> Highest(kind)
        [] OTHER               -> raw

\* Its units, its range, and division by them.
LEMMA Units ==
  ASSUME NEW kind \in Kinds
  PROVE  /\ Unit(kind) \in {1, 10, 100}
         /\ Lowest(kind) \in {-128, 0} /\ Highest(kind) \in {127, 255}
         /\ Lowest(kind) <= Highest(kind)
         /\ kind = "SignedTemp" <=> Lowest(kind) = -128
         /\ kind = "SignedTemp" <=> Highest(kind) = 127
BY DEF Unit, Lowest, Highest, Kinds

DividesWell(u, v) ==
  /\ v \div u \in Int
  /\ v % u = 0 => v = u * (v \div u)
  /\ \A k \in Int : v = u * k => v \div u = k /\ v % u = 0

LEMMA Division ==
  ASSUME NEW u \in {1, 10, 100}, NEW v \in Int
  PROVE  DividesWell(u, v)
<1> USE DEF DividesWell
<1>1. CASE u = 1
  BY <1>1
<1>2. CASE u = 10
  BY <1>2
<1>3. CASE u = 100
  BY <1>3
<1>4. QED
  BY <1>1, <1>2, <1>3

LEMMA Clamping ==
  ASSUME NEW kind \in Kinds, NEW v \in Int
  PROVE  /\ stored_byte(kind, v) = clamped(kind, v) % 256
         /\ clamped(kind, v) \in Lowest(kind) .. Highest(kind)
         /\ v \div Unit(kind) \in Lowest(kind) .. Highest(kind)
              => clamped(kind, v) = v \div Unit(kind)
<1>1. stored_byte(kind, v) = clamped(kind, v) % 256
  BY DEF stored_byte, clamped
<1> DEFINE raw == v \div Unit(kind)
           l == Lowest(kind)
           h == Highest(kind)
<1>2. raw \in Int /\ l \in Int /\ h \in Int /\ l <= h
  <2>1. DividesWell(Unit(kind), v)
    BY Units, Division, Zenon
  <2>2. QED
    BY <2>1, Units DEF DividesWell
<1>3. clamped(kind, v) = CASE raw < l -> l [] raw > h -> h [] OTHER -> raw
  BY DEF clamped
<1> HIDE DEF raw, l, h
<1>4. clamped(kind, v) \in l .. h /\ (raw \in l .. h => clamped(kind, v) = raw)
  BY <1>2, <1>3
<1>5. QED
  BY <1>1, <1>4 DEF raw, l, h

\* A byte of the range read back, but for valves beyond half its range.
LEMMA Readback ==
  /\ \A c \in 0 .. 255 : reading("Raw", c % 256) = c
  /\ \A c \in 0 .. 255 : reading("TimesTen", c % 256) = 10 * c
  /\ \A c \in 0 .. 255 : reading("TimesHundred", c % 256) = 100 * c
  /\ \A c \in 0 .. 127 : reading("Eev", c % 256) = 10 * c
  /\ \A c \in 128 .. 255 : reading("Eev", c % 256) = 0
<1>1. \A c \in 0 .. 255 : c % 256 = c
  OBVIOUS
<1>2. \A c \in 128 .. 255 : s8(c) = c - 256
  BY DEF s8
<1>3. \A c \in 0 .. 127 : s8(c) = c
  BY DEF s8
<1>4. \A c \in 0 .. 127 : reading("Eev", c % 256) = 10 * c
  BY <1>1, <1>3 DEF reading
<1>5. \A c \in 128 .. 255 : reading("Eev", c % 256) = 0
  BY <1>1, <1>2 DEF reading
<1>6. QED
  BY <1>1, <1>4, <1>5 DEF reading

\* A value stored exactly reads back if a reading can show it, any other does
\* not read back, and a strict setter stores exactly.
LEMMA NumberReadBack ==
  ASSUME NEW f \in DOMAIN FieldMap, NEW v \in Int,
         NEW kind, kind = FieldMap[f].kind, NEW read, read = FieldMap[f].read
  PROVE  /\ told_exact(kind, v) /\ v \in ShownBy[f] => reading(read, stored_byte(kind, v)) = v
         /\ ~ told_exact(kind, v) => reading(read, stored_byte(kind, v)) # v
         /\ in_range(f, v) => told_exact(kind, v)
<1> DEFINE u == Unit(kind)
           l == Lowest(kind)
           h == Highest(kind)
           c == clamped(kind, v)
           shown == reading(read, stored_byte(kind, v))
<1>1. /\ kind \in Kinds
      /\ \/ kind = "SignedTemp" /\ read = "Signed"
         \/ kind = "Raw" /\ read = "Raw"
         \/ kind = "DivTen" /\ read = "TimesTen"
         \/ kind = "DivTen" /\ read = "Eev"
         \/ kind = "DivHundred" /\ read = "TimesHundred"
  BY Ways
<1>2. /\ u \in {1, 10, 100} /\ l \in {-128, 0} /\ h \in {127, 255} /\ l <= h
      /\ kind = "SignedTemp" => u = 1 /\ l = -128 /\ h = 127
      /\ kind # "SignedTemp" => l = 0 /\ h = 255
      /\ kind = "Raw" => u = 1
      /\ kind = "DivTen" => u = 10
      /\ kind = "DivHundred" => u = 100
  BY <1>1 DEF Unit, Lowest, Highest, Kinds
<1>3. /\ stored_byte(kind, v) = c % 256 /\ c \in l .. h
      /\ v \div u \in l .. h => c = v \div u
  BY <1>1, Clamping
<1>4. /\ v \div u \in Int
      /\ v % u = 0 => v = u * (v \div u)
      /\ \A k \in Int : v = u * k => v \div u = k /\ v % u = 0
  <2>1. DividesWell(u, v)
    BY <1>2, Division, Zenon
  <2>2. QED
    BY <2>1 DEF DividesWell
<1>5. told_exact(kind, v) <=> v % u = 0 /\ v \div u \in l .. h
  BY DEF told_exact
<1> HIDE DEF u, l, h, c
<1>6. shown = reading(read, c % 256)
  BY <1>3, Zenon
<1> HIDE DEF shown
<1>7. shown = u * c \/ (read = "Eev" /\ c \in 128 .. 255 /\ shown = 0)
  <2>1. CASE kind = "SignedTemp" /\ read = "Signed"
    <3>1. c \in -128 .. 127
      BY <1>2, <1>3, <2>1
    <3>2. reading("Signed", c % 256) = c
      <4>1. reading("Signed", c % 256) = s8(c % 256)
        BY DEF reading
      <4>2. s8(c % 256) = c
        BY <3>1 DEF s8
      <4>3. QED
        BY <4>1, <4>2
    <3>3. shown = reading("Signed", c % 256)
      BY <1>6, <2>1
    <3>4. u * c = c
      BY <1>2, <2>1, <3>1
    <3>5. QED
      BY <3>2, <3>3, <3>4
  <2>2. CASE kind = "Raw" /\ read = "Raw"
    <3>1. c \in 0 .. 255
      BY <1>2, <1>3, <2>2
    <3>2. reading("Raw", c % 256) = c
      BY <3>1, Readback
    <3>3. shown = reading("Raw", c % 256)
      BY <1>6, <2>2
    <3>4. u * c = c
      BY <1>2, <2>2, <3>1
    <3>5. QED
      BY <3>2, <3>3, <3>4
  <2>3. CASE kind = "DivTen" /\ read = "TimesTen"
    <3>1. c \in 0 .. 255
      BY <1>2, <1>3, <2>3
    <3>2. reading("TimesTen", c % 256) = 10 * c
      BY <3>1, Readback
    <3>3. shown = reading("TimesTen", c % 256)
      BY <1>6, <2>3
    <3>4. u * c = 10 * c
      BY <1>2, <2>3, <3>1
    <3>5. QED
      BY <3>2, <3>3, <3>4
  <2>4. CASE kind = "DivTen" /\ read = "Eev"
    <3>1. c \in 0 .. 127 \/ c \in 128 .. 255
      BY <1>2, <1>3, <2>4
    <3>2. /\ c \in 0 .. 127 => reading("Eev", c % 256) = 10 * c
          /\ c \in 128 .. 255 => reading("Eev", c % 256) = 0
      BY Readback
    <3>3. shown = reading("Eev", c % 256)
      BY <1>6, <2>4
    <3>4. u * c = 10 * c
      BY <1>2, <2>4, <3>1
    <3>5. QED
      BY <2>4, <3>1, <3>2, <3>3, <3>4
  <2>5. CASE kind = "DivHundred" /\ read = "TimesHundred"
    <3>1. c \in 0 .. 255
      BY <1>2, <1>3, <2>5
    <3>2. reading("TimesHundred", c % 256) = 100 * c
      BY <3>1, Readback
    <3>3. shown = reading("TimesHundred", c % 256)
      BY <1>6, <2>5
    <3>4. u * c = 100 * c
      BY <1>2, <2>5, <3>1
    <3>5. QED
      BY <3>2, <3>3, <3>4
  <2>6. QED
    BY <1>1, <2>1, <2>2, <2>3, <2>4, <2>5
<1>8. ASSUME told_exact(kind, v), v \in ShownBy[f] PROVE shown = v
  <2>1. v = u * c /\ c \in l .. h
    BY <1>3, <1>4, <1>5, <1>8
  <2>2. CASE shown = u * c
    BY <2>1, <2>2
  <2>3. CASE read = "Eev" /\ c \in 128 .. 255
    <3>1. PICK b \in Byte : v = reading("Eev", b)
      BY <1>8, <2>3 DEF ShownBy
    <3>2. b \in 0 .. 255
      BY DEF Byte
    <3>3. b % 256 = b /\ (b \in 0 .. 127 \/ b \in 128 .. 255)
      BY <3>2
    <3>4. (v = 10 * b /\ b \in 0 .. 127) \/ v = 0
      BY <3>1, <3>3, Readback
    <3>5. v = 10 * c
      BY <1>1, <1>2, <2>1, <2>3
    <3>6. QED
      BY <2>3, <3>4, <3>5
  <2>4. QED
    BY <1>7, <2>2, <2>3
<1>9. ASSUME shown = v PROVE told_exact(kind, v)
  <2>1. CASE v = u * c
    <3>1. c \in Int
      BY <1>2, <1>3
    <3>2. v \div u = c /\ v % u = 0
      BY <1>4, <2>1, <3>1
    <3>3. QED
      BY <1>3, <1>5, <3>2
  <2>2. CASE read = "Eev" /\ v = 0
    <3>1. v = u * 0 /\ l = 0 /\ h = 255
      BY <1>1, <1>2, <2>2
    <3>2. v \div u = 0 /\ v % u = 0
      BY <1>4, <3>1
    <3>3. QED
      BY <1>5, <3>1, <3>2
  <2>3. QED
    BY <1>7, <1>9, <2>1, <2>2
<1>10. ASSUME in_range(f, v) PROVE told_exact(kind, v)
  <2> DEFINE n == FieldMap[f]
  <2>1. /\ n.min \in Int /\ n.max \in Int /\ n.step \in Nat \ {0}
    BY StateAssumption
  <2>2. /\ n.min >= u * l /\ n.max <= u * h /\ n.step % u = 0
    BY NumbersAssumption DEF u, l, h
  <2>3. v >= n.min /\ v <= n.max /\ v % n.step = 0
    BY <1>10, <2>1 DEF in_range
  <2> HIDE DEF n
  <2>4. PICK k \in Int : v = n.step * k
    <3>1. v = n.step * (v \div n.step) /\ v \div n.step \in Int
      BY <2>1, <2>3
    <3>2. QED
      BY <3>1
  <2>5. PICK m \in Int : n.step = u * m
    <3>1. n.step \in Int
      BY <2>1
    <3>2. n.step = u * (n.step \div u) /\ n.step \div u \in Int
      <4>1. DividesWell(u, n.step)
        BY <1>2, <3>1, Division, Zenon
      <4>2. QED
        BY <2>2, <4>1 DEF DividesWell
    <3>3. QED
      BY <3>2
  <2>6. v = u * (m * k) /\ m * k \in Int
    BY <1>2, <2>4, <2>5
  <2>7. v \div u = m * k /\ v % u = 0
    BY <1>4, <2>6
  <2>8. u * (v \div u) >= u * l /\ u * (v \div u) <= u * h
    BY <1>2, <2>1, <2>2, <2>3, <2>6, <2>7
  <2>9. v \div u \in l .. h
    BY <1>2, <1>4, <2>8
  <2>10. QED
    BY <1>5, <2>7, <2>9
<1>11. QED
  BY <1>8, <1>9, <1>10 DEF shown
-----------------------------------------------------------------------------
(* The image is a panel *)

\* One register is put, the others are as they were.
HasPut(img, r, b, new) ==
  /\ DOMAIN new = DOMAIN img \cup {r} /\ new[r] = b
  /\ \A q : q # r => Same(img, new, q)

LEMMA Putting ==
  ASSUME NEW img \in Image, NEW r \in Registers, NEW b \in Byte
  PROVE  HasPut(img, r, b, put(img, r, b))
<1> DEFINE new == put(img, r, b)
<1>1. b % 256 = b
  BY ByteStays
<1>2. new = [q \in DOMAIN img \cup {r} |-> IF q = r THEN b ELSE img[q]]
  BY <1>1 DEF put
<1> HIDE DEF new
<1>3. DOMAIN new = DOMAIN img \cup {r}
  BY <1>2
<1>4. \A q \in DOMAIN new : new[q] = IF q = r THEN b ELSE img[q]
  BY <1>2
<1>5. \A q : q # r => Same(img, new, q)
  BY <1>3, <1>4 DEF Same, value_of
<1>6. HasPut(img, r, b, new)
  BY <1>3, <1>4, <1>5 DEF HasPut
<1>7. QED
  BY <1>6 DEF new

\* The register of a field holds nothing else.
LEMMA FieldAlone ==
  ASSUME NEW f \in DOMAIN FieldMap
  PROVE  /\ FieldMap[f].reg \in Registers
         /\ \A g \in DOMAIN FieldMap : g # f => FieldMap[g].reg # FieldMap[f].reg
         /\ \A fl \in DOMAIN FlagMap : FlagMap[fl].reg # FieldMap[f].reg
         /\ \A row \in Rows : row.reg # FieldMap[f].reg
         /\ FieldMap[f].reg \notin FaultRegisters
         /\ REG_WORKING_MODE # FieldMap[f].reg /\ REG_OPERATING_MODE # FieldMap[f].reg
<1>1. /\ FieldMap[f].reg \in Registers
      /\ \A g \in DOMAIN FieldMap : FieldMap[f].reg = FieldMap[g].reg => f = g
      /\ FieldMap[f].reg \notin FaultRegisters \cup {REG_WORKING_MODE, REG_OPERATING_MODE}
      /\ \A fl \in DOMAIN FlagMap : FieldMap[f].reg # FlagMap[fl].reg
  BY StateAssumption
<1>2. QED
  BY <1>1, RowType

\* What is shown of the rest when only the register of a field moves.
LEMMA RestOfField ==
  ASSUME NEW img, NEW new, NEW f \in DOMAIN FieldMap,
         \A q : q # FieldMap[f].reg => Same(img, new, q)
  PROVE  /\ decode_flags(new) = decode_flags(img)
         /\ SitesLit(new) = SitesLit(img)
         /\ decode_modes(new).mode = decode_modes(img).mode
         /\ decode_modes(new).working_mode = decode_modes(img).working_mode
<1>1. \A fl \in DOMAIN FlagMap : Same(img, new, FlagMap[fl].reg)
  BY FieldAlone
<1>2. \A row \in FaultRows : Same(img, new, row.reg)
  BY FieldAlone DEF FaultRows
<1>3. Same(img, new, REG_WORKING_MODE) /\ Same(img, new, REG_OPERATING_MODE)
  BY FieldAlone
<1>4. QED
  BY <1>1, <1>2, <1>3, FlagsKept, FaultsKept, ModesKept

\* The readings of an image.
LEMMA ReadingsOf ==
  ASSUME NEW img
  PROVE  /\ DOMAIN decode_readings(img) = {g \in DOMAIN FieldMap : FieldMap[g].reg \in DOMAIN img}
         /\ \A f \in DOMAIN decode_readings(img) :
              decode_readings(img)[f] = reading(FieldMap[f].read, img[FieldMap[f].reg])
BY DEF decode_readings

\* What is shown after a number was stored.
NumberStored(img, new, f, b) ==
  /\ DOMAIN decode_readings(new) = DOMAIN decode_readings(img) \cup {f}
  /\ \A g \in DOMAIN decode_readings(img) \ {f} :
       decode_readings(new)[g] = decode_readings(img)[g]
  /\ decode_readings(new)[f] = reading(FieldMap[f].read, b)
  /\ decode_flags(new) = decode_flags(img)
  /\ SitesLit(new) = SitesLit(img)
  /\ decode_modes(new).mode = decode_modes(img).mode
  /\ decode_modes(new).working_mode = decode_modes(img).working_mode

LEMMA NumberShown ==
  ASSUME NEW img, NEW new, NEW f \in DOMAIN FieldMap, NEW b,
         HasPut(img, FieldMap[f].reg, b, new)
  PROVE  NumberStored(img, new, f, b)
<1> DEFINE r == FieldMap[f].reg
<1>3. \A g \in DOMAIN FieldMap : g # f => FieldMap[g].reg # r
  BY FieldAlone
<1>5. /\ DOMAIN new = DOMAIN img \cup {r} /\ new[r] = b
      /\ \A q : q # r => Same(img, new, q)
  BY DEF HasPut
<1>6. /\ decode_flags(new) = decode_flags(img)
      /\ SitesLit(new) = SitesLit(img)
      /\ decode_modes(new).mode = decode_modes(img).mode
      /\ decode_modes(new).working_mode = decode_modes(img).working_mode
  BY <1>5, RestOfField
<1> HIDE DEF r
<1>7. r = FieldMap[f].reg
  BY DEF r
<1>8. DOMAIN decode_readings(new) = DOMAIN decode_readings(img) \cup {f}
  <2>1. \A g \in DOMAIN FieldMap :
          FieldMap[g].reg \in DOMAIN new <=> FieldMap[g].reg \in DOMAIN img \/ g = f
    BY <1>3, <1>5, <1>7
  <2>2. QED
    BY <2>1, ReadingsOf
<1>9. decode_readings(new)[f] = reading(FieldMap[f].read, b)
  BY <1>5, <1>7, <1>8, ReadingsOf
<1>10. \A g \in DOMAIN decode_readings(img) \ {f} :
         decode_readings(new)[g] = decode_readings(img)[g]
  <2> TAKE g \in DOMAIN decode_readings(img) \ {f}
  <2>1. g \in DOMAIN FieldMap /\ FieldMap[g].reg \in DOMAIN img /\ FieldMap[g].reg # r
    BY <1>3, ReadingsOf
  <2>2. FieldMap[g].reg \in DOMAIN new /\ new[FieldMap[g].reg] = img[FieldMap[g].reg]
    BY <1>5, <2>1 DEF Same, value_of
  <2>3. g \in DOMAIN decode_readings(new) /\ g \in DOMAIN decode_readings(img)
    BY <1>8
  <2>4. /\ decode_readings(new)[g] = reading(FieldMap[g].read, new[FieldMap[g].reg])
        /\ decode_readings(img)[g] = reading(FieldMap[g].read, img[FieldMap[g].reg])
    BY <2>3, ReadingsOf, Zenon
  <2>5. QED
    BY <2>2, <2>4, Zenon
<1>11. QED
  BY <1>6, <1>8, <1>9, <1>10 DEF NumberStored

\* Storing a number is setting a number of the panel.
LEMMA StoreImplements ==
  ASSUME ImageInv, NEW c \in NumberCalls, NEW strict \in BOOLEAN,
         strict => in_range(c[1], c[2]), StoreNumber(c[1], c[2], strict)
  PROVE  Panel!SetNumber
<1> DEFINE f == c[1]
           v == c[2]
           kind == FieldMap[f].kind
           b == stored_byte(kind, v)
<1>0. f \in DOMAIN FieldMap /\ v \in Int /\ image \in Image
  BY ImageCallsAssumption DEF ImageInv
<1>1. /\ image' = put(image, FieldMap[f].reg, b)
      /\ op' = [name |-> "set_number", field |-> f, value |-> v, strict |-> strict]
      /\ ret' = IF told_exact(kind, v) THEN "Ok" ELSE "Truncated"
  BY DEF StoreNumber, Call
<1>2. /\ op'.name = "set_number" /\ op'.field = f /\ op'.value = v /\ op'.strict = strict
  BY <1>1
<1>3. strict => in_range(f, v)
  OBVIOUS
<1> HIDE DEF f, v
<1>4. /\ told_exact(kind, v) /\ v \in ShownBy[f] => reading(FieldMap[f].read, b) = v
      /\ ~ told_exact(kind, v) => reading(FieldMap[f].read, b) # v
      /\ in_range(f, v) => told_exact(kind, v)
  BY <1>0, NumberReadBack
<1>5. NumberStored(image, image', f, b)
  <2>1. kind \in Kinds /\ FieldMap[f].reg \in Registers
    BY <1>0, StateAssumption
  <2>2. b \in Byte
    BY <1>0, <2>1, StoredByte
  <2> HIDE DEF b
  <2>3. HasPut(image, FieldMap[f].reg, b, image')
    BY <1>0, <1>1, <2>1, <2>2, Putting
  <2>4. QED
    BY <1>0, <2>3, NumberShown
<1> HIDE DEF kind, b
<1>6. CASE told_exact(kind, v)
  <2>1. ret' = "Ok"
    BY <1>1, <1>6
  <2>2. QED
    BY <1>2, <1>4, <1>5, <1>6, <2>1 DEF Panel!SetNumber, SitesLit, NumberStored
<1>7. CASE ~ told_exact(kind, v)
  <2>1. ret' = "Truncated" /\ ~ strict
    BY <1>1, <1>3, <1>4, <1>7
  <2>2. QED
    BY <1>2, <1>4, <1>5, <1>7, <2>1 DEF Panel!SetNumber, SitesLit, NumberStored
<1>8. QED
  BY <1>6, <1>7

\* A call that is refused changes nothing that is shown.
LEMMA NumbersImplement ==
  ASSUME ImageInv, set_temp \/ set_value \/ macon_field_set
  PROVE  Panel!SetNumber
<1>1. ASSUME NEW c \in NumberCalls, NEW strict \in BOOLEAN,
             strict => in_range(c[1], c[2]), StoreNumber(c[1], c[2], strict)
      PROVE  Panel!SetNumber
  BY <1>1, StoreImplements
<1>2. ASSUME NEW what, NEW result, Refuse(what, result),
             what.name = "set_number", result \notin {"Ok", "Truncated"}
      PROVE  Panel!SetNumber
  <2>1. image' = image /\ op'.name = "set_number" /\ ret' \notin {"Ok", "Truncated"}
    BY <1>2 DEF Refuse, Call
  <2>2. QED
    BY <2>1 DEF Panel!SetNumber
<1>3. CASE set_temp
  <2>1. PICK c \in NumberCalls :
          \/ StoreNumber(c[1], c[2], FALSE)
          \/ Refuse([name |-> "set_number", field |-> c[1], value |-> c[2], strict |-> FALSE],
                    "UnknownField")
    BY <1>3 DEF set_temp
  <2> DEFINE what == [name |-> "set_number", field |-> c[1], value |-> c[2], strict |-> FALSE]
  <2>2. what.name = "set_number"
    OBVIOUS
  <2> HIDE DEF what
  <2>3. StoreNumber(c[1], c[2], FALSE) \/ Refuse(what, "UnknownField")
    BY <2>1 DEF what
  <2>4. QED
    BY <1>1, <1>2, <2>2, <2>3
<1>4. CASE set_value
  BY <1>1, <1>4 DEF set_value
<1>5. CASE macon_field_set
  <2>1. PICK c \in NumberCalls :
          \/ in_range(c[1], c[2]) /\ StoreNumber(c[1], c[2], TRUE)
          \/ Refuse([name |-> "set_number", field |-> c[1], value |-> c[2], strict |-> TRUE],
                    "OutOfRange")
    BY <1>5 DEF macon_field_set
  <2> DEFINE what == [name |-> "set_number", field |-> c[1], value |-> c[2], strict |-> TRUE]
  <2>2. what.name = "set_number"
    OBVIOUS
  <2> HIDE DEF what
  <2>3. \/ in_range(c[1], c[2]) /\ StoreNumber(c[1], c[2], TRUE)
        \/ Refuse(what, "OutOfRange")
    BY <2>1 DEF what
  <2>4. QED
    BY <1>1, <1>2, <2>2, <2>3
<1>6. QED
  BY <1>3, <1>4, <1>5

\* Switching bits of faults and flags leaves the readings and the modes.
RestKept(img, new) ==
  /\ decode_readings(new) = decode_readings(img)
  /\ decode_modes(new).mode = decode_modes(img).mode
  /\ decode_modes(new).working_mode = decode_modes(img).working_mode

LEMMA Untouched ==
  ASSUME NEW img, NEW new, NEW places,
         \A p \in places : \/ p.reg \in FaultRegisters
                           \/ \E fl \in DOMAIN FlagMap : p.reg = FlagMap[fl].reg,
         \A r : r \notin {p.reg : p \in places} => Same(img, new, r)
  PROVE  RestKept(img, new)
<1> DEFINE regs == {p.reg : p \in places}
<1>1. \A r \in regs : r \in FaultRegisters \/ \E fl \in DOMAIN FlagMap : r = FlagMap[fl].reg
  OBVIOUS
<1>2. \A r : r \notin regs => Same(img, new, r)
  OBVIOUS
<1> HIDE DEF regs
<1>3. \A f \in DOMAIN FieldMap : FieldMap[f].reg \notin regs
  BY <1>1, FieldAlone
<1>4. REG_WORKING_MODE \notin regs /\ REG_OPERATING_MODE \notin regs
  <2>1. \A fl \in DOMAIN FlagMap :
          FlagMap[fl].reg # REG_WORKING_MODE /\ FlagMap[fl].reg # REG_OPERATING_MODE
    BY StateAssumption
  <2>2. REG_WORKING_MODE \notin FaultRegisters /\ REG_OPERATING_MODE \notin FaultRegisters
    BY StateAssumption
  <2>3. QED
    BY <1>1, <2>1, <2>2
<1>5. QED
  BY <1>2, <1>3, <1>4, ReadingsKept, ModesKept DEF RestKept

\* The flags whose bits are switched are switched.
LEMMA FlagsSwitched ==
  ASSUME NEW img, NEW new, NEW places, NEW on \in BOOLEAN, NEW S \in SUBSET DOMAIN FlagMap,
         HasSwitched(img, places, on, new),
         \A fl \in DOMAIN FlagMap :
           fl \in S <=> \E p \in places : p.reg = FlagMap[fl].reg /\ p.bit = FlagMap[fl].bit
  PROVE  decode_flags(new) = Panel!Switched(decode_flags(img), S, on)
<1>1. \A fl \in DOMAIN FlagMap : FlagMap[fl].bit \in 0 .. 7
  BY StateAssumption
<1>2. \A fl \in DOMAIN FlagMap :
        fl \in decode_flags(new) <=> IF fl \in S THEN on ELSE fl \in decode_flags(img)
  <2> TAKE fl \in DOMAIN FlagMap
  <2> DEFINE r == FlagMap[fl].reg
             n == FlagMap[fl].bit
  <2>1. bit_is_set(value_of(new, r), n)
          <=> IF \E p \in places : p.reg = r /\ p.bit = n THEN on
              ELSE bit_is_set(value_of(img, r), n)
    BY <1>1 DEF HasSwitched
  <2>2. /\ fl \in decode_flags(new) <=> bit_is_set(value_of(new, r), n)
        /\ fl \in decode_flags(img) <=> bit_is_set(value_of(img, r), n)
    BY DEF decode_flags
  <2>3. fl \in S <=> \E p \in places : p.reg = r /\ p.bit = n
    OBVIOUS
  <2> HIDE DEF r, n
  <2>4. QED
    BY <2>1, <2>2, <2>3, Zenon
<1>3. decode_flags(new) \subseteq DOMAIN FlagMap /\ decode_flags(img) \subseteq DOMAIN FlagMap
  BY DEF decode_flags
<1>4. QED
  BY <1>2, <1>3 DEF Panel!Switched

\* The sites of faults whose bits are switched are switched.
LEMMA FaultsSwitched ==
  ASSUME NEW img, NEW new, NEW places, NEW on \in BOOLEAN,
         NEW T \in SUBSET {macon_fault_site_id(row) : row \in FaultRows},
         HasSwitched(img, places, on, new),
         \A row \in FaultRows :
           macon_fault_site_id(row) \in T <=> \E p \in places : p.reg = row.reg /\ p.bit = row.bit
  PROVE  SitesLit(new) = Panel!Switched(SitesLit(img), T, on)
<1>1. \A row \in FaultRows : row.bit \in 0 .. 7
  BY RowType DEF FaultRows
<1>2. \A row \in FaultRows :
        lit(new, row) <=> IF macon_fault_site_id(row) \in T THEN on ELSE lit(img, row)
  <2> TAKE row \in FaultRows
  <2> DEFINE r == row.reg
             n == row.bit
  <2>1. bit_is_set(value_of(new, r), n)
          <=> IF \E p \in places : p.reg = r /\ p.bit = n THEN on
              ELSE bit_is_set(value_of(img, r), n)
    BY <1>1 DEF HasSwitched
  <2>2. /\ lit(new, row) <=> bit_is_set(value_of(new, r), n)
        /\ lit(img, row) <=> bit_is_set(value_of(img, r), n)
    BY DEF lit
  <2>3. macon_fault_site_id(row) \in T <=> \E p \in places : p.reg = r /\ p.bit = n
    OBVIOUS
  <2> HIDE DEF r, n
  <2>4. QED
    BY <2>1, <2>2, <2>3, Zenon
<1>3. \A s : /\ s \in SitesLit(new)
                  <=> \E row \in FaultRows : s = macon_fault_site_id(row) /\ lit(new, row)
             /\ s \in SitesLit(img)
                  <=> \E row \in FaultRows : s = macon_fault_site_id(row) /\ lit(img, row)
  BY DEF SitesLit, litRows
<1>4. \A s \in T : \E row \in FaultRows : s = macon_fault_site_id(row)
  OBVIOUS
<1>5. CASE on
  <2>1. \A s : s \in SitesLit(new) <=> s \in SitesLit(img) \/ s \in T
    BY <1>2, <1>3, <1>4, <1>5
  <2>2. QED
    BY <1>5, <2>1 DEF Panel!Switched
<1>6. CASE ~ on
  <2>1. \A s : s \in SitesLit(new) <=> s \in SitesLit(img) /\ s \notin T
    BY <1>2, <1>3, <1>6
  <2>2. QED
    BY <1>6, <2>1 DEF Panel!Switched
<1>7. QED
  BY <1>5, <1>6

\* A flag of the image is a flag of the panel.
LEMMA FlagImplements ==
  ASSUME ImageInv, set_flag
  PROVE  Panel!SetFlag
<1>0. image \in Image
  BY DEF ImageInv
<1>1. PICK c \in FlagCalls :
        /\ op' = [name |-> "set_flag", flag |-> c[1], value |-> c[2]]
        /\ \/ image' = switch(image, {FlagMap[c[1]]}, c[2] # 0) /\ ret' = "Ok"
           \/ image' = image /\ ret' = "OutOfRange"
  BY DEF set_flag, Call, Refuse
<1>2. c[1] \in DOMAIN FlagMap /\ c[2] \in Int
  BY ImageCallsAssumption
<1> DEFINE fl == c[1]
           on == c[2] # 0
<1>3. op'.name = "set_flag" /\ op'.flag = fl /\ (op'.value # 0 <=> on)
  BY <1>1
<1> HIDE DEF fl, on
<1>4. CASE image' = image /\ ret' = "OutOfRange"
  BY <1>3, <1>4 DEF Panel!SetFlag
<1>5. CASE image' = switch(image, {FlagMap[fl]}, on) /\ ret' = "Ok"
  <2> DEFINE places == {FlagMap[fl]}
  <2>1. fl \in DOMAIN FlagMap /\ on \in BOOLEAN
    BY <1>2 DEF fl, on
  <2>2. /\ \A p \in places : p.reg \in Registers
        /\ \A p \in places : \E gl \in DOMAIN FlagMap : p.reg = FlagMap[gl].reg
    BY <2>1, StateAssumption
  <2>3. \A gl \in DOMAIN FlagMap :
          gl \in {fl} <=> \E p \in places : p.reg = FlagMap[gl].reg /\ p.bit = FlagMap[gl].bit
    <3>1. \A gl \in DOMAIN FlagMap :
            FlagMap[fl].reg = FlagMap[gl].reg /\ FlagMap[fl].bit = FlagMap[gl].bit => fl = gl
      <4>1. \A gl \in DOMAIN FlagMap : FlagMap[gl] \in [reg : Registers, bit : 0 .. 7]
        BY StateAssumption
      <4>2. \A gl \in DOMAIN FlagMap : FlagMap[fl] = FlagMap[gl] => fl = gl
        BY <2>1, StateAssumption
      <4>3. QED
        BY <2>1, <4>1, <4>2
    <3>2. QED
      BY <2>1, <3>1
  <2>4. \A row \in FaultRows :
          macon_fault_site_id(row) \in {} <=> \E p \in places : p.reg = row.reg /\ p.bit = row.bit
    BY <2>1, StateAssumption
  <2> HIDE DEF places
  <2>5. /\ HasSwitched(image, places, on, image')
        /\ \A r : r \notin {p.reg : p \in places} => Same(image, image', r)
    BY <1>0, <1>5, <2>1, <2>2, Switching DEF places
  <2>6. RestKept(image, image')
    BY <2>2, <2>5, Untouched
  <2>7. decode_flags(image') = Panel!Switched(decode_flags(image), {fl}, on)
    BY <2>1, <2>3, <2>5, FlagsSwitched
  <2>8. SitesLit(image') = Panel!Switched(SitesLit(image), {}, on)
    BY <2>1, <2>4, <2>5, FaultsSwitched
  <2>9. SitesLit(image') = SitesLit(image)
    BY <2>8 DEF Panel!Switched
  <2>10. QED
    BY <1>3, <1>5, <2>6, <2>7, <2>9 DEF Panel!SetFlag, SitesLit, RestKept
<1>6. QED
  BY <1>1, <1>4, <1>5 DEF fl, on

\* A mode that is stored is decoded as itself, and nothing else is shown
\* differently.
LEMMA RestOfModes ==
  ASSUME NEW img, NEW new, NEW reg \in {REG_WORKING_MODE, REG_OPERATING_MODE}, NEW b,
         HasPut(img, reg, b, new)
  PROVE  /\ decode_readings(new) = decode_readings(img)
         /\ decode_flags(new) = decode_flags(img)
         /\ SitesLit(new) = SitesLit(img)
<1>1. \A q : q # reg => Same(img, new, q)
  BY DEF HasPut
<1>2. \A f \in DOMAIN FieldMap : FieldMap[f].reg # reg
  BY FieldAlone
<1>3. \A fl \in DOMAIN FlagMap : FlagMap[fl].reg # reg
  BY StateAssumption
<1>4. \A row \in FaultRows : row.reg # reg
  BY StateAssumption DEF FaultRows
<1>5. QED
  BY <1>1, <1>2, <1>3, <1>4, ReadingsKept, FlagsKept, FaultsKept

LEMMA WorkingModeImplements ==
  ASSUME ImageInv, set_working_mode
  PROVE  Panel!SetWorkingMode
<1>0. image \in Image
  BY DEF ImageInv
<1>1. PICK mode \in ModeCalls :
        /\ op' = [name |-> "set_working_mode", mode |-> mode]
        /\ \/ image' = put(image, REG_WORKING_MODE, mode_byte(mode)) /\ ret' = "Ok"
           \/ image' = image /\ ret' = "OutOfRange"
  BY DEF set_working_mode, Call, Refuse
<1>2. op'.name = "set_working_mode" /\ op'.mode = mode
  BY <1>1
<1>3. CASE image' = image /\ ret' = "OutOfRange"
  BY <1>2, <1>3 DEF Panel!SetWorkingMode
<1>4. CASE image' = put(image, REG_WORKING_MODE, mode_byte(mode)) /\ ret' = "Ok"
  <2> DEFINE b == mode_byte(mode)
  <2>1. b \in Byte /\ decode_working_mode(b) = mode
    BY ImageCallsAssumption, ModeByte
  <2> HIDE DEF b
  <2>2. REG_WORKING_MODE \in Registers /\ REG_WORKING_MODE # REG_OPERATING_MODE
    BY StateAssumption
  <2>3. HasPut(image, REG_WORKING_MODE, b, image')
    BY <1>0, <1>4, <2>1, <2>2, Putting DEF b
  <2>4. /\ decode_readings(image') = decode_readings(image)
        /\ decode_flags(image') = decode_flags(image)
        /\ SitesLit(image') = SitesLit(image)
    BY <2>3, RestOfModes
  <2>5. decode_modes(image').working_mode = mode
    BY <2>1, <2>3 DEF decode_modes, HasPut
  <2>6. decode_modes(image').mode = decode_modes(image).mode
    BY <2>2, <2>3 DEF decode_modes, HasPut, Same, value_of
  <2>7. QED
    BY <1>2, <1>4, <2>4, <2>5, <2>6 DEF Panel!SetWorkingMode, SitesLit
<1>5. QED
  BY <1>1, <1>3, <1>4

LEMMA DirectionImplements ==
  ASSUME ImageInv, set_operating_direction
  PROVE  Panel!SetOperatingDirection
<1>0. image \in Image
  BY DEF ImageInv
<1>1. PICK mode \in {"Cooling", "Heating", "Unknown"} :
        /\ op' = [name |-> "set_operating_direction", mode |-> mode]
        /\ \/ /\ mode # "Unknown" /\ ret' = "Ok"
              /\ image' = put(image, REG_OPERATING_MODE, IF mode = "Cooling" THEN 4 ELSE 0)
           \/ image' = image /\ ret' = "OutOfRange"
  BY DEF set_operating_direction, Call, Refuse
<1>2. op'.name = "set_operating_direction" /\ op'.mode = mode
  BY <1>1
<1>3. CASE image' = image /\ ret' = "OutOfRange"
  BY <1>2, <1>3 DEF Panel!SetOperatingDirection
<1> DEFINE b == IF mode = "Cooling" THEN 4 ELSE 0
<1>4. CASE mode # "Unknown" /\ image' = put(image, REG_OPERATING_MODE, b) /\ ret' = "Ok"
  <2>1. b \in Byte /\ decode_mode(b) = mode
    BY <1>4 DEF Byte, decode_mode
  <2> HIDE DEF b
  <2>2. REG_OPERATING_MODE \in Registers /\ REG_WORKING_MODE # REG_OPERATING_MODE
    BY StateAssumption, ImageAssumption
  <2>3. HasPut(image, REG_OPERATING_MODE, b, image')
    BY <1>0, <1>4, <2>1, <2>2, Putting
  <2>4. /\ decode_readings(image') = decode_readings(image)
        /\ decode_flags(image') = decode_flags(image)
        /\ SitesLit(image') = SitesLit(image)
    BY <2>3, RestOfModes
  <2>5. decode_modes(image').mode = mode
    BY <2>1, <2>3 DEF decode_modes, HasPut
  <2>6. decode_modes(image').working_mode = decode_modes(image).working_mode
    BY <2>2, <2>3 DEF decode_modes, HasPut, Same, value_of
  <2>7. QED
    BY <1>2, <1>4, <2>4, <2>5, <2>6 DEF Panel!SetOperatingDirection, SitesLit
<1>5. QED
  BY <1>1, <1>3, <1>4

\* Two rows with one site are the same bit.
LEMMA SiteIsPlace ==
  ASSUME NEW p \in Rows, NEW q \in Rows
  PROVE  macon_fault_site_id(p) = macon_fault_site_id(q) <=> p.reg = q.reg /\ p.bit = q.bit
<1>1. /\ p.reg \in Registers /\ p.bit \in 0 .. 7
      /\ q.reg \in Registers /\ q.bit \in 0 .. 7
  BY RowType
<1>2. p.reg \in Int /\ q.reg \in Int
  BY <1>1, ImageAssumption DEF Registers
<1>3. p.reg * 8 + p.bit = q.reg * 8 + q.bit <=> p.reg = q.reg /\ p.bit = q.bit
  <2> DEFINE a == p.reg
             b == q.reg
             m == p.bit
             n == q.bit
  <2>1. a \in Int /\ b \in Int /\ m \in 0 .. 7 /\ n \in 0 .. 7
    BY <1>1, <1>2
  <2> HIDE DEF a, b, m, n
  <2>2. a * 8 + m = b * 8 + n <=> a = b /\ m = n
    BY <2>1, SMT
  <2>3. QED
    BY <2>2 DEF a, b, m, n
<1>4. QED
  BY <1>3 DEF macon_fault_site_id

\* And they are one row.
LEMMA PlaceIsRow ==
  ASSUME NEW p \in Rows, NEW q \in Rows, p.reg = q.reg, p.bit = q.bit
  PROVE  p = q
<1>1. PICK i \in DOMAIN MACON_FAULT_BITS : p = MACON_FAULT_BITS[i]
  BY DEF Rows, ToSet
<1>2. PICK j \in DOMAIN MACON_FAULT_BITS : q = MACON_FAULT_BITS[j]
  BY DEF Rows, ToSet
<1>3. i = j
  BY <1>1, <1>2, FaultTableAssumption
<1>4. QED
  BY <1>1, <1>2, <1>3

\* Only the run indicator has its code, and it has a row.
LEMMA RunRow ==
  ASSUME NEW row \in Rows
  PROVE  row.code = RUN_CODE <=> row \notin FaultRows
<1>1. PICK run \in Rows : run \notin FaultRows /\ run.code = RUN_CODE
  BY StateAssumption
<1>2. ASSUME row.code = RUN_CODE PROVE row \notin FaultRows
  <2>1. PICK i \in DOMAIN MACON_FAULT_BITS : row = MACON_FAULT_BITS[i]
    BY DEF Rows, ToSet
  <2>2. PICK j \in DOMAIN MACON_FAULT_BITS : run = MACON_FAULT_BITS[j]
    BY DEF Rows, ToSet
  <2>3. run.severity = "INFO"
    BY <1>1 DEF FaultRows
  <2>4. row.severity = "INFO"
    BY <1>1, <1>2, <2>1, <2>2, <2>3, FaultTableAssumption
  <2>5. QED
    BY <2>4 DEF FaultRows
<1>3. QED
  BY <1>2, StateAssumption

\* Switching rows of the table switches their sites, and the run indicator if
\* its row is among them.
RowsSwitched(img, rows, on, new) ==
  /\ RestKept(img, new)
  /\ SitesLit(new) = Panel!Switched(SitesLit(img),
                       {macon_fault_site_id(row) : row \in rows \cap FaultRows}, on)
  /\ decode_flags(new) = IF rows \subseteq FaultRows THEN decode_flags(img)
                         ELSE Panel!Switched(decode_flags(img), {"UnitOn"}, on)

LEMMA SwitchingRows ==
  ASSUME NEW img \in Image, NEW rows \in SUBSET Rows, NEW on \in BOOLEAN
  PROVE  RowsSwitched(img, rows, on, switch(img, rows, on))
<1> DEFINE new == switch(img, rows, on)
           sites == {macon_fault_site_id(row) : row \in rows \cap FaultRows}
           S == IF rows \subseteq FaultRows THEN {} ELSE {"UnitOn"}
<1>1. \A p \in rows : p.reg \in Registers /\ p.reg \in FaultRegisters
  BY RowType
<1>2. /\ HasSwitched(img, rows, on, new)
      /\ \A r : r \notin {p.reg : p \in rows} => Same(img, new, r)
  BY <1>1, Switching
<1>3. sites \subseteq {macon_fault_site_id(row) : row \in FaultRows}
  OBVIOUS
<1>4. \A row \in FaultRows :
        macon_fault_site_id(row) \in sites <=> \E p \in rows : p.reg = row.reg /\ p.bit = row.bit
  <2> TAKE row \in FaultRows
  <2>1. row \in Rows
    BY DEF FaultRows
  <2>2. ASSUME macon_fault_site_id(row) \in sites
        PROVE  \E p \in rows : p.reg = row.reg /\ p.bit = row.bit
    <3>1. PICK p \in rows : macon_fault_site_id(row) = macon_fault_site_id(p)
      BY <2>2
    <3>2. QED
      BY <2>1, <3>1, SiteIsPlace
  <2>3. ASSUME NEW p \in rows, p.reg = row.reg, p.bit = row.bit
        PROVE  macon_fault_site_id(row) \in sites
    <3>1. p = row
      BY <2>1, <2>3, PlaceIsRow
    <3>2. QED
      BY <3>1
  <2>4. QED
    BY <2>2, <2>3
<1>5. S \in SUBSET DOMAIN FlagMap
  BY StateAssumption
<1>6. \A fl \in DOMAIN FlagMap :
        fl \in S <=> \E p \in rows : p.reg = FlagMap[fl].reg /\ p.bit = FlagMap[fl].bit
  <2> TAKE fl \in DOMAIN FlagMap
  <2>1. ASSUME fl \in S
        PROVE  \E p \in rows : p.reg = FlagMap[fl].reg /\ p.bit = FlagMap[fl].bit
    <3>1. fl = "UnitOn" /\ \E p \in rows : p \notin FaultRows
      BY <2>1
    <3>2. QED
      BY <3>1, StateAssumption
  <2>2. ASSUME NEW p \in rows, p.reg = FlagMap[fl].reg, p.bit = FlagMap[fl].bit
        PROVE  fl \in S
    <3>1. p \notin FaultRows
      BY <2>2, StateAssumption
    <3>2. p.reg = FlagMap["UnitOn"].reg /\ p.reg \in FaultRegisters
      BY <3>1, <1>1, StateAssumption
    <3>3. fl = "UnitOn"
      BY <2>2, <3>2, StateAssumption
    <3>4. QED
      BY <3>1, <3>3
  <2>3. QED
    BY <2>1, <2>2
<1> HIDE DEF new, sites
<1>7. RestKept(img, new)
  BY <1>1, <1>2, Untouched
<1>8. SitesLit(new) = Panel!Switched(SitesLit(img), sites, on)
  BY <1>2, <1>3, <1>4, FaultsSwitched
<1>9. decode_flags(new) = IF rows \subseteq FaultRows THEN decode_flags(img)
                          ELSE Panel!Switched(decode_flags(img), {"UnitOn"}, on)
  <2> HIDE DEF S
  <2>1. decode_flags(new) = Panel!Switched(decode_flags(img), S, on)
    BY <1>2, <1>5, <1>6, FlagsSwitched
  <2>2. Panel!Switched(decode_flags(img), {}, on) = decode_flags(img)
    BY DEF Panel!Switched
  <2>3. QED
    BY <2>1, <2>2 DEF S
<1>10. QED
  BY <1>7, <1>8, <1>9 DEF RowsSwitched, new, sites

LEMMA FaultImplements ==
  ASSUME ImageInv, set_fault
  PROVE  Panel!SetFault
<1>1. PICK id \in FaultIds, on \in BOOLEAN :
        /\ image' = switch(image, {row \in FaultRows : row.id = id}, on)
        /\ op' = [name |-> "set_fault", id |-> id, on |-> on]
  BY DEF set_fault, Call
<1> DEFINE rows == {row \in FaultRows : row.id = id}
<1>2. op'.name = "set_fault" /\ op'.id = id /\ op'.on = on
  BY <1>1
<1>3. rows \in SUBSET Rows /\ rows \subseteq FaultRows /\ rows \cap FaultRows = rows
  BY DEF FaultRows
<1>4. IdSites[id] = {macon_fault_site_id(row) : row \in rows}
  BY DEF IdSites, macon_fault_sites_for_id
<1> HIDE DEF rows
<1>5. RowsSwitched(image, rows, on, image')
  BY <1>1, <1>3, SwitchingRows DEF rows, ImageInv
<1>6. SitesLit(image') = Panel!Switched(SitesLit(image), IdSites[id], on)
  BY <1>3, <1>4, <1>5 DEF RowsSwitched
<1>7. decode_flags(image') = decode_flags(image)
  BY <1>3, <1>5 DEF RowsSwitched
<1>8. QED
  BY <1>2, <1>5, <1>6, <1>7
     DEF Panel!SetFault, Panel!Switched, RowsSwitched, RestKept, SitesLit

LEMMA FaultByCodeImplements ==
  ASSUME ImageInv, set_fault_by_code
  PROVE  Panel!SetFaultByCode
<1>1. PICK code \in FaultCodes, on \in BOOLEAN :
        /\ image' = switch(image, {row \in Rows : row.code = code}, on)
        /\ op' = [name |-> "set_fault_by_code", code |-> code, on |-> on]
  BY DEF set_fault_by_code, Call
<1> DEFINE rows == {row \in Rows : row.code = code}
<1>2. op'.name = "set_fault_by_code" /\ op'.code = code /\ op'.on = on
  BY <1>1
<1>3. rows \in SUBSET Rows /\ FaultRows \subseteq Rows
  BY DEF FaultRows
<1>4. CodeSites[code] = {macon_fault_site_id(row) : row \in rows \cap FaultRows}
  <2>1. rows \cap FaultRows = {r \in FaultRows : r.code = code}
    BY <1>3
  <2>2. QED
    BY <2>1 DEF CodeSites
<1>5. rows \subseteq FaultRows <=> code # RUN_CODE
  <2>1. \A row \in Rows : row.code = RUN_CODE <=> row \notin FaultRows
    BY RunRow
  <2>2. \E row \in Rows : row.code = RUN_CODE
    BY StateAssumption
  <2>3. QED
    BY <2>1, <2>2
<1> HIDE DEF rows
<1>6. RowsSwitched(image, rows, on, image')
  BY <1>1, <1>3, SwitchingRows DEF rows, ImageInv
<1>7. SitesLit(image') = Panel!Switched(SitesLit(image), CodeSites[code], on)
  BY <1>4, <1>6 DEF RowsSwitched
<1>8. decode_flags(image') = IF code = RUN_CODE
                             THEN Panel!Switched(decode_flags(image), {"UnitOn"}, on)
                             ELSE decode_flags(image)
  BY <1>5, <1>6 DEF RowsSwitched
<1>9. QED
  BY <1>2, <1>6, <1>7, <1>8
     DEF Panel!SetFaultByCode, Panel!Switched, RowsSwitched, RestKept, SitesLit

LEMMA FaultSiteImplements ==
  ASSUME ImageInv, set_fault_site
  PROVE  Panel!SetFaultSite
<1>1. PICK site \in FaultSites, on \in BOOLEAN :
        /\ image' = switch(image, {row \in FaultRows : macon_fault_site_id(row) = site}, on)
        /\ op' = [name |-> "set_fault_site", site |-> site, on |-> on]
        /\ ret' = ({row \in FaultRows : macon_fault_site_id(row) = site} # {})
  BY DEF set_fault_site, Call
<1> DEFINE rows == {row \in FaultRows : macon_fault_site_id(row) = site}
           sites == {macon_fault_site_id(row) : row \in rows}
<1>2. op'.name = "set_fault_site" /\ op'.site = site /\ op'.on = on
  BY <1>1
<1>3. rows \in SUBSET Rows /\ rows \subseteq FaultRows /\ rows \cap FaultRows = rows
  BY DEF FaultRows
<1>4. sites = IF rows # {} THEN {site} ELSE {}
  OBVIOUS
<1>5. (rows # {}) <=> \E id \in DOMAIN IdSites : site \in IdSites[id]
  <2>1. ASSUME NEW row \in rows PROVE \E id \in DOMAIN IdSites : site \in IdSites[id]
    <3>1. row \in FaultRows /\ macon_fault_site_id(row) = site
      OBVIOUS
    <3>2. row.id \in DOMAIN IdSites /\ site \in IdSites[row.id]
      BY <3>1 DEF IdSites, macon_fault_sites_for_id
    <3>3. QED
      BY <3>2
  <2>2. ASSUME NEW id \in DOMAIN IdSites, site \in IdSites[id] PROVE rows # {}
    <3>1. PICK row \in FaultRows : site = macon_fault_site_id(row)
      BY <2>2 DEF IdSites, macon_fault_sites_for_id
    <3>2. row \in rows
      BY <3>1
    <3>3. QED
      BY <3>2
  <2>3. QED
    BY <2>1, <2>2
<1>6. ret' = (rows # {})
  BY <1>1
<1> HIDE DEF rows
<1>7. RowsSwitched(image, rows, on, image')
  BY <1>1, <1>3, SwitchingRows DEF rows, ImageInv
<1>8. SitesLit(image') = Panel!Switched(SitesLit(image), sites, on)
  BY <1>3, <1>7 DEF RowsSwitched
<1>9. decode_flags(image') = decode_flags(image)
  BY <1>3, <1>7 DEF RowsSwitched
<1> HIDE DEF sites
<1>10. ret' = (\E id \in DOMAIN IdSites : site \in IdSites[id])
  BY <1>5, <1>6, Zenon
<1>11. SitesLit(image') = IF ret' THEN Panel!Switched(SitesLit(image), {site}, on)
                          ELSE SitesLit(image)
  <2>1. Panel!Switched(SitesLit(image), {}, on) = SitesLit(image)
    BY DEF Panel!Switched
  <2>2. CASE rows # {}
    BY <1>4, <1>6, <1>8, <2>2
  <2>3. CASE rows = {}
    BY <1>4, <1>6, <1>8, <2>1, <2>3
  <2>4. QED
    BY <2>2, <2>3
<1>12. QED
  BY <1>2, <1>7, <1>9, <1>10, <1>11
     DEF Panel!SetFaultSite, Panel!Switched, RowsSwitched, RestKept, SitesLit

\* Clearing the faults clears them all and no flag, the run indicator included.
LEMMA ClearFaultsImplements ==
  ASSUME ImageInv, clear_faults
  PROVE  Panel!ClearFaults
<1> DEFINE unit == FlagMap["UnitOn"].bit
<1>0. image \in Image
  BY DEF ImageInv
<1>1. /\ op'.name = "clear_faults"
      /\ image' = [r \in DOMAIN image \cup FaultRegisters |->
                     IF r \in FaultRegisters THEN kept(r, value_of(image, r)) ELSE image[r]]
  BY DEF clear_faults, Call
<1>2. /\ \A r \in FaultRegisters : value_of(image', r) = kept(r, value_of(image, r))
      /\ \A r : r \notin FaultRegisters => Same(image, image', r)
  BY <1>0, <1>1, Zeroing
<1>3. ASSUME NEW r \in FaultRegisters, NEW n \in 0 .. 7
      PROVE  bit_is_set(value_of(image', r), n)
               <=> r = REG_FAULT_RUNSTATE /\ n = unit /\ bit_is_set(value_of(image, r), n)
  <2> DEFINE v == value_of(image, r)
             bits == IF r = REG_FAULT_RUNSTATE THEN bits_of(v) \cap {unit} ELSE {}
  <2>1. value_of(image', r) = byte_of(bits)
    BY <1>2 DEF kept
  <2>2. n \in bits <=> r = REG_FAULT_RUNSTATE /\ n = unit /\ bit_is_set(v, n)
    BY DEF bits_of
  <2> HIDE DEF bits
  <2>3. bit_is_set(byte_of(bits), n) <=> n \in bits
    BY BitsOfByte
  <2>4. QED
    BY <2>1, <2>2, <2>3, Zenon
<1> HIDE DEF unit
<1>4. RestKept(image, image')
  <2>1. \A f \in DOMAIN FieldMap : Same(image, image', FieldMap[f].reg)
    BY <1>2, FieldAlone
  <2>2. Same(image, image', REG_WORKING_MODE) /\ Same(image, image', REG_OPERATING_MODE)
    <3>1. REG_WORKING_MODE \notin FaultRegisters /\ REG_OPERATING_MODE \notin FaultRegisters
      BY StateAssumption
    <3>2. QED
      BY <1>2, <3>1
  <2>3. QED
    BY <2>1, <2>2, ReadingsKept, ModesKept DEF RestKept
<1>5. decode_flags(image') = decode_flags(image)
  <2>1. ASSUME NEW fl \in DOMAIN FlagMap
        PROVE  bit_is_set(value_of(image', FlagMap[fl].reg), FlagMap[fl].bit)
                 <=> bit_is_set(value_of(image, FlagMap[fl].reg), FlagMap[fl].bit)
    <3>1. FlagMap[fl].bit \in 0 .. 7
      BY StateAssumption
    <3>2. CASE FlagMap[fl].reg \in FaultRegisters
      <4>1. fl = "UnitOn"
        BY <3>2, StateAssumption
      <4>2. FlagMap[fl].reg = REG_FAULT_RUNSTATE /\ FlagMap[fl].bit = unit
        BY <4>1, StateAssumption DEF unit
      <4>3. QED
        BY <1>3, <3>1, <3>2, <4>2
    <3>3. CASE FlagMap[fl].reg \notin FaultRegisters
      BY <1>2, <3>3, Zenon DEF Same
    <3>4. QED
      BY <3>2, <3>3
  <2>2. QED
    BY <2>1 DEF decode_flags
<1>6. SitesLit(image') = {}
  <2>1. ASSUME NEW row \in FaultRows PROVE ~ lit(image', row)
    <3>1. row \in Rows /\ row.reg \in FaultRegisters /\ row.bit \in 0 .. 7
      BY RowType DEF FaultRows
    <3>2. ~ (row.reg = REG_FAULT_RUNSTATE /\ row.bit = unit)
      BY StateAssumption DEF unit
    <3>3. QED
      BY <1>3, <3>1, <3>2 DEF lit
  <2>2. QED
    BY <2>1 DEF SitesLit, litRows
<1>7. QED
  BY <1>1, <1>4, <1>5, <1>6 DEF Panel!ClearFaults, RestKept, SitesLit

\* Nothing is shown of an empty image.
LEMMA EmptyShown ==
  /\ decode_readings(EmptyImage) = [f \in {} |-> 0]
  /\ decode_flags(EmptyImage) = {}
  /\ SitesLit(EmptyImage) = {}
  /\ decode_modes(EmptyImage).mode = "Unknown"
  /\ decode_modes(EmptyImage).working_mode = "Unknown"
<1>1. DOMAIN EmptyImage = {} /\ \A r : value_of(EmptyImage, r) = 0
  BY DEF EmptyImage, value_of
<1>2. decode_readings(EmptyImage) = [f \in {} |-> 0]
  <2>1. {g \in DOMAIN FieldMap : FieldMap[g].reg \in DOMAIN EmptyImage} = {}
    BY <1>1
  <2>2. decode_readings(EmptyImage)
          = [f \in {} |-> reading(FieldMap[f].read, EmptyImage[FieldMap[f].reg])]
    BY <2>1 DEF decode_readings
  <2>3. QED
    BY <2>2
<1>3. decode_flags(EmptyImage) = {}
  <2>1. \A fl \in DOMAIN FlagMap : ~ bit_is_set(0, FlagMap[fl].bit)
    BY NoBitOfZero, StateAssumption
  <2>2. QED
    BY <1>1, <2>1 DEF decode_flags
<1>4. SitesLit(EmptyImage) = {}
  <2>1. \A row \in FaultRows : ~ bit_is_set(0, row.bit)
    BY NoBitOfZero, RowType DEF FaultRows
  <2>2. QED
    BY <1>1, <2>1 DEF SitesLit, litRows, lit
<1>5. QED
  BY <1>1, <1>2, <1>3, <1>4 DEF decode_modes

LEMMA ClearImplements ==
  ASSUME clear
  PROVE  Panel!Clear
<1>1. image' = EmptyImage /\ op'.name = "clear"
  BY DEF clear, Call
<1>2. QED
  BY <1>1, EmptyShown DEF Panel!Clear, Panel!EmptyPanel, SitesLit

\* A register of 0 is read as 0 in every unit.
LEMMA ReadingOfZero ==
  ASSUME NEW how \in Readings
  PROVE  reading(how, 0) = 0
BY DEF Readings, reading, s8

LEMMA FillBaselineImplements ==
  ASSUME ImageInv, fill_baseline
  PROVE  Panel!FillBaseline
<1>0. image \in Image
  BY DEF ImageInv
<1>1. op'.name = "fill_baseline" /\ image' = with_baseline(image)
  BY DEF fill_baseline, Call
<1>2. /\ DOMAIN image \subseteq DOMAIN image'
      /\ \A r : value_of(image', r) = value_of(image, r)
  BY <1>0, <1>1, Baseline
<1>3. \A r \in DOMAIN image : r \in DOMAIN image' /\ image'[r] = image[r]
  BY <1>2 DEF value_of
<1>4. \A r \in DOMAIN image' : r \notin DOMAIN image => image'[r] = 0
  BY <1>2 DEF value_of
<1>5. decode_flags(image') = decode_flags(image) /\ SitesLit(image') = SitesLit(image)
  BY <1>2 DEF decode_flags, SitesLit, litRows, lit
<1>6. DOMAIN decode_readings(image) \subseteq DOMAIN decode_readings(image')
  BY <1>3, ReadingsOf
<1>7. ASSUME NEW f \in DOMAIN decode_readings(image')
      PROVE  decode_readings(image')[f] = IF f \in DOMAIN decode_readings(image)
                                          THEN decode_readings(image)[f] ELSE 0
  <2>1. f \in DOMAIN FieldMap /\ FieldMap[f].reg \in DOMAIN image'
    BY ReadingsOf
  <2>2. FieldMap[f].read \in Readings
    BY <2>1, StateAssumption
  <2>3. decode_readings(image')[f] = reading(FieldMap[f].read, image'[FieldMap[f].reg])
    BY ReadingsOf
  <2>4. CASE f \in DOMAIN decode_readings(image)
    <3>1. FieldMap[f].reg \in DOMAIN image
      BY <2>4, ReadingsOf
    <3>2. decode_readings(image)[f] = reading(FieldMap[f].read, image[FieldMap[f].reg])
      BY <2>4, ReadingsOf
    <3>3. QED
      BY <1>3, <2>3, <2>4, <3>1, <3>2
  <2>5. CASE f \notin DOMAIN decode_readings(image)
    <3>1. FieldMap[f].reg \notin DOMAIN image
      BY <2>1, <2>5, ReadingsOf
    <3>2. image'[FieldMap[f].reg] = 0
      BY <1>4, <2>1, <3>1
    <3>3. QED
      BY <2>2, <2>3, <2>5, <3>2, ReadingOfZero
  <2>6. QED
    BY <2>4, <2>5
<1>8. /\ \/ decode_modes(image).mode = "Unknown"
         \/ decode_modes(image').mode = decode_modes(image).mode
      /\ \/ decode_modes(image).working_mode = "Unknown"
         \/ decode_modes(image').working_mode = decode_modes(image).working_mode
  BY <1>3 DEF decode_modes
<1>9. QED
  BY <1>1, <1>5, <1>6, <1>7, <1>8 DEF Panel!FillBaseline, SitesLit

\* What is refused of the wire changes nothing.
LEMMA FromTheWireImplements ==
  ASSUME ImageInv, ingest \/ write \/ set_register
  PROVE  Panel!FromTheWire
<1>0. image \in Image
  BY DEF ImageInv
<1>1. /\ op'.name \in {"ingest", "apply_write", "set_register"}
      /\ ~ ret' => image' = image
  <2>1. CASE ingest
    <3>1. PICK c \in Ingests :
            /\ image' = ingest_bytes(image, c[1], low_bytes(c[2]))
            /\ op' = [name |-> "ingest", base |-> c[1], data |-> c[2]]
            /\ ret' = (Len(c[2]) > 0)
      BY <2>1 DEF ingest, Call
    <3>2. /\ c[1] \in Nat /\ c[2] \in Seq(Word)
          /\ low_bytes(c[2]) \in Seq(Byte) /\ Len(low_bytes(c[2])) = Len(c[2])
      BY ImageCallsAssumption, LowBytes, WordBytes
    <3>3. ~ (Len(c[2]) > 0) => Len(low_bytes(c[2])) = 0
      BY <3>2
    <3>4. Len(low_bytes(c[2])) = 0 => image' = image
      BY <1>0, <3>1, <3>2, Ingesting
    <3>5. ~ ret' => image' = image
      BY <3>1, <3>3, <3>4, Zenon
    <3>6. QED
      BY <3>1, <3>5
  <2>2. CASE write
    <3>1. PICK c \in Writes :
            /\ image' = apply_write(image, c[1], c[2])
            /\ op' = [name |-> "apply_write", base |-> c[1], data |-> c[2]]
            /\ ret' = is_writable(c[1], c[2])
      BY <2>2 DEF write, Call
    <3>2. ~ ret' => image' = image
      BY <3>1 DEF apply_write
    <3>3. QED
      BY <3>1, <3>2
  <2>3. CASE set_register
    <3>1. PICK c \in Pokes :
            /\ image' = IF c[1] \in Registers /\ c[2] <= 255 THEN put(image, c[1], c[2])
                        ELSE image
            /\ op' = [name |-> "set_register", reg |-> c[1], value |-> c[2]]
            /\ ret' = (c[1] \in Registers /\ c[2] <= 255)
      BY <2>3 DEF set_register, Call
    <3>2. ~ ret' => image' = image
      BY <3>1
    <3>3. QED
      BY <3>1, <3>2
  <2>4. QED
    BY <2>1, <2>2, <2>3
<1>2. QED
  BY <1>1 DEF Panel!FromTheWire, Panel!panel

\* Seen through the decode, the image of every unit is the panel of
\* UnitPanel: each call changes the reading, flag, mode or faults that it
\* names, and nothing that shares a byte with them.
THEOREM ImageImplementsPanel == Spec => ImplementsPanel
<1>1. Init => Panel!Init
  BY EmptyShown DEF Init, Panel!Init, Panel!EmptyPanel, SitesLit
<1>2. ImageInv /\ [Next]_vars => [Panel!Next]_(Panel!vars)
  <2> SUFFICES ASSUME ImageInv, [Next]_vars PROVE [Panel!Next]_(Panel!vars)
    OBVIOUS
  <2>1. CASE set_temp \/ set_value \/ macon_field_set
    BY <2>1, NumbersImplement DEF Panel!Next
  <2>2. CASE set_flag
    BY <2>2, FlagImplements DEF Panel!Next
  <2>3. CASE set_working_mode
    BY <2>3, WorkingModeImplements DEF Panel!Next
  <2>4. CASE set_operating_direction
    BY <2>4, DirectionImplements DEF Panel!Next
  <2>5. CASE set_fault
    BY <2>5, FaultImplements DEF Panel!Next
  <2>6. CASE set_fault_by_code
    BY <2>6, FaultByCodeImplements DEF Panel!Next
  <2>7. CASE set_fault_site
    BY <2>7, FaultSiteImplements DEF Panel!Next
  <2>8. CASE clear_faults
    BY <2>8, ClearFaultsImplements DEF Panel!Next
  <2>9. CASE clear
    BY <2>9, ClearImplements DEF Panel!Next
  <2>10. CASE fill_baseline
    BY <2>10, FillBaselineImplements DEF Panel!Next
  <2>11. CASE ingest \/ write \/ set_register
    BY <2>11, FromTheWireImplements DEF Panel!Next
  <2>12. CASE UNCHANGED vars
    BY <2>12 DEF vars, Panel!vars, Panel!panel
  <2>13. QED
    BY <2>1, <2>2, <2>3, <2>4, <2>5, <2>6, <2>7, <2>8, <2>9, <2>10, <2>11, <2>12 DEF Next
<1>3. Spec => []ImageInv
  BY TypeInit, TypeStep, PTL DEF Spec
<1>4. QED
  BY <1>1, <1>2, <1>3, PTL DEF Spec, ImplementsPanel, Panel!Spec
-----------------------------------------------------------------------------
(* The list of faults *)

\* What a loop over the numbers up to n leaves after each turn.
Turns(T, n, base, next, f) ==
  /\ f \in [0 .. n -> T]
  /\ f[0] = base
  /\ \A i \in 1 .. n : f[i] = next[i][f[i - 1]]

\* Every loop has them: no least number of turns is without.
LEMMA TurnsExist ==
  ASSUME NEW T, NEW N \in Nat, NEW base \in T, NEW next \in [1 .. N -> [T -> T]]
  PROVE  \E f : Turns(T, N, base, next, f)
<1> DEFINE without == {n \in 0 .. N : ~ \E f : Turns(T, n, base, next, f)}
<1>1. without = {}
  <2> SUFFICES ASSUME without # {} PROVE FALSE
    OBVIOUS
  <2>1. without \in SUBSET Nat
    OBVIOUS
  <2>2. PICK n \in without : \A m \in without : n <= m
    <3> HIDE DEF without
    <3>1. QED
      BY <2>1, LeastElement
  <2>3. n \in 0 .. N /\ ~ \E f : Turns(T, n, base, next, f)
    BY <2>2
  <2>4. n # 0
    <3>1. Turns(T, 0, base, next, [i \in 0 .. 0 |-> base])
      BY DEF Turns
    <3>2. QED
      BY <2>3, <3>1
  <2>5. n - 1 \in 0 .. N /\ n - 1 \notin without
    BY <2>2, <2>3, <2>4
  <2>6. PICK f : Turns(T, n - 1, base, next, f)
    BY <2>5
  <2> DEFINE g == [i \in 0 .. n |-> IF i = n THEN next[n][f[n - 1]] ELSE f[i]]
  <2>7. n \in 1 .. N /\ n \in Nat
    BY <2>3, <2>4
  <2> HIDE DEF without
  <2>8. \A i \in 0 .. n - 1 : f[i] \in T /\ g[i] = f[i]
    <3>1. \A i \in 0 .. n - 1 : i \in 0 .. n /\ i # n
      BY <2>7
    <3>2. QED
      BY <2>6, <3>1 DEF Turns
  <2>9. g[n] = next[n][f[n - 1]] /\ g[n] \in T
    <3>1. n \in 0 .. n /\ n - 1 \in 0 .. n - 1
      BY <2>7
    <3>2. f[n - 1] \in T
      BY <2>8, <3>1
    <3>3. next[n] \in [T -> T]
      BY <2>7
    <3>4. next[n][f[n - 1]] \in T
      BY <3>2, <3>3
    <3>5. QED
      BY <3>1, <3>4
  <2>10. \A i \in 0 .. n : i = n \/ i \in 0 .. n - 1
    BY <2>7
  <2>11. g \in [0 .. n -> T]
    <3>1. \A i \in 0 .. n : g[i] \in T
      <4> HIDE DEF g
      <4>1. QED
        BY <2>8, <2>9, <2>10
    <3>2. QED
      BY <3>1
  <2> HIDE DEF g
  <2>12. g[0] = base
    <3>1. 0 \in 0 .. n - 1
      BY <2>7
    <3>2. QED
      BY <2>6, <2>8, <3>1 DEF Turns
  <2>13. \A i \in 1 .. n : g[i] = next[i][g[i - 1]]
    <3> TAKE i \in 1 .. n
    <3>1. CASE i = n
      <4>1. n - 1 \in 0 .. n - 1
        BY <2>7
      <4>2. g[n - 1] = f[n - 1]
        BY <2>8, <4>1
      <4>3. QED
        BY <2>9, <3>1, <4>2
    <3>2. CASE i \in 1 .. n - 1
      <4>1. i \in 0 .. n - 1 /\ i - 1 \in 0 .. n - 1
        BY <2>7, <3>2
      <4>2. g[i] = f[i] /\ g[i - 1] = f[i - 1]
        BY <2>8, <4>1
      <4>3. f[i] = next[i][f[i - 1]]
        BY <2>6, <3>2 DEF Turns
      <4>4. QED
        BY <4>2, <4>3
    <3>3. QED
      BY <2>7, <3>1, <3>2
  <2>14. Turns(T, n, base, next, g)
    BY <2>11, <2>12, <2>13 DEF Turns
  <2>15. QED
    BY <2>3, <2>14
<1>2. N \in 0 .. N
  OBVIOUS
<1>3. N \notin without
  <2> HIDE DEF without
  <2>1. QED
    BY <1>1
<1>4. QED
  BY <1>2, <1>3

Table == MACON_FAULT_BITS

Collect(img, max, before, row) ==
  IF Len(before) < max /\ fault_lit(img, row) THEN Append(before, row) ELSE before

\* What the scan of the table leaves.
Scans(img, max, out) ==
  /\ out[0] = <<>>
  /\ \A n \in 1 .. Len(Table) : out[n] = Collect(img, max, out[n - 1], Table[n])

LEMMA TableRows ==
  /\ Table \in Seq(FaultBit) /\ Len(Table) \in Nat
  /\ \A n \in 1 .. Len(Table) : Table[n] \in Rows
  /\ \A row \in Rows : \E n \in 1 .. Len(Table) : Table[n] = row
  /\ Rows \subseteq FaultBit
  /\ \A m, n \in 1 .. Len(Table) : Table[m] = Table[n] => m = n
<1>1. Table \in Seq(FaultBit)
  BY FaultTableAssumption DEF Table
<1>2. DOMAIN Table = 1 .. Len(Table) /\ Len(Table) \in Nat
  BY <1>1
<1>3. Rows = {Table[n] : n \in 1 .. Len(Table)}
  BY <1>2 DEF Rows, ToSet, Table
<1>4. \A m, n \in 1 .. Len(Table) : Table[m] = Table[n] => m = n
  BY <1>2, FaultTableAssumption DEF Table
<1>5. Rows \subseteq FaultBit
  BY <1>1, <1>3, ElementOfSeq
<1>6. QED
  BY <1>1, <1>2, <1>3, <1>4, <1>5

LEMMA ScanOfTable ==
  ASSUME NEW img, NEW max \in Nat
  PROVE  \E out : Scans(img, max, out) /\ collect_faults(img, max) = out[Len(Table)]
<1> DEFINE N == Len(Table)
           T == Seq(Rows)
           next(h) == [n \in 0 .. N |->
                        IF n = 0 THEN <<>>
                        ELSE LET row == Table[n]
                                 before == h[n - 1]
                             IN  IF Len(before) < max /\ fault_lit(img, row)
                                 THEN Append(before, row) ELSE before]
           out == CHOOSE h : h = next(h)
           turn == [n \in 1 .. N |-> [s \in T |-> Collect(img, max, s, Table[n])]]
<1>1. N \in Nat /\ <<>> \in T
  BY TableRows
<1>2. turn \in [1 .. N -> [T -> T]]
  <2>1. \A n \in 1 .. N, s \in T : Collect(img, max, s, Table[n]) \in T
    <3> TAKE n \in 1 .. N, s \in T
    <3>1. Table[n] \in Rows
      BY TableRows
    <3>2. Append(s, Table[n]) \in T
      BY <3>1, AppendProperties
    <3>3. QED
      BY <3>2 DEF Collect
  <2>2. QED
    BY <2>1
<1>3. PICK f : Turns(T, N, <<>>, turn, f)
  <2> HIDE DEF N, T, turn
  <2>1. QED
    BY <1>1, <1>2, TurnsExist
<1>4. f = next(f)
  <2>1. f \in [0 .. N -> T] /\ f[0] = <<>> /\ \A i \in 1 .. N : f[i] = turn[i][f[i - 1]]
    BY <1>3 DEF Turns
  <2>2. \A i \in 1 .. N : f[i] = Collect(img, max, f[i - 1], Table[i])
    <3> TAKE i \in 1 .. N
    <3>1. i - 1 \in 0 .. N
      BY <1>1
    <3>2. f[i - 1] \in T
      BY <2>1, <3>1
    <3>3. turn[i][f[i - 1]] = Collect(img, max, f[i - 1], Table[i])
      BY <3>2
    <3>4. QED
      BY <2>1, <3>3
  <2> HIDE DEF turn, T
  <2>3. \A i \in 0 .. N : f[i] = next(f)[i]
    <3> TAKE i \in 0 .. N
    <3>1. CASE i = 0
      BY <2>1, <3>1
    <3>2. CASE i # 0
      <4>1. i \in 1 .. N
        BY <1>1, <3>2
      <4>2. f[i] = Collect(img, max, f[i - 1], Table[i])
        BY <2>2, <4>1
      <4>3. QED
        BY <3>2, <4>2 DEF Collect
    <3>3. QED
      BY <3>1, <3>2
  <2>4. f = [i \in 0 .. N |-> f[i]]
    BY <2>1
  <2>5. QED
    BY <2>3, <2>4
<1>5. out = next(out)
  BY <1>4
<1>6. collect_faults(img, max) = out[N]
  BY DEF collect_faults, Table
<1> HIDE DEF out, turn, T
<1>7. out[0] = <<>>
  <2>1. 0 \in 0 .. N
    BY <1>1
  <2>2. QED
    BY <1>5, <2>1
<1>8. \A n \in 1 .. N : out[n] = Collect(img, max, out[n - 1], Table[n])
  <2> TAKE n \in 1 .. N
  <2>1. n \in 0 .. N /\ n # 0
    BY <1>1
  <2>2. out[n] = next(out)[n]
    BY <1>5
  <2>3. next(out)[n] = Collect(img, max, out[n - 1], Table[n])
    BY <2>1 DEF Collect
  <2>4. QED
    BY <2>2, <2>3
<1>9. Scans(img, max, out)
  BY <1>7, <1>8 DEF Scans
<1>10. QED
  BY <1>6, <1>9

\* The lit faults among the first n rows.
LitTo(img, n) == {row \in litRows(img) : \E i \in 1 .. n : Table[i] = row}

Place(row) == CHOOSE i \in DOMAIN MACON_FAULT_BITS : MACON_FAULT_BITS[i] = row

LEMMA PlaceIs ==
  /\ \A n \in 1 .. Len(Table) : Place(Table[n]) = n
  /\ \A row \in Rows : Place(row) \in 1 .. Len(Table) /\ Table[Place(row)] = row
<1>1. DOMAIN MACON_FAULT_BITS = 1 .. Len(Table)
  BY TableRows DEF Table
<1>2. \A row \in Rows : Place(row) \in 1 .. Len(Table) /\ Table[Place(row)] = row
  BY <1>1, TableRows DEF Place, Table
<1>3. \A n \in 1 .. Len(Table) : Place(Table[n]) = n
  BY <1>2, TableRows
<1>4. QED
  BY <1>2, <1>3

\* What the scan has found after n rows: lit faults in the order of the
\* table, as many as there are or as there is room for.
InOrder(s) == \A j, k \in 1 .. Len(s) : j < k => Place(s[j]) < Place(s[k])

Found(img, max, n, s) ==
  /\ s \in Seq(Rows)
  /\ \A k \in 1 .. Len(s) : s[k] \in litRows(img) /\ Place(s[k]) <= n
  /\ InOrder(s)
  /\ Len(s) = IF max < Cardinality(LitTo(img, n)) THEN max ELSE Cardinality(LitTo(img, n))

\* One row more is lit, or none.
LEMMA LitGrows ==
  ASSUME NEW img, NEW n \in 1 .. Len(Table), IsFiniteSet(LitTo(img, n - 1))
  PROVE  /\ IsFiniteSet(LitTo(img, n))
         /\ Cardinality(LitTo(img, n)) =
              IF fault_lit(img, Table[n]) THEN Cardinality(LitTo(img, n - 1)) + 1
                                          ELSE Cardinality(LitTo(img, n - 1))
<1> DEFINE S == LitTo(img, n - 1)
           row == Table[n]
<1>1. n \in Nat /\ n - 1 \in Nat /\ \A i : i \in 1 .. n <=> i \in 1 .. n - 1 \/ i = n
  BY TableRows
<1>2. row \in Rows /\ row \notin S
  <2>1. \A i \in 1 .. n - 1 : i \in 1 .. Len(Table) /\ i # n
    BY <1>1, TableRows
  <2>2. QED
    BY <2>1, TableRows DEF LitTo
<1>3. row \in litRows(img) <=> fault_lit(img, row)
  BY <1>2 DEF litRows, FaultRows, fault_lit
<1>4. CASE fault_lit(img, row)
  <2>1. LitTo(img, n) = S \cup {row}
    BY <1>1, <1>3, <1>4 DEF LitTo
  <2>2. IsFiniteSet(S \cup {row}) /\ Cardinality(S \cup {row}) = Cardinality(S) + 1
    <3>1. IsFiniteSet(S)
      OBVIOUS
    <3> HIDE DEF S, row
    <3>2. QED
      BY <1>2, <3>1, FS_AddElement
  <2>3. QED
    BY <1>4, <2>1, <2>2
<1>5. CASE ~ fault_lit(img, row)
  <2>1. LitTo(img, n) = S
    BY <1>1, <1>3, <1>5 DEF LitTo
  <2>2. QED
    BY <1>5, <2>1
<1>6. QED
  BY <1>4, <1>5

LEMMA FoundNext ==
  ASSUME NEW img, NEW max \in Nat, NEW n \in 1 .. Len(Table), NEW s,
         Found(img, max, n - 1, s), IsFiniteSet(LitTo(img, n - 1))
  PROVE  Found(img, max, n, Collect(img, max, s, Table[n]))
<1> DEFINE row == Table[n]
           c == Cardinality(LitTo(img, n - 1))
           d == Cardinality(LitTo(img, n))
           t == Append(s, row)
<1>1. /\ n \in Nat /\ row \in Rows /\ Place(row) = n
      /\ c \in Nat /\ d = IF fault_lit(img, row) THEN c + 1 ELSE c
  BY TableRows, PlaceIs, LitGrows, FS_CardinalityType
<1>2. /\ s \in Seq(Rows) /\ Len(s) \in Nat /\ InOrder(s)
      /\ \A k \in 1 .. Len(s) : s[k] \in litRows(img) /\ Place(s[k]) <= n - 1
      /\ Len(s) = IF max < c THEN max ELSE c
  BY DEF Found
<1>p. \A k \in 1 .. Len(s) : Place(s[k]) \in Nat
  <2>1. \A k \in 1 .. Len(s) : s[k] \in Rows
    BY <1>2, ElementOfSeq
  <2>2. \A k \in 1 .. Len(s) : Place(s[k]) \in 1 .. Len(Table)
    BY <2>1, PlaceIs
  <2>3. QED
    BY <2>2
<1>g. \A k \in 1 .. Len(s) : s[k] \in litRows(img) /\ Place(s[k]) <= n
  BY <1>1, <1>2, <1>p
<1> HIDE DEF c, d, row, t
<1>3. CASE Len(s) < max /\ fault_lit(img, row)
  <2>1. /\ t \in Seq(Rows) /\ Len(t) = Len(s) + 1 /\ t[Len(s) + 1] = row
        /\ \A k \in 1 .. Len(s) : t[k] = s[k]
    BY <1>1, <1>2, AppendProperties DEF t
  <2>2. Collect(img, max, s, row) = t
    BY <1>3 DEF Collect, t
  <2>3. row \in litRows(img)
    BY <1>1, <1>3 DEF litRows, FaultRows, fault_lit
  <2>4. \A k \in 1 .. Len(t) : k \in 1 .. Len(s) \/ k = Len(s) + 1
    BY <1>2, <2>1
  <2>5. \A k \in 1 .. Len(t) : t[k] \in litRows(img) /\ Place(t[k]) <= n
    <3> TAKE k \in 1 .. Len(t)
    <3>1. CASE k \in 1 .. Len(s)
      <4>1. t[k] = s[k]
        BY <2>1, <3>1
      <4>2. s[k] \in litRows(img) /\ Place(s[k]) <= n
        BY <1>g, <3>1
      <4>3. QED
        BY <4>1, <4>2
    <3>2. CASE k = Len(s) + 1
      BY <1>1, <2>1, <2>3, <3>2
    <3>3. QED
      BY <2>4, <3>1, <3>2
  <2>6. InOrder(t)
    <3> SUFFICES ASSUME NEW j \in 1 .. Len(t), NEW k \in 1 .. Len(t), j < k
                 PROVE  Place(t[j]) < Place(t[k])
      BY DEF InOrder
    <3>1. j \in 1 .. Len(s)
      BY <1>2, <2>1
    <3>2. CASE k \in 1 .. Len(s)
      BY <1>2, <2>1, <3>1, <3>2 DEF InOrder
    <3>3. CASE k = Len(s) + 1
      BY <1>1, <1>2, <1>p, <2>1, <3>1, <3>3
    <3>4. QED
      BY <2>4, <3>2, <3>3
  <2>7. Len(t) = IF max < d THEN max ELSE d
    BY <1>1, <1>2, <1>3, <2>1
  <2>8. QED
    BY <2>1, <2>2, <2>5, <2>6, <2>7 DEF Found, row, d
<1>4. CASE ~ (Len(s) < max /\ fault_lit(img, row))
  <2>1. Collect(img, max, s, row) = s
    BY <1>4 DEF Collect
  <2>2. Len(s) = IF max < d THEN max ELSE d
    BY <1>1, <1>2, <1>4
  <2>3. \A k \in 1 .. Len(s) : s[k] \in litRows(img) /\ Place(s[k]) <= n
    BY <1>g
  <2>4. QED
    BY <1>2, <2>1, <2>2, <2>3 DEF Found, row, d
<1>5. QED
  BY <1>3, <1>4 DEF row

\* Its result: no least number of rows is without.
LEMMA ListFound ==
  ASSUME NEW img, NEW max \in Nat
  PROVE  /\ Found(img, max, Len(Table), collect_faults(img, max))
         /\ LitTo(img, Len(Table)) = litRows(img)
         /\ IsFiniteSet(litRows(img))
<1>1. PICK out : Scans(img, max, out) /\ collect_faults(img, max) = out[Len(Table)]
  BY ScanOfTable
<1> DEFINE N == Len(Table)
           good(n) == Found(img, max, n, out[n]) /\ IsFiniteSet(LitTo(img, n))
           bad == {n \in 0 .. N : ~ good(n)}
<1>2. bad = {}
  <2> SUFFICES ASSUME bad # {} PROVE FALSE
    OBVIOUS
  <2>1. bad \in SUBSET Nat
    OBVIOUS
  <2>2. PICK n \in bad : \A m \in bad : n <= m
    <3> HIDE DEF bad
    <3>1. QED
      BY <2>1, LeastElement
  <2>3. n \in 0 .. N /\ ~ good(n)
    BY <2>2
  <2>4. good(0)
    <3>1. LitTo(img, 0) = {}
      BY DEF LitTo
    <3>2. IsFiniteSet(LitTo(img, 0)) /\ Cardinality(LitTo(img, 0)) = 0
      BY <3>1, FS_EmptySet
    <3>3. out[0] = <<>>
      BY <1>1 DEF Scans
    <3>4. Found(img, max, 0, <<>>)
      BY <3>2 DEF Found, InOrder
    <3>5. QED
      BY <3>2, <3>3, <3>4
  <2>5. n \in 1 .. N
    <3> HIDE DEF good, bad
    <3>1. QED
      BY <2>3, <2>4, TableRows
  <2>6. good(n - 1)
    <3>1. n - 1 \in 0 .. N /\ n - 1 \notin bad
      <4> HIDE DEF good, bad
      <4>1. n - 1 \in 0 .. N /\ ~ (n <= n - 1)
        BY <2>5, TableRows
      <4>2. QED
        BY <2>2, <4>1
    <3>2. QED
      BY <3>1
  <2>7. Found(img, max, n, Collect(img, max, out[n - 1], Table[n]))
    BY <2>5, <2>6, FoundNext
  <2>8. IsFiniteSet(LitTo(img, n))
    BY <2>5, <2>6, LitGrows
  <2>9. out[n] = Collect(img, max, out[n - 1], Table[n])
    BY <1>1, <2>5 DEF Scans
  <2>10. QED
    BY <2>3, <2>7, <2>8, <2>9
<1>3. good(N)
  <2>1. N \in 0 .. N
    BY TableRows
  <2>2. N \notin bad
    <3> HIDE DEF bad
    <3>1. QED
      BY <1>2
  <2>3. QED
    BY <2>1, <2>2
<1>4. LitTo(img, N) = litRows(img)
  BY TableRows DEF LitTo, litRows, FaultRows
<1>5. QED
  BY <1>1, <1>3, <1>4

-----------------------------------------------------------------------------
(* Their order *)

\* A set of places has a last one.
LEMMA LastElement ==
  ASSUME NEW n \in Nat, NEW S, S \subseteq 1 .. n, S # {}
  PROVE  Max(S) \in S /\ \A k \in S : Max(S) >= k
<1> DEFINE T == {n - k : k \in S}
<1>1. T \in SUBSET Nat /\ T # {}
  <2>1. \A k \in S : n - k \in Nat
    OBVIOUS
  <2>2. QED
    BY <2>1
<1>2. PICK d \in T : \A e \in T : d <= e
  <2> HIDE DEF T
  <2>1. QED
    BY <1>1, LeastElement
<1>3. PICK m \in S : d = n - m
  BY <1>2
<1>4. \A k \in S : m >= k
  <2> TAKE k \in S
  <2>1. n - k \in T /\ k \in Int /\ m \in Int
    OBVIOUS
  <2>2. n - m <= n - k
    BY <1>2, <1>3, <2>1
  <2>3. QED
    BY <2>1, <2>2
<1>5. QED
  BY <1>3, <1>4 DEF Max

LEMMA Ranks == \A row \in Rows : rank(row) \in 1 .. 4
<1>1. DOMAIN Severities = 1 .. 4
  BY DEF Severities
<1>2. \A row \in Rows : row.severity \in ToSet(Severities)
  BY TableRows DEF FaultBit
<1>3. \A row \in Rows : \E i \in DOMAIN Severities : Severities[i] = row.severity
  BY <1>2 DEF ToSet
<1>4. QED
  BY <1>1, <1>3 DEF rank

Before(r, q) ==
  \/ rank(r) > rank(q)
  \/ rank(r) = rank(q) /\ Place(r) < Place(q)

Ordered(s) == \A j, k \in 1 .. Len(s) : j < k => Before(s[j], s[k])

LEMMA OrderedAt ==
  ASSUME NEW s, Ordered(s), NEW j \in 1 .. Len(s), NEW k \in 1 .. Len(s), j < k
  PROVE  Before(s[j], s[k])
BY DEF Ordered

\* The first n rows, ordered.
SortedTo(rows, n, s) ==
  /\ s \in Seq(Rows) /\ Len(s) = n
  /\ \A k \in 1 .. Len(s) : \E i \in 1 .. n : s[k] = rows[i]
  /\ Ordered(s)

Inserted(s, j, row) == SubSeq(s, 1, j) \o <<row>> \o SubSeq(s, j + 1, Len(s))

LEMMA InsertedIs ==
  ASSUME NEW s \in Seq(Rows), NEW j \in 0 .. Len(s), NEW row \in Rows
  PROVE  /\ Inserted(s, j, row) \in Seq(Rows)
         /\ Len(Inserted(s, j, row)) = Len(s) + 1
         /\ \A k \in 1 .. Len(s) + 1 :
              Inserted(s, j, row)[k] = IF k <= j THEN s[k]
                                       ELSE IF k = j + 1 THEN row ELSE s[k - 1]
<1> DEFINE a == SubSeq(s, 1, j)
           b == SubSeq(s, j + 1, Len(s))
           c == a \o <<row>>
<1>0. Len(s) \in Nat /\ j \in Nat /\ j <= Len(s) /\ \A k \in 1 .. Len(s) : s[k] \in Rows
  BY ElementOfSeq
<1>1. a \in Seq(Rows) /\ Len(a) = j /\ \A k \in 1 .. j : a[k] = s[k]
  <2>1. \A k \in 1 .. j : s[k] \in Rows
    BY <1>0
  <2>2. /\ a \in Seq(Rows) /\ Len(a) = (IF 1 <= j THEN (j - 1) + 1 ELSE 0)
        /\ \A k \in 1 .. (j - 1) + 1 : a[k] = s[(1 + k) - 1]
    BY <1>0, <2>1, SubSeqProperties
  <2> HIDE DEF a
  <2>3. QED
    BY <1>0, <2>2
<1>2. b \in Seq(Rows) /\ Len(b) = Len(s) - j /\ \A k \in 1 .. Len(s) - j : b[k] = s[j + k]
  <2>1. \A k \in j + 1 .. Len(s) : s[k] \in Rows
    BY <1>0
  <2>2. /\ b \in Seq(Rows)
        /\ Len(b) = (IF j + 1 <= Len(s) THEN (Len(s) - (j + 1)) + 1 ELSE 0)
        /\ \A k \in 1 .. (Len(s) - (j + 1)) + 1 : b[k] = s[((j + 1) + k) - 1]
    BY <1>0, <2>1, SubSeqProperties
  <2> HIDE DEF b
  <2>3. QED
    BY <1>0, <2>2
<1>3. c \in Seq(Rows) /\ Len(c) = j + 1
      /\ \A k \in 1 .. j + 1 : c[k] = IF k <= j THEN s[k] ELSE row
  <2>1. <<row>> \in Seq(Rows) /\ Len(<<row>>) = 1 /\ <<row>>[1] = row
    OBVIOUS
  <2> HIDE DEF a
  <2>2. /\ c \in Seq(Rows) /\ Len(c) = j + 1
        /\ \A k \in 1 .. j + 1 : c[k] = IF k <= j THEN a[k] ELSE <<row>>[k - j]
    BY <1>1, <2>1, ConcatProperties
  <2> HIDE DEF c
  <2>3. QED
    BY <1>0, <1>1, <2>1, <2>2
<1>4. Inserted(s, j, row) = c \o b
  BY DEF Inserted
<1> HIDE DEF a, b, c
<1>5. /\ c \o b \in Seq(Rows) /\ Len(c \o b) = Len(c) + Len(b)
      /\ \A k \in 1 .. Len(c) + Len(b) :
           (c \o b)[k] = IF k <= Len(c) THEN c[k] ELSE b[k - Len(c)]
  BY <1>2, <1>3, ConcatProperties
<1>6. Len(c) + Len(b) = Len(s) + 1
  BY <1>0, <1>2, <1>3
<1>7. \A k \in 1 .. Len(s) + 1 :
        (c \o b)[k] = IF k <= j THEN s[k] ELSE IF k = j + 1 THEN row ELSE s[k - 1]
  <2> TAKE k \in 1 .. Len(s) + 1
  <2>1. (c \o b)[k] = IF k <= j + 1 THEN c[k] ELSE b[k - (j + 1)]
    BY <1>3, <1>5, <1>6
  <2>2. CASE k <= j + 1
    BY <1>0, <1>3, <2>1, <2>2
  <2>3. CASE ~ (k <= j + 1)
    <3>1. k - (j + 1) \in 1 .. Len(s) - j /\ j + (k - (j + 1)) = k - 1
      BY <1>0, <2>3
    <3>2. b[k - (j + 1)] = s[k - 1]
      BY <1>2, <3>1
    <3>3. QED
      BY <1>0, <2>1, <2>3, <3>2
  <2>4. QED
    BY <2>2, <2>3
<1>8. QED
  BY <1>4, <1>5, <1>6, <1>7

\* A row is inserted behind the last of those it does not go in front of.
LEMMA InsertPlace ==
  ASSUME NEW s \in Seq(Rows), NEW row \in Rows
  PROVE  \E j \in 0 .. Len(s) :
           /\ insert_by_severity(s, row) = Inserted(s, j, row)
           /\ j # 0 => rank(s[j]) >= rank(row)
           /\ \A k \in j + 1 .. Len(s) : rank(row) > rank(s[k])
<1> DEFINE ahead == ahead_of(s, row)
           j == IF ahead = {} THEN 0 ELSE Max(ahead)
<1>1. Len(s) \in Nat /\ rank(row) \in Int /\ \A k \in 1 .. Len(s) : rank(s[k]) \in Int
  BY Ranks, ElementOfSeq
<1>2. ahead = {k \in 1 .. Len(s) : rank(s[k]) >= rank(row)}
  BY DEF ahead_of
<1>3. insert_by_severity(s, row) = Inserted(s, j, row)
  BY DEF insert_by_severity, Inserted
<1> HIDE DEF ahead
<1>4. CASE ahead = {}
  <2>1. j = 0 /\ 0 \in 0 .. Len(s)
    BY <1>1, <1>4
  <2>2. \A k \in 1 .. Len(s) : rank(row) > rank(s[k])
    BY <1>1, <1>2, <1>4
  <2>3. QED
    BY <1>3, <2>1, <2>2
<1>5. CASE ahead # {}
  <2>1. j \in ahead /\ \A k \in ahead : j >= k
    <3>1. ahead \subseteq 1 .. Len(s)
      BY <1>2
    <3>2. Max(ahead) \in ahead /\ \A k \in ahead : Max(ahead) >= k
      BY <1>1, <1>5, <3>1, LastElement
    <3>3. QED
      BY <1>5, <3>2
  <2> HIDE DEF j
  <2>2. j \in 1 .. Len(s) /\ rank(s[j]) >= rank(row)
    BY <1>2, <2>1
  <2>4. \A k \in j + 1 .. Len(s) : rank(row) > rank(s[k])
    <3> TAKE k \in j + 1 .. Len(s)
    <3>1. k \in 1 .. Len(s) /\ ~ (j >= k)
      BY <1>1, <2>2
    <3>2. k \notin ahead
      BY <2>1, <3>1
    <3>3. QED
      BY <1>1, <1>2, <3>1, <3>2
  <2>5. j \in 0 .. Len(s)
    BY <2>2
  <2>6. QED
    BY <1>3, <2>2, <2>4, <2>5
<1>6. QED
  BY <1>4, <1>5

LEMMA InsertNext ==
  ASSUME NEW rows \in Seq(Rows), InOrder(rows), NEW n \in 1 .. Len(rows),
         NEW s, SortedTo(rows, n - 1, s)
  PROVE  SortedTo(rows, n, insert_by_severity(s, rows[n]))
<1> DEFINE row == rows[n]
<1>1. /\ n \in Nat /\ row \in Rows
      /\ \A i \in 1 .. Len(rows) : rows[i] \in Rows
  BY ElementOfSeq
<1>2. /\ s \in Seq(Rows) /\ Len(s) = n - 1 /\ Ordered(s)
      /\ \A k \in 1 .. Len(s) : \E i \in 1 .. n - 1 : s[k] = rows[i]
  BY DEF SortedTo
<1>3. \A k \in 1 .. Len(s) : rank(s[k]) \in Int /\ Place(s[k]) < Place(row)
  <2> TAKE k \in 1 .. Len(s)
  <2>1. PICK i \in 1 .. n - 1 : s[k] = rows[i]
    BY <1>2
  <2>2. i \in 1 .. Len(rows) /\ i < n
    BY <1>1
  <2>3. Place(rows[i]) < Place(rows[n])
    BY <2>2 DEF InOrder
  <2>4. rank(s[k]) \in Int
    BY <1>1, <2>1, <2>2, Ranks
  <2>5. QED
    BY <2>1, <2>3, <2>4
<1>4. rank(row) \in Int
  BY <1>1, Ranks
<1>n. row = rows[n]
  OBVIOUS
<1> HIDE DEF row
<1>5. PICK j \in 0 .. Len(s) :
        /\ insert_by_severity(s, row) = Inserted(s, j, row)
        /\ j # 0 => rank(s[j]) >= rank(row)
        /\ \A k \in j + 1 .. Len(s) : rank(row) > rank(s[k])
  BY <1>1, <1>2, InsertPlace
<1>o. Ordered(s)
  BY <1>2
<1>r. \A k \in 1 .. Len(s) : \E i \in 1 .. n - 1 : s[k] = rows[i]
  BY <1>2
<1>h. \A k \in j + 1 .. Len(s) : rank(row) > rank(s[k])
  BY <1>5
<1>g. \A k \in 1 .. j : rank(s[k]) >= rank(row)
  <2> TAKE k \in 1 .. j
  <2>1. CASE k = j
    BY <1>5, <2>1
  <2>2. CASE k # j
    <3>1. k \in 1 .. Len(s) /\ j \in 1 .. Len(s) /\ k < j /\ j # 0
      BY <1>1, <1>2, <2>2
    <3>2. Before(s[k], s[j])
      BY <1>2, <3>1 DEF Ordered
    <3>3. rank(s[k]) \in Int /\ rank(s[j]) \in Int
      BY <1>3, <3>1
    <3>4. rank(s[k]) >= rank(s[j])
      BY <3>2, <3>3 DEF Before
    <3>5. rank(s[j]) >= rank(row)
      BY <1>5, <3>1
    <3>6. QED
      BY <1>4, <3>3, <3>4, <3>5
  <2>3. QED
    BY <2>1, <2>2
<1> DEFINE t == Inserted(s, j, row)
<1>6. /\ t \in Seq(Rows) /\ Len(t) = n
      /\ \A k \in 1 .. n : t[k] = IF k <= j THEN s[k]
                                  ELSE IF k = j + 1 THEN row ELSE s[k - 1]
  <2>1. Len(s) + 1 = n
    BY <1>1, <1>2
  <2>2. /\ t \in Seq(Rows) /\ Len(t) = Len(s) + 1
        /\ \A k \in 1 .. Len(s) + 1 : t[k] = IF k <= j THEN s[k]
                                  ELSE IF k = j + 1 THEN row ELSE s[k - 1]
    BY <1>1, <1>2, InsertedIs
  <2>3. QED
    BY <2>1, <2>2
<1> HIDE DEF t
<1>q. Len(s) = n - 1 /\ n \in Nat /\ j \in Nat /\ j <= n - 1
  BY <1>1, <1>2
<1>x. \A k \in 1 .. n : k <= j => t[k] = s[k] /\ k \in 1 .. Len(s)
  BY <1>6, <1>q
<1>y. \A k \in 1 .. n : k = j + 1 => t[k] = row
  BY <1>6, <1>q
<1>z. \A k \in 1 .. n : k > j + 1 => /\ t[k] = s[k - 1] /\ k - 1 \in 1 .. Len(s)
                                    /\ k - 1 \in j + 1 .. Len(s)
  <2> SUFFICES ASSUME NEW k \in 1 .. n, k > j + 1
               PROVE  /\ t[k] = s[k - 1] /\ k - 1 \in 1 .. Len(s)
                      /\ k - 1 \in j + 1 .. Len(s)
    OBVIOUS
  <2>1. ~ (k <= j) /\ k # j + 1
    BY <1>q
  <2>2. t[k] = s[k - 1]
    BY <1>6, <2>1
  <2>3. k - 1 \in 1 .. Len(s) /\ k - 1 \in j + 1 .. Len(s)
    BY <1>q
  <2>4. QED
    BY <2>2, <2>3
<1>7. \A k \in 1 .. n : \E i \in 1 .. n : t[k] = rows[i]
  <2> TAKE k \in 1 .. n
  <2>1. CASE k <= j
    <3>1. k \in 1 .. Len(s) /\ t[k] = s[k]
      BY <1>x, <2>1
    <3>2. PICK i \in 1 .. n - 1 : s[k] = rows[i]
      BY <1>2, <3>1
    <3>3. i \in 1 .. n
      BY <1>1
    <3>4. QED
      BY <3>1, <3>2, <3>3
  <2>2. CASE k = j + 1
    <3>1. t[k] = row
      BY <1>y, <2>2
    <3>2. QED
      BY <1>1, <1>n, <3>1
  <2>3. CASE k > j + 1
    <3>1. k - 1 \in 1 .. Len(s) /\ t[k] = s[k - 1]
      BY <1>z, <2>3
    <3>2. PICK i \in 1 .. n - 1 : s[k - 1] = rows[i]
      BY <1>r, <3>1
    <3>3. i \in 1 .. n
      BY <1>1
    <3>4. QED
      BY <3>1, <3>2, <3>3
  <2>4. k <= j \/ k = j + 1 \/ k > j + 1
    BY <1>1, <1>2
  <2>5. QED
    BY <2>1, <2>2, <2>3, <2>4
<1>8. Ordered(t)
  <2> SUFFICES ASSUME NEW a \in 1 .. n, NEW b \in 1 .. n, a < b
               PROVE  Before(t[a], t[b])
    BY <1>6 DEF Ordered
  <2>0. j \in Nat /\ j <= n - 1 /\ a \in Nat /\ b \in Nat
    BY <1>1, <1>2
  <2>1. CASE a <= j /\ b <= j
    <3>1. a \in 1 .. Len(s) /\ b \in 1 .. Len(s) /\ t[a] = s[a] /\ t[b] = s[b]
      BY <1>x, <2>1
    <3>2. Before(s[a], s[b])
      BY <1>o, <3>1, OrderedAt
    <3>3. QED
      BY <3>1, <3>2
  <2>2. CASE a <= j /\ b = j + 1
    <3>1. a \in 1 .. Len(s) /\ a \in 1 .. j /\ t[a] = s[a] /\ t[b] = row
      BY <1>x, <1>y, <2>0, <2>2
    <3>2. rank(s[a]) >= rank(row) /\ rank(s[a]) \in Int /\ Place(s[a]) < Place(row)
      BY <1>3, <1>g, <3>1
    <3>3. rank(s[a]) > rank(row) \/ rank(s[a]) = rank(row)
      BY <1>4, <3>2
    <3>4. QED
      BY <3>1, <3>2, <3>3 DEF Before
  <2>3. CASE a <= j /\ b > j + 1
    <3>1. /\ a \in 1 .. Len(s) /\ b - 1 \in 1 .. Len(s) /\ a < b - 1
          /\ t[a] = s[a] /\ t[b] = s[b - 1]
      BY <1>x, <1>z, <2>0, <2>3
    <3>2. Before(s[a], s[b - 1])
      BY <1>o, <3>1, OrderedAt
    <3>3. QED
      BY <3>1, <3>2
  <2>4. CASE a = j + 1 /\ b > j + 1
    <3>1. b - 1 \in 1 .. Len(s) /\ b - 1 \in j + 1 .. Len(s) /\ t[a] = row /\ t[b] = s[b - 1]
      BY <1>y, <1>z, <2>4
    <3>2. rank(row) > rank(s[b - 1])
      BY <1>h, <3>1
    <3>3. Before(row, s[b - 1])
      BY <3>2 DEF Before
    <3>4. QED
      BY <3>1, <3>3
  <2>5. CASE a > j + 1 /\ b > j + 1
    <3>1. /\ a - 1 \in 1 .. Len(s) /\ b - 1 \in 1 .. Len(s) /\ a - 1 < b - 1
          /\ t[a] = s[a - 1] /\ t[b] = s[b - 1]
      BY <1>z, <2>0, <2>5
    <3>2. Before(s[a - 1], s[b - 1])
      BY <1>o, <3>1, OrderedAt
    <3>3. QED
      BY <3>1, <3>2
  <2>6. QED
    BY <2>0, <2>1, <2>2, <2>3, <2>4, <2>5
<1>9. SortedTo(rows, n, t)
  BY <1>6, <1>7, <1>8 DEF SortedTo
<1>10. QED
  BY <1>5, <1>9, <1>n DEF t

\* What the sort leaves after each turn.
Sorts(rows, sorted) ==
  /\ sorted[0] = <<>>
  /\ \A n \in 1 .. Len(rows) : sorted[n] = insert_by_severity(sorted[n - 1], rows[n])


LEMMA InsertType ==
  \A s \in Seq(Rows), row \in Rows : insert_by_severity(s, row) \in Seq(Rows)
<1> TAKE s \in Seq(Rows), row \in Rows
<1>1. PICK j \in 0 .. Len(s) : insert_by_severity(s, row) = Inserted(s, j, row)
  BY InsertPlace
<1>2. QED
  BY <1>1, InsertedIs

LEMMA SortOfRows ==
  ASSUME NEW rows \in Seq(Rows)
  PROVE  \E sorted : Sorts(rows, sorted) /\ sort_by_severity(rows) = sorted[Len(rows)]
<1> DEFINE N == Len(rows)
           T == Seq(Rows)
           next(h) == [n \in 0 .. N |-> IF n = 0 THEN <<>>
                                        ELSE insert_by_severity(h[n - 1], rows[n])]
           sorted == CHOOSE h : h = next(h)
           turn == [n \in 1 .. N |-> [s \in T |-> insert_by_severity(s, rows[n])]]
<1>1. N \in Nat /\ <<>> \in T
  OBVIOUS
<1>2. turn \in [1 .. N -> [T -> T]]
  <2>1. \A n \in 1 .. N, s \in T : insert_by_severity(s, rows[n]) \in T
    BY InsertType, ElementOfSeq
  <2> HIDE DEF T
  <2>2. QED
    BY <2>1
<1>3. PICK f : Turns(T, N, <<>>, turn, f)
  <2> HIDE DEF N, T, turn
  <2>1. QED
    BY <1>1, <1>2, TurnsExist
<1>4. f = next(f)
  <2>1. f \in [0 .. N -> T] /\ f[0] = <<>> /\ \A i \in 1 .. N : f[i] = turn[i][f[i - 1]]
    BY <1>3 DEF Turns
  <2>2. \A i \in 1 .. N : f[i] = insert_by_severity(f[i - 1], rows[i])
    <3> TAKE i \in 1 .. N
    <3>1. i - 1 \in 0 .. N
      BY <1>1
    <3>2. f[i - 1] \in T
      BY <2>1, <3>1
    <3>3. turn[i][f[i - 1]] = insert_by_severity(f[i - 1], rows[i])
      BY <3>2
    <3>4. QED
      BY <2>1, <3>3
  <2> HIDE DEF turn, T
  <2>3. \A i \in 0 .. N : f[i] = next(f)[i]
    <3> TAKE i \in 0 .. N
    <3>1. CASE i = 0
      BY <2>1, <3>1
    <3>2. CASE i # 0
      <4>1. i \in 1 .. N
        BY <1>1, <3>2
      <4>2. QED
        BY <2>2, <3>2, <4>1
    <3>3. QED
      BY <3>1, <3>2
  <2>4. f = [i \in 0 .. N |-> f[i]]
    BY <2>1
  <2>5. QED
    BY <2>3, <2>4
<1>5. sorted = next(sorted)
  BY <1>4
<1>6. sort_by_severity(rows) = sorted[N]
  BY DEF sort_by_severity
<1> HIDE DEF sorted, turn, T
<1>7. sorted[0] = <<>>
  <2>1. 0 \in 0 .. N
    BY <1>1
  <2>2. QED
    BY <1>5, <2>1
<1>8. \A n \in 1 .. N : sorted[n] = insert_by_severity(sorted[n - 1], rows[n])
  <2> TAKE n \in 1 .. N
  <2>1. n \in 0 .. N /\ n # 0
    BY <1>1
  <2>2. sorted[n] = next(sorted)[n]
    BY <1>5
  <2>3. QED
    BY <2>1, <2>2
<1>9. Sorts(rows, sorted)
  BY <1>7, <1>8 DEF Sorts
<1>10. QED
  BY <1>6, <1>9

\* Its result: no least number of turns is without.
LEMMA RowsSorted ==
  ASSUME NEW rows \in Seq(Rows), InOrder(rows)
  PROVE  SortedTo(rows, Len(rows), sort_by_severity(rows))
<1>1. PICK sorted : Sorts(rows, sorted) /\ sort_by_severity(rows) = sorted[Len(rows)]
  BY SortOfRows
<1> DEFINE N == Len(rows)
           good(n) == SortedTo(rows, n, sorted[n])
           bad == {n \in 0 .. N : ~ good(n)}
<1>n. N \in Nat
  OBVIOUS
<1>2. bad = {}
  <2> SUFFICES ASSUME bad # {} PROVE FALSE
    OBVIOUS
  <2>1. bad \in SUBSET Nat
    OBVIOUS
  <2>2. PICK n \in bad : \A m \in bad : n <= m
    <3> HIDE DEF bad
    <3>1. QED
      BY <2>1, LeastElement
  <2>3. n \in 0 .. N /\ ~ good(n)
    BY <2>2
  <2>4. good(0)
    <3>1. SortedTo(rows, 0, <<>>)
      BY DEF SortedTo, Ordered
    <3>2. QED
      BY <1>1, <3>1 DEF Sorts
  <2>5. n \in 1 .. N
    <3> HIDE DEF good, bad
    <3>1. QED
      BY <1>n, <2>3, <2>4
  <2>6. good(n - 1)
    <3>1. n - 1 \in 0 .. N /\ n - 1 \notin bad
      <4> HIDE DEF good, bad
      <4>1. n - 1 \in 0 .. N /\ ~ (n <= n - 1)
        BY <1>n, <2>5
      <4>2. QED
        BY <2>2, <4>1
    <3>2. QED
      BY <3>1
  <2>7. good(n)
    <3>1. SortedTo(rows, n, insert_by_severity(sorted[n - 1], rows[n]))
      BY <2>5, <2>6, InsertNext
    <3>2. QED
      BY <1>1, <2>5, <3>1 DEF Sorts
  <2>8. QED
    BY <2>3, <2>7
<1>3. good(N)
  <2>1. N \in 0 .. N
    BY <1>n
  <2>2. N \notin bad
    <3> HIDE DEF bad
    <3>1. QED
      BY <1>2
  <2>3. QED
    BY <2>1, <2>2
<1>4. QED
  BY <1>1, <1>3

Least(m, n) == IF m < n THEN m ELSE n

\* What macon_decode_faults gives a caller with room for max faults.
LEMMA DecodeIs ==
  ASSUME NEW img, NEW max \in Nat, NEW list, list = macon_decode_faults(img, max)
  PROVE  /\ list \in Seq(Rows)
         /\ Len(list) = Least(max, Cardinality(litRows(img)))
         /\ \A k \in 1 .. Len(list) : list[k] \in litRows(img)
         /\ Ordered(list)
<1> DEFINE rows == collect_faults(img, max)
<1>1. /\ Found(img, max, Len(Table), rows)
      /\ LitTo(img, Len(Table)) = litRows(img)
  BY ListFound
<1>2. list = sort_by_severity(rows)
  BY DEF macon_decode_faults
<1> HIDE DEF rows
<1>3. /\ rows \in Seq(Rows) /\ InOrder(rows)
      /\ \A k \in 1 .. Len(rows) : rows[k] \in litRows(img)
      /\ Len(rows) = Least(max, Cardinality(litRows(img)))
  BY <1>1 DEF Found, Least
<1>4. SortedTo(rows, Len(rows), list)
  BY <1>2, <1>3, RowsSorted
<1>5. QED
  BY <1>3, <1>4 DEF SortedTo

\* For every image, whether or not a run reaches it.
LEMMA FaultsTold == DecodeTellsTheFaults
<1> DEFINE lits == litRows(image)
<1>1. IsFiniteSet(lits) /\ Cardinality(lits) \in Nat
  BY ListFound, FS_CardinalityType
<1> SUFFICES ASSUME NEW max \in 0 .. Cardinality(lits) + 1, NEW list,
                    list = macon_decode_faults(image, max)
             PROVE  /\ Len(list) = Least(max, Cardinality(lits))
                    /\ ToSet(list) \subseteq lits
                    /\ \A i \in 1 .. Len(list) - 1 : Before(list[i], list[i + 1])
  BY DEF DecodeTellsTheFaults, Before, Place, Least
<1>2. max \in Nat
  BY <1>1
<1>3. /\ list \in Seq(Rows)
      /\ Len(list) = Least(max, Cardinality(lits))
      /\ \A k \in 1 .. Len(list) : list[k] \in lits
      /\ Ordered(list)
  BY <1>2, DecodeIs
<1> HIDE DEF lits
<1>4. ToSet(list) \subseteq lits
  BY <1>3 DEF ToSet
<1>5. \A i \in 1 .. Len(list) - 1 : Before(list[i], list[i + 1])
  <2> TAKE i \in 1 .. Len(list) - 1
  <2>1. Len(list) \in Nat
    BY <1>3
  <2>2. i \in 1 .. Len(list) /\ i + 1 \in 1 .. Len(list) /\ i < i + 1
    BY <2>1
  <2>3. QED
    BY <1>3, <2>2 DEF Ordered
<1>6. QED
  BY <1>3, <1>4, <1>5

\* The list of faults tells, for every table, image and length the caller
\* allows, lit faults only, each once, the most severe first and equals in the
\* order of the table; a list that is long enough tells all of them.
THEOREM FaultsAreTold == Spec => []DecodeTellsTheFaults
<1>1. DecodeTellsTheFaults
  BY FaultsTold
<1>2. QED
  BY <1>1, PTL
=============================================================================
