---------------------------- MODULE SessionProofs ----------------------------
(***************************************************************************)
(* A session for every table of windows, every call and every bus that     *)
(* loses or delays frames: the master and the unit implement the register  *)
(* service, an answer tells what it claims of the unit, and what is        *)
(* written reads back as what was asked for.                               *)
(*                                                                         *)
(* The parts of the invariant are operators of the log, the bus and so on, *)
(* so that the lemmas about them speak of no state.                        *)
(***************************************************************************)
EXTENDS Session, WireProofs

\* What the unit holds before any write.
FirstUnit == with_baseline(UnitStart)

PostType == [reg : DOMAIN FirstUnit, value : Byte]

-----------------------------------------------------------------------------
(* The log: the writes posted, and which of them the unit applied *)

\* The unit applied some of the posts, each once, in their order.
Log(ps, ds) ==
  /\ ps \in Seq(PostType)
  /\ ds \in Seq(Nat)
  /\ \A k \in 1 .. Len(ds) : ds[k] \in 1 .. Len(ps)
  /\ \A j, k \in 1 .. Len(ds) : j < k => ds[j] < ds[k]

\* The first n of these that write a register, and what they leave in it.
WritesOf(ps, ds, n, r) == {k \in 1 .. n : ps[ds[k]].reg = r}

Greatest(S) == CHOOSE x \in S : \A y \in S : x >= y

Replay(ps, ds, n, r) ==
  IF WritesOf(ps, ds, n, r) = {} THEN FirstUnit[r]
  ELSE ps[ds[Greatest(WritesOf(ps, ds, n, r))]].value

\* It is what the service shows.
LEMMA ReplayIsAfter ==
  \A n, r : Service!After(n, r) = Replay(posts, done, n, r)
BY Zenon DEF Service!After, Service!Max, Replay, WritesOf, Greatest, FirstUnit

\* A nonempty set of numbers up to n has a greatest.
LEMMA GreatestExists ==
  ASSUME NEW n \in Nat, NEW S \in SUBSET (1 .. n), S # {}
  PROVE  Greatest(S) \in S /\ \A y \in S : Greatest(S) >= y
<1> DEFINE T == {n - y : y \in S}
<1>1. T \in SUBSET Nat /\ T # {}
  <2>1. \A y \in S : n - y \in Nat
    OBVIOUS
  <2>2. QED
    BY <2>1
<1>2. PICK t \in T : \A u \in T : t <= u
  BY <1>1, LeastElement
<1>3. PICK x \in S : t = n - x
  BY <1>2
<1>4. \A y \in S : x >= y
  <2> TAKE y \in S
  <2>1. n - y \in T
    OBVIOUS
  <2> HIDE DEF T
  <2>2. n - x <= n - y
    BY <1>2, <1>3, <2>1
  <2>3. QED
    BY <2>2
<1>5. QED
  BY <1>4 DEF Greatest

\* The last of them.
NoWrite(ps, ds, n, r) == \A k \in 1 .. n : ps[ds[k]].reg # r

LastWrite(ps, ds, n, r, k) ==
  /\ k \in 1 .. n
  /\ ps[ds[k]].reg = r
  /\ \A j \in 1 .. n : ps[ds[j]].reg = r => j <= k

\* Either nothing was written, or the last write tells the value.
LEMMA ReplayCases ==
  ASSUME NEW ps, NEW ds, NEW n \in Nat, NEW r
  PROVE  \/ NoWrite(ps, ds, n, r) /\ Replay(ps, ds, n, r) = FirstUnit[r]
         \/ \E k : LastWrite(ps, ds, n, r, k) /\ Replay(ps, ds, n, r) = ps[ds[k]].value
<1> DEFINE W == WritesOf(ps, ds, n, r)
<1>1. CASE W = {}
  BY <1>1 DEF WritesOf, Replay, NoWrite
<1>2. CASE W # {}
  <2>1. W \in SUBSET (1 .. n)
    BY DEF WritesOf
  <2>2. Greatest(W) \in W /\ \A y \in W : Greatest(W) >= y
    BY <1>2, <2>1, GreatestExists
  <2> DEFINE k == Greatest(W)
  <2>3. Replay(ps, ds, n, r) = ps[ds[k]].value
    BY <1>2 DEF Replay
  <2> HIDE DEF k
  <2>4. k \in 1 .. n /\ ps[ds[k]].reg = r
    BY <2>2 DEF WritesOf, k
  <2>5. \A j \in 1 .. n : ps[ds[j]].reg = r => j <= k
    BY <2>2, <2>4 DEF WritesOf, k
  <2>6. LastWrite(ps, ds, n, r, k)
    BY <2>4, <2>5 DEF LastWrite
  <2>7. QED
    BY <2>3, <2>6
<1>3. QED
  BY <1>1, <1>2

\* It is the value of the last write.
LEMMA ReplayLast ==
  ASSUME NEW ps, NEW ds, NEW n \in Nat, NEW r, NEW k, LastWrite(ps, ds, n, r, k)
  PROVE  Replay(ps, ds, n, r) = ps[ds[k]].value
<1>1. ~ NoWrite(ps, ds, n, r)
  BY DEF NoWrite, LastWrite
<1>2. PICK i : LastWrite(ps, ds, n, r, i) /\ Replay(ps, ds, n, r) = ps[ds[i]].value
  BY <1>1, ReplayCases
<1>3. i = k
  <2>1. i \in 1 .. n /\ k \in 1 .. n /\ i <= k /\ k <= i
    BY <1>2 DEF LastWrite
  <2>2. QED
    BY <2>1
<1>4. QED
  BY <1>2, <1>3

LEMMA ReplayNone ==
  ASSUME NEW ps, NEW ds, NEW n \in Nat, NEW r, NoWrite(ps, ds, n, r)
  PROVE  Replay(ps, ds, n, r) = FirstUnit[r]
<1>1. \A k : ~ LastWrite(ps, ds, n, r, k)
  BY DEF NoWrite, LastWrite
<1>2. QED
  BY <1>1, ReplayCases

\* It depends on the first n writes only.
LEMMA ReplaySame ==
  ASSUME NEW ps, NEW ds, NEW qs, NEW es, NEW n \in Nat, NEW r,
         \A k \in 1 .. n : qs[es[k]] = ps[ds[k]]
  PROVE  Replay(qs, es, n, r) = Replay(ps, ds, n, r)
<1>1. CASE NoWrite(ps, ds, n, r)
  <2>1. NoWrite(qs, es, n, r)
    BY <1>1 DEF NoWrite
  <2>2. Replay(ps, ds, n, r) = FirstUnit[r]
    BY <1>1, ReplayNone
  <2>3. Replay(qs, es, n, r) = FirstUnit[r]
    BY <2>1, ReplayNone
  <2>4. QED
    BY <2>2, <2>3
<1>2. CASE ~ NoWrite(ps, ds, n, r)
  <2>1. PICK k : LastWrite(ps, ds, n, r, k) /\ Replay(ps, ds, n, r) = ps[ds[k]].value
    BY <1>2, ReplayCases
  <2>2. LastWrite(qs, es, n, r, k) /\ qs[es[k]] = ps[ds[k]]
    BY <2>1 DEF LastWrite
  <2>3. Replay(qs, es, n, r) = qs[es[k]].value
    BY <2>2, ReplayLast
  <2>4. QED
    BY <2>1, <2>2, <2>3
<1>3. QED
  BY <1>1, <1>2

\* Another post changes nothing of it.
LEMMA ReplayPost ==
  ASSUME NEW ps, NEW ds, Log(ps, ds), NEW x \in PostType, NEW n \in 0 .. Len(ds), NEW r
  PROVE  Replay(Append(ps, x), ds, n, r) = Replay(ps, ds, n, r)
<1> DEFINE qs == Append(ps, x)
<1>1. \A i \in 1 .. Len(ps) : qs[i] = ps[i]
  BY AppendProperties DEF Log
<1>2. n \in Nat /\ Len(ds) \in Nat /\ n <= Len(ds)
  BY DEF Log
<1>3. \A k \in 1 .. Len(ds) : ds[k] \in 1 .. Len(ps)
  BY DEF Log
<1> HIDE DEF qs
<1>4. \A k \in 1 .. n : qs[ds[k]] = ps[ds[k]]
  BY <1>1, <1>2, <1>3
<1>5. Replay(qs, ds, n, r) = Replay(ps, ds, n, r)
  BY <1>2, <1>4, ReplaySame
<1>6. QED
  BY <1>5 DEF qs

\* Nor does another write that is applied, of what was there before.
LEMMA ReplayDone ==
  ASSUME NEW ps, NEW ds, Log(ps, ds), NEW i \in Nat, NEW n \in 0 .. Len(ds), NEW r
  PROVE  Replay(ps, Append(ds, i), n, r) = Replay(ps, ds, n, r)
<1> DEFINE es == Append(ds, i)
<1>1. ds \in Seq(Nat) /\ n \in Nat
  BY DEF Log
<1>2. \A k \in 1 .. Len(ds) : es[k] = ds[k]
  BY <1>1, AppendProperties
<1> HIDE DEF es
<1>3. \A k \in 1 .. n : ps[es[k]] = ps[ds[k]]
  BY <1>1, <1>2
<1>4. Replay(ps, es, n, r) = Replay(ps, ds, n, r)
  BY <1>1, <1>3, ReplaySame
<1>5. QED
  BY <1>4 DEF es

\* Behind it a register holds what was written, and the others what they held.
LEMMA ReplayNext ==
  ASSUME NEW ps, NEW ds, Log(ps, ds), NEW i \in Nat, NEW r
  PROVE  Replay(ps, Append(ds, i), Len(ds) + 1, r)
           = IF ps[i].reg = r THEN ps[i].value ELSE Replay(ps, ds, Len(ds), r)
<1> DEFINE es == Append(ds, i)
           n == Len(ds)
<1>1. ds \in Seq(Nat) /\ n \in Nat /\ n + 1 \in Nat
  BY DEF Log
<1>2. es[n + 1] = i /\ \A k \in 1 .. n : es[k] = ds[k]
  BY <1>1, AppendProperties
<1> HIDE DEF es, n
<1>3. CASE ps[i].reg = r
  <2>1. LastWrite(ps, es, n + 1, r, n + 1)
    BY <1>1, <1>2, <1>3 DEF LastWrite
  <2>2. Replay(ps, es, n + 1, r) = ps[es[n + 1]].value
    BY <1>1, <2>1, ReplayLast
  <2>3. QED
    BY <1>2, <1>3, <2>2 DEF es, n
<1>4. CASE ps[i].reg # r
  <2>1. CASE NoWrite(ps, ds, n, r)
    <3>1. NoWrite(ps, es, n + 1, r)
      BY <1>1, <1>2, <1>4, <2>1 DEF NoWrite
    <3>2. Replay(ps, es, n + 1, r) = FirstUnit[r]
      BY <1>1, <3>1, ReplayNone
    <3>3. Replay(ps, ds, n, r) = FirstUnit[r]
      BY <1>1, <2>1, ReplayNone
    <3>4. QED
      BY <1>4, <3>2, <3>3 DEF es, n
  <2>2. CASE ~ NoWrite(ps, ds, n, r)
    <3>1. PICK k : LastWrite(ps, ds, n, r, k) /\ Replay(ps, ds, n, r) = ps[ds[k]].value
      BY <1>1, <2>2, ReplayCases
    <3>2. LastWrite(ps, es, n + 1, r, k) /\ es[k] = ds[k]
      <4>1. /\ k \in 1 .. n /\ ps[ds[k]].reg = r
            /\ \A j \in 1 .. n : ps[ds[j]].reg = r => j <= k
        BY <3>1 DEF LastWrite
      <4>2. \A j \in 1 .. n + 1 : j \in 1 .. n \/ j = n + 1
        BY <1>1
      <4>3. \A j \in 1 .. n + 1 : ps[es[j]].reg = r => j <= k
        BY <1>2, <1>4, <4>1, <4>2
      <4>4. k \in 1 .. n + 1 /\ es[k] = ds[k]
        BY <1>1, <1>2, <4>1
      <4>5. QED
        BY <4>1, <4>3, <4>4 DEF LastWrite
    <3>3. Replay(ps, es, n + 1, r) = ps[es[k]].value
      BY <1>1, <3>2, ReplayLast
    <3>4. QED
      BY <1>4, <3>1, <3>2, <3>3 DEF es, n
  <2>3. QED
    BY <2>1, <2>2
<1>5. QED
  BY <1>3, <1>4

\* What a register holds is a byte.
LEMMA ReplayValue ==
  ASSUME NEW ps, NEW ds, NEW n \in Nat, NEW r
  PROVE  Replay(ps, ds, n, r) \in {FirstUnit[r]} \cup {ps[ds[k]].value : k \in 1 .. n}
<1>1. CASE NoWrite(ps, ds, n, r)
  <2>1. Replay(ps, ds, n, r) = FirstUnit[r]
    BY <1>1, ReplayNone
  <2>2. QED
    BY <2>1
<1>2. CASE ~ NoWrite(ps, ds, n, r)
  <2>1. PICK k : LastWrite(ps, ds, n, r, k) /\ Replay(ps, ds, n, r) = ps[ds[k]].value
    BY <1>2, ReplayCases
  <2>2. k \in 1 .. n
    BY <2>1 DEF LastWrite
  <2>3. QED
    BY <2>1, <2>2
<1>3. QED
  BY <1>1, <1>2

LEMMA ReplayType ==
  ASSUME NEW ps, NEW ds, Log(ps, ds), NEW n \in 0 .. Len(ds), NEW r,
         FirstUnit[r] \in Byte
  PROVE  Replay(ps, ds, n, r) \in Byte
<1>1. n \in Nat /\ n <= Len(ds) /\ Len(ds) \in Nat
  BY DEF Log
<1>2. Replay(ps, ds, n, r) \in {FirstUnit[r]} \cup {ps[ds[k]].value : k \in 1 .. n}
  BY <1>1, ReplayValue
<1>3. \A k \in 1 .. n : ds[k] \in 1 .. Len(ps) /\ ps \in Seq(PostType)
  BY <1>1 DEF Log
<1>4. \A k \in 1 .. n : ps[ds[k]] \in PostType
  BY <1>3, ElementOfSeq
<1>5. QED
  BY <1>2, <1>4 DEF PostType
-----------------------------------------------------------------------------
(* The frames under way to the unit *)

FrameType ==
  [dir : {DIR_REQUEST, DIR_RESPONSE}, fc : Nat, field_a : Nat, field_b : Nat,
   payload : Seq(Byte), tag : Nat]

\* A command carries its post.
Carries(f, ps) ==
  /\ f.tag \in 1 .. Len(ps)
  /\ f.payload = <<ps[f.tag].value>>
  /\ registers_at(f.field_a) = {ps[f.tag].reg}

Newer(ds, i) == \A k \in 1 .. Len(ds) : ds[k] < i

IsRequest(f, ps, ds) ==
  \/ f.fc = FC_CMD /\ Carries(f, ps) /\ Newer(ds, f.tag)
  \/ f.fc = FC_READ /\ is_known_window(f.field_a, f.field_b)

Ordered(f, g) == f.fc = FC_CMD /\ g.fc = FC_CMD => f.tag < g.tag

\* Commands, newer than all the unit applied and in the order of the calls,
\* and polls.
Requests(bus, ps, ds) ==
  /\ bus \in Seq(FrameType)
  /\ \A p \in 1 .. Len(bus) : IsRequest(bus[p], ps, ds)
  /\ \A p, q \in 1 .. Len(bus) : p < q => Ordered(bus[p], bus[q])

\* The frames behind the first n, one by one.
LEMMA Flushed ==
  ASSUME NEW S, NEW bus \in Seq(S), NEW n \in 0 .. Len(bus)
  PROVE  /\ flush_rx(bus, n) \in Seq(S)
         /\ Len(flush_rx(bus, n)) = Len(bus) - n
         /\ \A p \in 1 .. Len(bus) - n : flush_rx(bus, n)[p] = bus[n + p]
<1>1. Len(bus) \in Nat /\ n \in Int /\ n + 1 \in Int /\ Len(bus) \in Int /\ n <= Len(bus)
  OBVIOUS
<1>2. \A i \in n + 1 .. Len(bus) : bus[i] \in S
  BY <1>1
<1>3. /\ SubSeq(bus, n + 1, Len(bus)) \in Seq(S)
      /\ Len(SubSeq(bus, n + 1, Len(bus)))
           = IF n + 1 <= Len(bus) THEN Len(bus) - (n + 1) + 1 ELSE 0
      /\ \A i \in 1 .. Len(bus) - (n + 1) + 1 :
           SubSeq(bus, n + 1, Len(bus))[i] = bus[n + 1 + i - 1]
  BY <1>1, <1>2, SubSeqProperties
<1> DEFINE t == SubSeq(bus, n + 1, Len(bus))
<1>4. flush_rx(bus, n) = t
  BY DEF flush_rx
<1> HIDE DEF t
<1>5. Len(t) = Len(bus) - n
  BY <1>1, <1>3 DEF t
<1>6. \A p \in 1 .. Len(bus) - n : t[p] = bus[n + p]
  <2> TAKE p \in 1 .. Len(bus) - n
  <2>1. p \in 1 .. Len(bus) - (n + 1) + 1 /\ n + 1 + p - 1 = n + p
    BY <1>1
  <2>2. QED
    BY <1>3, <2>1 DEF t
<1>7. QED
  BY <1>3, <1>4, <1>5, <1>6 DEF t

\* One frame is taken from a bus.
LEMMA Taken ==
  ASSUME NEW S, NEW bus \in Seq(S), bus # <<>>
  PROVE  /\ Tail(bus) = flush_rx(bus, 1) /\ 1 \in 0 .. Len(bus)
         /\ Head(bus) = bus[1] /\ 1 \in 1 .. Len(bus) /\ Head(bus) \in S
         /\ Tail(bus) \in Seq(S) /\ Len(Tail(bus)) = Len(bus) - 1
         /\ \A p \in 1 .. Len(Tail(bus)) : Tail(bus)[p] = bus[p + 1]
<1>1. Len(bus) >= 1
  OBVIOUS
<1>2. Tail(bus) = flush_rx(bus, 1)
  BY TailIsSubSeq DEF flush_rx
<1>3. QED
  BY <1>1, <1>2, HeadTailProperties

\* A request goes to the unit or is lost.
LEMMA RequestTaken ==
  ASSUME NEW bus, NEW ps, NEW ds, Requests(bus, ps, ds), bus # <<>>
  PROVE  /\ Head(bus) \in FrameType /\ IsRequest(Head(bus), ps, ds)
         /\ Requests(Tail(bus), ps, ds)
         /\ \A p \in 1 .. Len(Tail(bus)) : Ordered(Head(bus), Tail(bus)[p])
<1>1. bus \in Seq(FrameType)
  BY DEF Requests
<1> DEFINE t == Tail(bus)
<1>2. /\ Head(bus) = bus[1] /\ 1 \in 1 .. Len(bus) /\ Head(bus) \in FrameType
      /\ t \in Seq(FrameType) /\ Len(t) = Len(bus) - 1
      /\ \A p \in 1 .. Len(t) : t[p] = bus[p + 1]
  BY <1>1, Taken
<1> HIDE DEF t
<1>3. \A p \in 1 .. Len(t) : p + 1 \in 1 .. Len(bus) /\ 1 < p + 1
  BY <1>1, <1>2
<1>4. \A p, q \in 1 .. Len(t) : p < q => p + 1 < q + 1
  BY <1>2
<1>5. Requests(t, ps, ds)
  BY <1>2, <1>3, <1>4 DEF Requests
<1>6. \A p \in 1 .. Len(t) : Ordered(Head(bus), t[p])
  BY <1>2, <1>3 DEF Requests
<1>7. QED
  BY <1>2, <1>5, <1>6 DEF Requests, t

\* A request is sent.
LEMMA RequestSent ==
  ASSUME NEW bus, NEW ps, NEW ds, Requests(bus, ps, ds),
         NEW f \in FrameType, IsRequest(f, ps, ds),
         \A p \in 1 .. Len(bus) : Ordered(bus[p], f)
  PROVE  Requests(Append(bus, f), ps, ds)
<1> DEFINE new == Append(bus, f)
<1>1. bus \in Seq(FrameType)
  BY DEF Requests
<1>2. /\ new \in Seq(FrameType) /\ Len(new) = Len(bus) + 1 /\ Len(bus) \in Nat
      /\ \A i \in 1 .. Len(bus) : new[i] = bus[i]
      /\ new[Len(bus) + 1] = f
  BY <1>1, AppendProperties
<1> HIDE DEF new
<1>3. \A p \in 1 .. Len(new) : p \in 1 .. Len(bus) \/ p = Len(bus) + 1
  BY <1>2
<1>4. \A p, q \in 1 .. Len(new) : p < q => p \in 1 .. Len(bus)
  BY <1>2
<1>5. \A p \in 1 .. Len(new) : IsRequest(new[p], ps, ds)
  BY <1>2, <1>3 DEF Requests
<1>6. \A p, q \in 1 .. Len(new) : p < q => Ordered(new[p], new[q])
  BY <1>2, <1>3, <1>4 DEF Requests
<1>7. QED
  BY <1>2, <1>5, <1>6 DEF Requests, new

\* One more is posted.
LEMMA RequestPosted ==
  ASSUME NEW bus, NEW ps, NEW ds, Requests(bus, ps, ds), Log(ps, ds), NEW x \in PostType
  PROVE  Requests(bus, Append(ps, x), ds)
<1> DEFINE qs == Append(ps, x)
<1>1. /\ ps \in Seq(PostType) /\ Len(ps) \in Nat /\ Len(qs) = Len(ps) + 1
      /\ \A i \in 1 .. Len(ps) : qs[i] = ps[i]
  BY AppendProperties DEF Log
<1> HIDE DEF qs
<1>2. \A i \in 1 .. Len(ps) : i \in 1 .. Len(qs)
  BY <1>1
<1>3. \A f : Carries(f, ps) => Carries(f, qs)
  BY <1>1, <1>2 DEF Carries
<1>4. \A f : IsRequest(f, ps, ds) => IsRequest(f, qs, ds)
  BY <1>3 DEF IsRequest
<1>5. QED
  BY <1>4 DEF Requests, qs

\* One more is applied, which is older than all that are under way.
LEMMA RequestDone ==
  ASSUME NEW bus, NEW ps, NEW ds, Requests(bus, ps, ds), Log(ps, ds),
         NEW f \in FrameType, f.fc = FC_CMD,
         \A p \in 1 .. Len(bus) : Ordered(f, bus[p])
  PROVE  Requests(bus, ps, Append(ds, f.tag))
<1> DEFINE es == Append(ds, f.tag)
<1>1. /\ ds \in Seq(Nat) /\ f.tag \in Nat /\ Len(ds) \in Nat /\ Len(es) = Len(ds) + 1
      /\ \A k \in 1 .. Len(ds) : es[k] = ds[k]
      /\ es[Len(ds) + 1] = f.tag
  BY AppendProperties DEF Log, FrameType
<1> HIDE DEF es
<1>2. \A k \in 1 .. Len(es) : k \in 1 .. Len(ds) \/ k = Len(ds) + 1
  BY <1>1
<1>3. \A i : Newer(ds, i) /\ f.tag < i => Newer(es, i)
  BY <1>1, <1>2 DEF Newer
<1>4. \A p \in 1 .. Len(bus) : IsRequest(bus[p], ps, es)
  BY <1>3 DEF Requests, IsRequest, Ordered
<1>5. QED
  BY <1>4 DEF Requests, es
-----------------------------------------------------------------------------
(* The frames under way to the master *)

Acks(f)    == f.dir = DIR_RESPONSE /\ f.fc = FC_CMD
Reports(f) == f.dir = DIR_RESPONSE /\ f.fc = FC_READ

Stored(ds, i) == \E k \in 1 .. Len(ds) : ds[k] = i

\* A report shows its window as it was after the first tag writes.
ByteOf(f, r) == f.payload[window_of(f).prefix_len + (r - window_of(f).reg_base) + 1]

Shows(f, ps, ds) ==
  /\ f.tag \in 0 .. Len(ds)
  /\ is_known_window(f.field_a, f.field_b)
  /\ Len(f.payload) = f.field_b
  /\ \A r \in reg_range(window_of(f)) : ByteOf(f, r) = Replay(ps, ds, f.tag, r)

IsAnswer(f, ps, ds, sn) ==
  /\ Acks(f) => f.tag \in 1 .. Len(ps) /\ Stored(ds, f.tag)
  /\ Reports(f) => Shows(f, ps, ds) /\ \A w \in KNOWN_WINDOWS : sn[w] <= f.tag

\* A report is as new as what came before it.
InTime(f, g, ds) ==
  Reports(g) => /\ Reports(f) => f.tag <= g.tag
                /\ Acks(f) => \A k \in 1 .. Len(ds) : ds[k] = f.tag => k <= g.tag

Answers(bus, ps, ds, sn) ==
  /\ bus \in Seq(FrameType)
  /\ \A p \in 1 .. Len(bus) : IsAnswer(bus[p], ps, ds, sn)
  /\ \A p, q \in 1 .. Len(bus) : p < q => InTime(bus[p], bus[q], ds)

LEMMA AnswerFlushed ==
  ASSUME NEW bus, NEW ps, NEW ds, NEW sn, Answers(bus, ps, ds, sn), NEW n \in 0 .. Len(bus)
  PROVE  Answers(flush_rx(bus, n), ps, ds, sn)
<1> DEFINE t == flush_rx(bus, n)
<1>1. bus \in Seq(FrameType) /\ Len(bus) \in Nat
  BY DEF Answers
<1>2. /\ t \in Seq(FrameType) /\ Len(t) = Len(bus) - n
      /\ \A p \in 1 .. Len(t) : t[p] = bus[n + p]
  BY <1>1, Flushed
<1> HIDE DEF t
<1>3. \A p \in 1 .. Len(t) : n + p \in 1 .. Len(bus)
  BY <1>1, <1>2
<1>4. \A p, q \in 1 .. Len(t) : p < q => n + p < n + q
  BY <1>1, <1>2
<1>5. QED
  BY <1>2, <1>3, <1>4 DEF Answers, t

\* An answer is on its way, or a frame that is none.
LEMMA AnswerSent ==
  ASSUME NEW bus, NEW ps, NEW ds, NEW sn, Answers(bus, ps, ds, sn),
         NEW f \in FrameType, IsAnswer(f, ps, ds, sn),
         \A p \in 1 .. Len(bus) : InTime(bus[p], f, ds)
  PROVE  Answers(Append(bus, f), ps, ds, sn)
<1> DEFINE new == Append(bus, f)
<1>1. bus \in Seq(FrameType)
  BY DEF Answers
<1>2. /\ new \in Seq(FrameType) /\ Len(new) = Len(bus) + 1 /\ Len(bus) \in Nat
      /\ \A i \in 1 .. Len(bus) : new[i] = bus[i]
      /\ new[Len(bus) + 1] = f
  BY <1>1, AppendProperties
<1> HIDE DEF new
<1>3. \A p \in 1 .. Len(new) : p \in 1 .. Len(bus) \/ p = Len(bus) + 1
  BY <1>2
<1>4. \A p, q \in 1 .. Len(new) : p < q => p \in 1 .. Len(bus)
  BY <1>2
<1>5. \A p \in 1 .. Len(new) : IsAnswer(new[p], ps, ds, sn)
  BY <1>2, <1>3 DEF Answers
<1>6. \A p, q \in 1 .. Len(new) : p < q => InTime(new[p], new[q], ds)
  BY <1>2, <1>3, <1>4 DEF Answers
<1>7. QED
  BY <1>2, <1>5, <1>6 DEF Answers, new

\* An echo and a refusal say nothing.
LEMMA SilentSent ==
  ASSUME NEW bus, NEW ps, NEW ds, NEW sn, Answers(bus, ps, ds, sn),
         NEW f \in FrameType, ~ Acks(f), ~ Reports(f)
  PROVE  Answers(Append(bus, f), ps, ds, sn)
<1>1. IsAnswer(f, ps, ds, sn) /\ \A p \in 1 .. Len(bus) : InTime(bus[p], f, ds)
  BY DEF IsAnswer, InTime
<1>2. QED
  BY <1>1, AnswerSent

\* One more is posted.
LEMMA AnswerPosted ==
  ASSUME NEW bus, NEW ps, NEW ds, NEW sn, Answers(bus, ps, ds, sn), Log(ps, ds),
         NEW x \in PostType
  PROVE  Answers(bus, Append(ps, x), ds, sn)
<1> DEFINE qs == Append(ps, x)
<1>1. Len(ps) \in Nat /\ Len(qs) = Len(ps) + 1
  BY AppendProperties DEF Log
<1>2. \A n \in 0 .. Len(ds) : \A r : Replay(qs, ds, n, r) = Replay(ps, ds, n, r)
  BY ReplayPost
<1> HIDE DEF qs
<1>3. \A i \in 1 .. Len(ps) : i \in 1 .. Len(qs)
  BY <1>1
<1>4. \A f : Shows(f, ps, ds) => Shows(f, qs, ds)
  BY <1>2 DEF Shows
<1>5. \A f : IsAnswer(f, ps, ds, sn) => IsAnswer(f, qs, ds, sn)
  BY <1>3, <1>4 DEF IsAnswer
<1>6. QED
  BY <1>5 DEF Answers, qs

\* One more is applied.
LEMMA AnswerDone ==
  ASSUME NEW bus, NEW ps, NEW ds, NEW sn, Answers(bus, ps, ds, sn), Log(ps, ds),
         NEW i \in Nat, Newer(ds, i)
  PROVE  Answers(bus, ps, Append(ds, i), sn)
<1> DEFINE es == Append(ds, i)
<1>1. /\ ds \in Seq(Nat) /\ Len(ds) \in Nat /\ Len(es) = Len(ds) + 1
      /\ \A k \in 1 .. Len(ds) : es[k] = ds[k]
      /\ es[Len(ds) + 1] = i
  BY AppendProperties DEF Log
<1>2. \A n \in 0 .. Len(ds) : \A r : Replay(ps, es, n, r) = Replay(ps, ds, n, r)
  BY ReplayDone
<1> HIDE DEF es
<1>3. \A k \in 1 .. Len(es) : k \in 1 .. Len(ds) \/ k = Len(ds) + 1
  BY <1>1
<1>4. \A k \in 1 .. Len(ds) : k \in 1 .. Len(es) /\ ds[k] \in Nat /\ ds[k] # i
  BY <1>1 DEF Newer
<1>5. \A n \in 0 .. Len(ds) : n \in 0 .. Len(es)
  BY <1>1
<1>6. \A f : Shows(f, ps, ds) => Shows(f, ps, es)
  BY <1>2, <1>5 DEF Shows
<1>7. \A j : Stored(ds, j) => Stored(es, j)
  BY <1>1, <1>4 DEF Stored
<1>8. \A f : IsAnswer(f, ps, ds, sn) => IsAnswer(f, ps, es, sn)
  BY <1>6, <1>7 DEF IsAnswer
<1>9. \A j : Stored(ds, j) => j # i
  BY <1>4 DEF Stored
<1>10. ASSUME NEW f, NEW g, IsAnswer(f, ps, ds, sn), InTime(f, g, ds)
       PROVE  InTime(f, g, es)
  <2> SUFFICES ASSUME Reports(g), Acks(f), NEW k \in 1 .. Len(es), es[k] = f.tag
               PROVE  k <= g.tag
    BY <1>10 DEF InTime
  <2>1. f.tag # i
    BY <1>9, <1>10 DEF IsAnswer
  <2>2. k \in 1 .. Len(ds) /\ ds[k] = f.tag
    BY <1>1, <1>3, <2>1
  <2>3. QED
    BY <1>10, <2>2 DEF InTime
<1>11. QED
  BY <1>8, <1>10 DEF Answers, es

\* A report is taken into the image.
LEMMA ReportTaken ==
  ASSUME NEW bus, NEW ps, NEW ds, NEW sn, Answers(bus, ps, ds, sn), bus # <<>>,
         sn \in [KNOWN_WINDOWS -> Nat], Reports(Head(bus)), NEW w \in KNOWN_WINDOWS
  PROVE  Answers(Tail(bus), ps, ds, [sn EXCEPT ![w] = Head(bus).tag])
<1> DEFINE t  == Tail(bus)
           tn == [sn EXCEPT ![w] = Head(bus).tag]
<1>1. bus \in Seq(FrameType)
  BY DEF Answers
<1>2. /\ t = flush_rx(bus, 1) /\ 1 \in 0 .. Len(bus)
      /\ Head(bus) = bus[1] /\ 1 \in 1 .. Len(bus) /\ t \in Seq(FrameType)
      /\ Len(t) = Len(bus) - 1 /\ \A p \in 1 .. Len(t) : t[p] = bus[p + 1]
  BY <1>1, Taken
<1>3. Answers(t, ps, ds, sn)
  BY <1>2, AnswerFlushed
<1>4. \A v \in KNOWN_WINDOWS : tn[v] = IF v = w THEN Head(bus).tag ELSE sn[v]
  OBVIOUS
<1> HIDE DEF t, tn
<1>5. \A p \in 1 .. Len(t) : p + 1 \in 1 .. Len(bus) /\ 1 < p + 1
  BY <1>1, <1>2
<1>6. \A p \in 1 .. Len(t) : InTime(Head(bus), t[p], ds)
  BY <1>2, <1>5 DEF Answers
<1>7. \A p \in 1 .. Len(t) : IsAnswer(t[p], ps, ds, tn)
  <2> TAKE p \in 1 .. Len(t)
  <2>1. IsAnswer(t[p], ps, ds, sn)
    BY <1>3 DEF Answers
  <2>2. Reports(t[p]) => Head(bus).tag <= t[p].tag
    BY <1>6 DEF InTime
  <2>3. QED
    BY <1>4, <2>1, <2>2 DEF IsAnswer
<1>8. QED
  BY <1>3, <1>7 DEF Answers, t, tn

\* What an acknowledgement confirms was applied, before every report that is
\* still to come.
Sure(S, bus, ps, ds) ==
  \A i \in S :
    /\ i \in 1 .. Len(ps)
    /\ \E k \in 1 .. Len(ds) :
         /\ ds[k] = i
         /\ \A p \in 1 .. Len(bus) : Reports(bus[p]) => k <= bus[p].tag

LEMMA SureFlushed ==
  ASSUME NEW S, NEW bus \in Seq(FrameType), NEW ps, NEW ds, Sure(S, bus, ps, ds),
         NEW n \in 0 .. Len(bus)
  PROVE  Sure(S, flush_rx(bus, n), ps, ds)
<1> DEFINE t == flush_rx(bus, n)
<1>1. /\ t \in Seq(FrameType) /\ Len(t) = Len(bus) - n
      /\ \A p \in 1 .. Len(t) : t[p] = bus[n + p]
  BY Flushed
<1> HIDE DEF t
<1>2. \A p \in 1 .. Len(t) : n + p \in 1 .. Len(bus)
  BY <1>1
<1>3. ASSUME NEW k, \A p \in 1 .. Len(bus) : Reports(bus[p]) => k <= bus[p].tag
      PROVE  \A p \in 1 .. Len(t) : Reports(t[p]) => k <= t[p].tag
  BY <1>1, <1>2, <1>3
<1>4. QED
  BY <1>3 DEF Sure, t

LEMMA SureSent ==
  ASSUME NEW S, NEW bus \in Seq(FrameType), NEW ps, NEW ds \in Seq(Nat), Sure(S, bus, ps, ds),
         NEW f \in FrameType, Reports(f) => f.tag = Len(ds)
  PROVE  Sure(S, Append(bus, f), ps, ds)
<1> DEFINE new == Append(bus, f)
<1>1. /\ Len(new) = Len(bus) + 1 /\ Len(bus) \in Nat /\ Len(ds) \in Nat
      /\ \A i \in 1 .. Len(bus) : new[i] = bus[i]
      /\ new[Len(bus) + 1] = f
  BY AppendProperties
<1> HIDE DEF new
<1>2. \A p \in 1 .. Len(new) : p \in 1 .. Len(bus) \/ p = Len(bus) + 1
  BY <1>1
<1>3. ASSUME NEW k \in 1 .. Len(ds),
             \A p \in 1 .. Len(bus) : Reports(bus[p]) => k <= bus[p].tag
      PROVE  \A p \in 1 .. Len(new) : Reports(new[p]) => k <= new[p].tag
  BY <1>1, <1>2, <1>3
<1>4. QED
  BY <1>3 DEF Sure, new

LEMMA SureGrows ==
  ASSUME NEW S, NEW bus, NEW ps, NEW ds, Log(ps, ds), Sure(S, bus, ps, ds),
         NEW qs, NEW es, Len(ps) <= Len(qs), Len(ds) <= Len(es),
         Len(qs) \in Nat, Len(es) \in Nat, \A k \in 1 .. Len(ds) : es[k] = ds[k]
  PROVE  Sure(S, bus, qs, es)
<1>1. Len(ps) \in Nat /\ Len(ds) \in Nat
  BY DEF Log
<1>2. \A i \in 1 .. Len(ps) : i \in 1 .. Len(qs)
  BY <1>1
<1>3. \A k \in 1 .. Len(ds) : k \in 1 .. Len(es)
  BY <1>1
<1>4. QED
  BY <1>2, <1>3 DEF Sure

\* An acknowledgement is taken.
LEMMA AckTaken ==
  ASSUME NEW S, NEW bus, NEW ps, NEW ds, NEW sn, Answers(bus, ps, ds, sn), bus # <<>>,
         Sure(S, bus, ps, ds), Acks(Head(bus))
  PROVE  Sure(S \cup {Head(bus).tag}, Tail(bus), ps, ds)
<1> DEFINE t == Tail(bus)
           i == Head(bus).tag
<1>1. bus \in Seq(FrameType)
  BY DEF Answers
<1>2. /\ t = flush_rx(bus, 1) /\ 1 \in 0 .. Len(bus)
      /\ Head(bus) = bus[1] /\ 1 \in 1 .. Len(bus) /\ t \in Seq(FrameType)
      /\ Len(t) = Len(bus) - 1 /\ \A p \in 1 .. Len(t) : t[p] = bus[p + 1]
  BY <1>1, Taken
<1>3. Sure(S, t, ps, ds)
  BY <1>1, <1>2, SureFlushed
<1> HIDE DEF t
<1>4. \A p \in 1 .. Len(t) : p + 1 \in 1 .. Len(bus) /\ 1 < p + 1
  BY <1>1, <1>2
<1>5. \A p \in 1 .. Len(t) : InTime(Head(bus), t[p], ds)
  BY <1>2, <1>4 DEF Answers
<1>6. i \in 1 .. Len(ps) /\ Stored(ds, i)
  BY <1>2 DEF Answers, IsAnswer
<1>7. PICK k \in 1 .. Len(ds) : ds[k] = i
  BY <1>6 DEF Stored
<1>8. \A p \in 1 .. Len(t) : Reports(t[p]) => k <= t[p].tag
  BY <1>5, <1>7 DEF InTime
<1> HIDE DEF i
<1>9. QED
  BY <1>3, <1>6, <1>7, <1>8 DEF Sure, t, i
-----------------------------------------------------------------------------
(* A window on the wire and in the image *)

\* The registers of a window are in the unit.
LEMMA UnitHasWindows ==
  ASSUME NEW w \in KNOWN_WINDOWS
  PROVE  reg_range(w) \subseteq Registers /\ reg_range(w) \subseteq DOMAIN FirstUnit
<1>1. reg_range(w) \subseteq Registers
  BY WireAssumption
<1>2. reg_range(w) \subseteq UNION {reg_range(v) : v \in KNOWN_WINDOWS}
  OBVIOUS
<1>3. QED
  BY <1>1, <1>2 DEF FirstUnit, with_baseline

\* It starts with bytes.
LEMMA UnitStarts == FirstUnit \in [DOMAIN FirstUnit -> Byte]
<1>1. \A r \in DOMAIN UnitStart : UnitStart[r] \in Byte
  BY WireAssumption
<1>2. \A r : value_of(UnitStart, r) \in Byte
  BY <1>1 DEF value_of, Byte
<1>3. QED
  BY <1>2 DEF FirstUnit, with_baseline

\* The address of a register that a call writes tells a register of the unit.
LEMMA AddressInUnit ==
  ASSUME NEW a, NEW r, registers_at(a) = {r}
  PROVE  r \in DOMAIN FirstUnit
<1>1. r \in registers_at(a)
  OBVIOUS
<1>2. PICK w \in KNOWN_WINDOWS :
        a \in wire_range(w) /\ r = w.reg_base + (a - w.field_a - w.prefix_len)
  BY <1>1 DEF registers_at
<1>3. /\ w.field_a \in Nat /\ w.field_b \in Nat
      /\ w.reg_base \in Nat /\ w.prefix_len \in Nat
  BY WindowType
<1>4. a \in Int /\ a >= w.field_a + w.prefix_len /\ a <= w.field_a + w.field_b - 1
  BY <1>2, <1>3 DEF wire_range
<1>5. r \in reg_range(w)
  BY <1>2, <1>3, <1>4 DEF reg_range
<1>6. QED
  BY <1>5, UnitHasWindows

\* A read of a window is answered with its registers, behind the prefix.
LEMMA WindowRead ==
  ASSUME NEW w \in KNOWN_WINDOWS, NEW img, \A r \in DOMAIN img : img[r] \in Byte,
         reg_range(w) \subseteq DOMAIN img
  PROVE  LET bytes == read_window(img, w.field_a, w.field_b)
         IN  /\ bytes \in Seq(Byte) /\ Len(bytes) = w.field_b
             /\ \A r \in reg_range(w) :
                  bytes[w.prefix_len + (r - w.reg_base) + 1] = img[r]
<1> DEFINE b == w.field_b
           byte(i) == IF i <= w.prefix_len THEN 0
                      ELSE value_of(img, w.reg_base + i - 1 - w.prefix_len)
           bytes == [i \in 1 .. b |-> byte(i)]
<1>1. /\ w.field_a \in Nat /\ b \in Nat /\ w.reg_base \in Nat /\ w.prefix_len \in Nat
  BY WindowType
<1>2. read_window(img, w.field_a, w.field_b) = bytes
  BY FindWindow DEF read_window
<1>3. \A r : value_of(img, r) \in Byte
  BY DEF value_of, Byte
<1>4. \A i \in 1 .. b : byte(i) \in Byte
  BY <1>3 DEF Byte
<1> HIDE DEF byte
<1>5. bytes \in [1 .. b -> Byte]
  BY <1>4
<1>6. bytes \in Seq(Byte) /\ Len(bytes) = b
  BY <1>1, <1>5, IsASeq
<1>7. \A r \in reg_range(w) : bytes[w.prefix_len + (r - w.reg_base) + 1] = img[r]
  <2> TAKE r \in reg_range(w)
  <2> DEFINE i == w.prefix_len + (r - w.reg_base) + 1
  <2>1. r \in Int /\ r >= w.reg_base /\ r <= w.reg_base + (b - w.prefix_len) - 1
    BY <1>1 DEF reg_range
  <2>2. /\ i \in 1 .. b /\ ~ (i <= w.prefix_len)
        /\ w.reg_base + i - 1 - w.prefix_len = r
    BY <1>1, <2>1
  <2> HIDE DEF i
  <2>3. bytes[i] = value_of(img, r)
    BY <2>2 DEF byte
  <2>4. r \in DOMAIN img
    OBVIOUS
  <2>5. QED
    BY <2>3, <2>4 DEF value_of, i
<1>8. QED
  BY <1>2, <1>6, <1>7

\* The image takes its registers from there.
WithWindow(img, w, ps, ds, n) ==
  [r \in DOMAIN img \cup reg_range(w) |->
     IF r \in reg_range(w) THEN Replay(ps, ds, n, r) ELSE img[r]]

LEMMA WindowIngested ==
  ASSUME NEW f \in FrameType, NEW ps, NEW ds, Shows(f, ps, ds), NEW img
  PROVE  ingest_bytes(img, window_of(f).reg_base, window_data(f))
           = WithWindow(img, window_of(f), ps, ds, f.tag)
<1> DEFINE w == window_of(f)
           payload == f.payload
           data == window_data(f)
<1>1. w \in KNOWN_WINDOWS /\ f.field_a = w.field_a /\ f.field_b = w.field_b
  BY DEF Shows, window_of, is_known_window, find_window
<1>2. /\ w.field_b \in Nat /\ w.reg_base \in Nat /\ w.prefix_len \in Nat
  BY <1>1, WindowType
<1>3. payload \in Seq(Byte) /\ Len(payload) = w.field_b
  BY <1>1 DEF Shows, FrameType
<1>4. data = SubSeq(payload, w.prefix_len + 1, Len(payload))
  BY DEF window_data
<1>5. \A r \in reg_range(w) :
        payload[w.prefix_len + (r - w.reg_base) + 1] = Replay(ps, ds, f.tag, r)
  BY DEF Shows, ByteOf
<1> HIDE DEF w, payload, data
<1>6. /\ Len(data) = IF w.prefix_len + 1 <= w.field_b THEN w.field_b - w.prefix_len ELSE 0
      /\ \A i \in 1 .. w.field_b - w.prefix_len : data[i] = payload[w.prefix_len + i]
  <2>1. \A i \in w.prefix_len + 1 .. Len(payload) : payload[i] \in Byte
    BY <1>2, <1>3
  <2>2. w.prefix_len + 1 \in Int /\ Len(payload) \in Int
    BY <1>2, <1>3
  <2> DEFINE m == w.prefix_len + 1
             n == Len(payload)
  <2> HIDE DEF m, n
  <2>3. /\ Len(SubSeq(payload, m, n)) = IF m <= n THEN n - m + 1 ELSE 0
        /\ \A i \in 1 .. n - m + 1 : SubSeq(payload, m, n)[i] = payload[m + i - 1]
    BY <2>1, <2>2, SubSeqProperties DEF m, n
  <2>4. data = SubSeq(payload, m, n)
    BY <1>4 DEF m, n
  <2>5. /\ Len(data) = IF m <= n THEN n - m + 1 ELSE 0
        /\ \A i \in 1 .. n - m + 1 : data[i] = payload[m + i - 1]
    BY <2>3, <2>4
  <2>6. m = w.prefix_len + 1 /\ n = w.field_b
    BY <1>3 DEF m, n
  <2>7. n - m + 1 = w.field_b - w.prefix_len
    BY <1>2, <2>6
  <2>8. \A i \in 1 .. n - m + 1 : m + i - 1 = w.prefix_len + i
    BY <1>2, <2>6
  <2>9. QED
    BY <2>5, <2>6, <2>7, <2>8
<1>7. (w.reg_base .. w.reg_base + Len(data) - 1) \cap Registers = reg_range(w)
  <2>1. w.reg_base .. w.reg_base + Len(data) - 1 = reg_range(w)
    BY <1>2, <1>6 DEF reg_range
  <2>2. reg_range(w) \subseteq Registers
    BY <1>1, UnitHasWindows
  <2>3. QED
    BY <2>1, <2>2
<1>8. \A r \in reg_range(w) : data[r - w.reg_base + 1] = Replay(ps, ds, f.tag, r)
  <2> TAKE r \in reg_range(w)
  <2>1. r \in Int /\ r >= w.reg_base /\ r <= w.reg_base + (w.field_b - w.prefix_len) - 1
    BY <1>2 DEF reg_range
  <2>2. /\ r - w.reg_base + 1 \in 1 .. w.field_b - w.prefix_len
        /\ w.prefix_len + (r - w.reg_base + 1) = w.prefix_len + (r - w.reg_base) + 1
    BY <1>2, <2>1
  <2>3. QED
    BY <1>5, <1>6, <2>2
<1>9. ingest_bytes(img, w.reg_base, data)
        = [r \in DOMAIN img \cup reg_range(w) |->
             IF r \in reg_range(w) THEN data[r - w.reg_base + 1] ELSE img[r]]
  BY <1>7, Zenon DEF ingest_bytes
<1>10. QED
  BY <1>8, <1>9 DEF w, data, WithWindow

\* What is not ingested has no registers.
LEMMA NothingIngested ==
  ASSUME NEW f \in FrameType, NEW ps, NEW ds, Reports(f), Shows(f, ps, ds), ~ is_ingested(f)
  PROVE  reg_range(window_of(f)) = {}
<1> DEFINE w == window_of(f)
<1>1. w \in KNOWN_WINDOWS /\ f.field_b = w.field_b
  BY DEF Shows, window_of, is_known_window, find_window
<1>2. /\ w.field_b \in Nat /\ w.reg_base \in Nat /\ w.prefix_len \in Nat
  BY <1>1, WindowType
<1>3. ~ (w.field_b > w.prefix_len)
  BY <1>1 DEF Shows, Reports, is_ingested, FC_READ, FC_CMD
<1> HIDE DEF w
<1>4. reg_range(w) = {}
  BY <1>2, <1>3 DEF reg_range
<1>5. QED
  BY <1>4 DEF w
-----------------------------------------------------------------------------
(* The core of the invariant *)

UnitIs(un, ps, ds) ==
  /\ un \in [DOMAIN FirstUnit -> Byte]
  /\ \A r \in DOMAIN FirstUnit : un[r] = Replay(ps, ds, Len(ds), r)

SeenInTime(sn, ds) ==
  /\ sn \in [KNOWN_WINDOWS -> Nat]
  /\ \A w \in KNOWN_WINDOWS : sn[w] <= Len(ds)

ImageOfBytes == \A r \in DOMAIN image : image[r] \in Byte

\* The call waits for what its kind is answered with.
CallInv ==
  /\ pc \in {"idle", "wait"}
  /\ Polling => want.fc = FC_READ /\ task.win \in KNOWN_WINDOWS
  /\ pc = "wait" /\ ~ Polling => want.fc = FC_CMD

Core ==
  /\ Log(posts, done)
  /\ UnitIs(unit, posts, done)
  /\ ImageOfBytes
  /\ SeenInTime(seen, done)
  /\ Requests(toUnit, posts, done)
  /\ Answers(toMaster, posts, done, seen)
  /\ Sure(sure, toMaster, posts, done)
  /\ CallInv

LEMMA CoreInit == Init => Core
<1> SUFFICES ASSUME Init PROVE Core
  OBVIOUS
<1>0. /\ unit = FirstUnit /\ image = EmptyImage /\ toUnit = <<>> /\ toMaster = <<>>
      /\ pc = "idle" /\ task = [op |-> "none"] /\ posts = <<>> /\ done = <<>>
      /\ seen = [w \in KNOWN_WINDOWS |-> 0] /\ sure = {}
  BY DEF Init, FirstUnit
<1>1. Log(posts, done)
  BY <1>0 DEF Log
<1>2. UnitIs(unit, posts, done)
  <2>1. \A r : Replay(posts, done, 0, r) = FirstUnit[r]
    <3>1. \A r : NoWrite(posts, done, 0, r)
      BY DEF NoWrite
    <3>2. QED
      BY <3>1, ReplayNone
  <2>2. Len(done) = 0
    BY <1>0
  <2>3. QED
    BY <1>0, <2>1, <2>2, UnitStarts DEF UnitIs
<1>3. ImageOfBytes
  BY <1>0 DEF ImageOfBytes, EmptyImage
<1>4. SeenInTime(seen, done)
  BY <1>0 DEF SeenInTime
<1>5. Requests(toUnit, posts, done) /\ Answers(toMaster, posts, done, seen)
  BY <1>0 DEF Requests, Answers
<1>6. Sure(sure, toMaster, posts, done) /\ CallInv
  BY <1>0 DEF Sure, CallInv, Polling
<1>7. QED
  BY <1>1, <1>2, <1>3, <1>4, <1>5, <1>6 DEF Core
-----------------------------------------------------------------------------
(* What a call does: nothing, or it posts a write, or it polls *)

CallBegins(n) ==
  /\ pc = "idle" /\ n \in 0 .. Len(toMaster) /\ late' = UnderWay(n)
  /\ UNCHANGED <<unit, image, done, seen, sure>>

QuietCall ==
  \E n : /\ CallBegins(n)
         /\ toMaster' = flush_rx(toMaster, n)
         /\ UNCHANGED <<toUnit, pc, posts>>
         /\ result' \notin {"Ok", "Nack"}
         /\ Polling' => want'.fc = FC_READ /\ task'.win \in KNOWN_WINDOWS

Command(addr, x, tag) == Frame(DIR_REQUEST, FC_CMD, addr, 1, <<x.value>>, tag)
Poll(w) == Frame(DIR_REQUEST, FC_READ, w.field_a, w.field_b, <<>>, 0)

WriteCall ==
  \E n \in Nat, addr \in Nat, x \in PostType :
    /\ CallBegins(n)
    /\ registers_at(addr) = {x.reg}
    /\ Send(Command(addr, x, Len(posts) + 1), n)
    /\ posts' = Append(posts, x)
    /\ ~ Polling' /\ want' = [fc |-> FC_CMD, a |-> addr, b |-> 1]

PollCall ==
  \E n \in Nat, w \in KNOWN_WINDOWS :
    /\ CallBegins(n)
    /\ Send(Poll(w), n)
    /\ UNCHANGED posts
    /\ Polling' /\ want'.fc = FC_READ /\ task'.win = w

\* A byte is its low eight bits.
LEMMA ByteOfByte == \A v \in Byte : v % 256 = v
BY DEF Byte

\* The limits of a setpoint are those of a signed byte.
LEMMA ClampedSetpoint ==
  ASSUME ImageOfBytes, NEW c \in SetpointCalls
  PROVE  clamp_setpoint(c[1], c[2], decode_state(image)) \in 0 .. 127
<1> DEFINE s == decode_state(image)
           lim == setpoint_limits(c[1], s)
<1>1. c[1] \in {"Cooling", "Heating", "HotWater"} /\ c[2] \in Int /\ c[2] <= 127
  BY SessionAssumption, WireAssumption DEF DefaultLimits
<1>2. s.readings = decode_readings(image)
  BY DEF decode_state
<1>3. "HotWaterCeiling" \in DOMAIN s.readings => s.readings["HotWaterCeiling"] \in Int
  <2> SUFFICES ASSUME "HotWaterCeiling" \in DOMAIN decode_readings(image)
               PROVE  decode_readings(image)["HotWaterCeiling"] \in Int
    BY <1>2
  <2> DEFINE f == "HotWaterCeiling"
  <2>1. f \in DOMAIN FieldMap /\ FieldMap[f].reg \in DOMAIN image
    BY DEF decode_readings
  <2>2. image[FieldMap[f].reg] \in Byte /\ FieldMap[f].read \in Readings
    BY <2>1, StateAssumption DEF ImageOfBytes
  <2>3. \A v \in Byte, how \in Readings : reading(how, v) \in Int
    BY DEF reading, Readings, s8, Byte
  <2>4. decode_readings(image)[f] = reading(FieldMap[f].read, image[FieldMap[f].reg])
    BY DEF decode_readings
  <2>5. QED
    BY <2>2, <2>3, <2>4
<1> HIDE DEF s
<1>4. /\ lim.min_c \in 4 .. 30 /\ lim.max_c \in Int /\ lim.max_c >= 30
  BY <1>1, <1>3 DEF setpoint_limits, DefaultLimits, kHotWaterMin
<1> HIDE DEF lim
<1>5. QED
  BY <1>1, <1>4 DEF clamp_setpoint, lim, s

LEMMA CallCases ==
  ASSUME Core, Call
  PROVE  QuietCall \/ WriteCall \/ PollCall
<1>0. ImageOfBytes /\ Len(posts) \in Nat
  BY DEF Core, Log
\* A write is refused before it begins.
<1>r. ASSUME Ready, NEW what, what.op # "poll", Refuse(what)
      PROVE  QuietCall
  BY <1>r DEF Ready, Refuse, Begin, NotSent, QuietCall, CallBegins, Polling
\* A byte is written to the address of a register.
<1>w. ASSUME Ready, NEW what, what.op # "poll", NEW addr \in Nat, NEW byte \in Byte,
             NEW reg, NEW value, registers_at(addr) = {reg}, value % 256 = byte,
             write_byte(what, addr, byte, reg, value)
      PROVE  QuietCall \/ WriteCall
  <2> DEFINE x == [reg |-> reg, value |-> byte]
  <2>1. x \in PostType /\ x.reg = reg /\ x.value = byte
    BY <1>w, AddressInUnit DEF PostType
  <2>2. PICK n \in 0 .. Len(toMaster) :
          /\ Begin(what, [fc |-> FC_CMD, a |-> addr, b |-> 1], n)
          /\ \/ NotSent("WriteFailed", n)
             \/ /\ Send(Frame(DIR_REQUEST, FC_CMD, addr, 1, <<byte>>, Len(posts) + 1), n)
                /\ posts' = Append(posts, [reg |-> reg, value |-> value % 256])
    BY <1>w DEF write_byte
  <2>3. CallBegins(n) /\ ~ Polling' /\ want' = [fc |-> FC_CMD, a |-> addr, b |-> 1]
    BY <1>w, <2>2 DEF Ready, Begin, CallBegins, Polling
  <2>4. CASE NotSent("WriteFailed", n)
    BY <2>3, <2>4 DEF NotSent, QuietCall
  <2>5. CASE /\ Send(Frame(DIR_REQUEST, FC_CMD, addr, 1, <<byte>>, Len(posts) + 1), n)
             /\ posts' = Append(posts, [reg |-> reg, value |-> value % 256])
    <3>1. posts' = Append(posts, x)
      BY <1>w, <2>5
    <3> HIDE DEF x
    <3>2. Send(Command(addr, x, Len(posts) + 1), n)
      BY <2>1, <2>5 DEF Command
    <3>3. registers_at(addr) = {x.reg}
      BY <1>w, <2>1
    <3>4. QED
      BY <2>1, <2>3, <3>1, <3>2, <3>3 DEF WriteCall
  <2>6. QED
    BY <2>2, <2>4, <2>5
\* A register is written.
<1>g. ASSUME Ready, NEW what, what.op # "poll", NEW reg, NEW value \in Byte,
             write_register(what, reg, value)
      PROVE  QuietCall \/ WriteCall
  <2>1. CASE windows_of(reg) = {}
    BY <1>g, <1>r, <2>1 DEF write_register
  <2>2. CASE windows_of(reg) # {}
    <3> DEFINE w == CHOOSE w \in windows_of(reg) : TRUE
    <3>1. w \in windows_of(reg)
      BY <2>2
    <3>2. write_byte(what, wire_addr(w, reg), value, reg, value)
      BY <1>g, <2>2 DEF write_register
    <3> HIDE DEF w
    <3>3. w \in KNOWN_WINDOWS /\ reg \in reg_range(w)
      BY <3>1 DEF windows_of
    <3>4. registers_at(wire_addr(w, reg)) = {reg} /\ wire_addr(w, reg) \in Nat
      BY <3>3, UnitHasWindows, AddressOfRegister, WireAddress
    <3>5. value % 256 = value
      BY ByteOfByte
    <3>6. QED
      BY <1>g, <1>w, <3>2, <3>4, <3>5
  <2>3. QED
    BY <2>1, <2>2
<1>1. CASE SetSetpoint
  <2>1. PICK c \in SetpointCalls :
          LET kind    == c[1]
              celsius == clamp_setpoint(kind, c[2], decode_state(image))
          IN  write_byte([op |-> "set_setpoint", kind |-> kind, celsius |-> celsius],
                         SetpointAddr[kind], setpoint_byte(celsius),
                         FieldMap[SetpointField[kind]].reg, celsius)
    BY <1>1 DEF SetSetpoint
  <2> DEFINE kind    == c[1]
             celsius == clamp_setpoint(kind, c[2], decode_state(image))
             what    == [op |-> "set_setpoint", kind |-> kind, celsius |-> celsius]
  <2>2. celsius \in 0 .. 127
    BY <1>0, ClampedSetpoint
  <2>3. kind \in DOMAIN SetpointAddr /\ SetpointAddr[kind] \in Nat
    BY SessionAssumption DEF DefaultLimits, SetpointAddr
  <2>4. registers_at(SetpointAddr[kind]) = {FieldMap[SetpointField[kind]].reg}
    BY <2>3, WireAssumption
  <2>5. what.op # "poll"
    OBVIOUS
  <2>6. write_byte(what, SetpointAddr[kind], setpoint_byte(celsius),
                   FieldMap[SetpointField[kind]].reg, celsius)
    BY <2>1
  <2> HIDE DEF celsius, what, kind
  <2>7. setpoint_byte(celsius) \in Byte /\ celsius % 256 = setpoint_byte(celsius)
    BY <2>2 DEF setpoint_byte, Byte
  <2>8. QED
    BY <1>1, <1>w, <2>3, <2>4, <2>5, <2>6, <2>7 DEF SetSetpoint
<1>2. CASE SetWorkingMode
  <2>1. PICK mode \in ModeCalls :
          LET what == [op |-> "set_working_mode", mode |-> mode]
          IN  \/ write_byte(what, MODE_ADDR, mode, REG_WORKING_MODE, mode)
              \/ Refuse(what)
    BY <1>2 DEF SetWorkingMode
  <2> DEFINE what == [op |-> "set_working_mode", mode |-> mode]
  <2>2. /\ mode \in Byte /\ mode % 256 = mode /\ MODE_ADDR \in Nat
        /\ registers_at(MODE_ADDR) = {REG_WORKING_MODE}
    BY SessionAssumption, WireAssumption, ByteOfByte DEF MODE_ADDR
  <2>3. what.op # "poll"
    OBVIOUS
  <2>4. write_byte(what, MODE_ADDR, mode, REG_WORKING_MODE, mode) \/ Refuse(what)
    BY <2>1
  <2> HIDE DEF what
  <2>5. QED
    BY <1>2, <1>r, <1>w, <2>2, <2>3, <2>4 DEF SetWorkingMode
<1>3. CASE WriteRegister
  <2>1. PICK c \in RegisterCalls :
          write_register([op |-> "write_register", reg |-> c[1], value |-> c[2]], c[1], c[2])
    BY <1>3 DEF WriteRegister
  <2>2. c[2] \in Byte
    BY SessionAssumption
  <2>3. QED
    BY <1>3, <1>g, <2>1, <2>2 DEF WriteRegister
<1>4. CASE WriteParam
  <2>1. PICK c \in ParamCalls :
          LET plan == advanced_prepare_display_write(c[1], c[2])
          IN  /\ plan.result = "OK"
              /\ write_register([op |-> "write_param", ap |-> c[1], value |-> c[2]],
                                plan.reg, plan.raw % 256)
    BY <1>4 DEF WriteParam
  <2> DEFINE plan == advanced_prepare_display_write(c[1], c[2])
             step == advanced_display_step(c[1])
             v    == c[2] \div step
             p    == advanced_param_lookup(c[1])
  <2>2. c[2] \in Int
    BY SessionAssumption DEF int16
  <2>3. c[1] \in DOMAIN s_advanced => s_advanced[c[1]].display_multiplier \in Int
    <3>1. \A row \in AdvancedParam : row.display_multiplier \in int16
      BY Zenon DEF AdvancedParam
    <3>2. \A x \in int16 : x \in Int
      BY DEF int16
    <3>3. c[1] \in DOMAIN s_advanced => s_advanced[c[1]] \in AdvancedParam
      BY ParamsAssumption, Zenon
    <3>4. QED
      BY <3>1, <3>2, <3>3, Zenon
  <2>4. step \in Nat \ {0}
    BY <2>3 DEF advanced_display_step, multiplier_of, advanced_param_lookup
  <2> HIDE DEF step
  <2>5. v \in Int
    BY <2>2, <2>4
  <2>6. plan = [result |-> "OK", reg |-> p.reg, raw |-> raw_of(p, v)]
    <3>1. plan.result = "OK"
      BY <2>1
    <3>2. plan = advanced_prepare_write(c[1], v)
      BY <3>1 DEF advanced_prepare_display_write, Refused, step
    <3>3. validate_advanced_write(c[1], v) = "OK"
      BY <3>1, <3>2 DEF advanced_prepare_write, Refused
    <3>4. QED
      BY <3>2, <3>3 DEF advanced_prepare_write
  <2> HIDE DEF p, v
  <2>7. raw_of(p, v) \in Int
    BY <2>5 DEF raw_of
  <2>8. plan.raw % 256 \in Byte
    <3>1. \A x \in Int : x % 256 \in Byte
      BY DEF Byte
    <3>2. plan.raw = raw_of(p, v)
      BY <2>6
    <3>3. QED
      BY <2>7, <3>1, <3>2
  <2>9. write_register([op |-> "write_param", ap |-> c[1], value |-> c[2]],
                       plan.reg, plan.raw % 256)
    BY <2>1
  <2> HIDE DEF plan
  <2>10. QED
    BY <1>4, <1>g, <2>8, <2>9 DEF WriteParam
<1>5. CASE PollWindow
  <2>1. PICK win \in PolledWindows, n \in 0 .. Len(toMaster) :
          /\ Begin([op |-> "poll", win |-> win],
                   [fc |-> FC_READ, a |-> win.field_a, b |-> win.field_b], n)
          /\ \/ NotSent("TransportError", n)
             \/ /\ Send(Frame(DIR_REQUEST, FC_READ, win.field_a, win.field_b, <<>>, 0), n)
                /\ UNCHANGED posts
    BY <1>5 DEF PollWindow
  <2>2. win \in KNOWN_WINDOWS
    BY SessionAssumption
  <2>3. /\ CallBegins(n) /\ Polling' /\ want'.fc = FC_READ /\ task'.win = win
    BY <1>5, <2>1 DEF PollWindow, Ready, Begin, CallBegins, Polling
  <2>4. CASE NotSent("TransportError", n)
    BY <2>2, <2>3, <2>4 DEF NotSent, QuietCall
  <2>5. CASE /\ Send(Frame(DIR_REQUEST, FC_READ, win.field_a, win.field_b, <<>>, 0), n)
             /\ UNCHANGED posts
    <3>1. Send(Poll(win), n)
      BY <2>5 DEF Poll
    <3>2. CallBegins(n) /\ Send(Poll(win), n) /\ UNCHANGED posts
          /\ Polling' /\ want'.fc = FC_READ /\ task'.win = win
      BY <2>3, <2>5, <3>1
    <3>3. QED
      BY <2>2, <3>2 DEF PollCall
  <2>6. QED
    BY <2>1, <2>4, <2>5
<1>6. QED
  BY <1>1, <1>2, <1>3, <1>4, <1>5 DEF Call
-----------------------------------------------------------------------------
(* The core is inductive *)

\* The log with one post more, and with one more applied.
LEMMA LogPosted ==
  ASSUME NEW ps, NEW ds, Log(ps, ds), NEW x \in PostType
  PROVE  Log(Append(ps, x), ds)
<1> DEFINE qs == Append(ps, x)
<1>1. qs \in Seq(PostType) /\ Len(ps) \in Nat /\ Len(qs) = Len(ps) + 1
  BY AppendProperties DEF Log
<1> HIDE DEF qs
<1>2. \A i \in 1 .. Len(ps) : i \in 1 .. Len(qs)
  BY <1>1
<1>3. QED
  BY <1>1, <1>2 DEF Log, qs

LEMMA LogDone ==
  ASSUME NEW ps, NEW ds, Log(ps, ds), NEW i \in 1 .. Len(ps), Newer(ds, i)
  PROVE  Log(ps, Append(ds, i))
<1> DEFINE es == Append(ds, i)
<1>1. /\ es \in Seq(Nat) /\ Len(ds) \in Nat /\ Len(es) = Len(ds) + 1
      /\ \A k \in 1 .. Len(ds) : es[k] = ds[k]
      /\ es[Len(ds) + 1] = i
  BY AppendProperties DEF Log
<1> HIDE DEF es
<1>2. \A k \in 1 .. Len(es) : k \in 1 .. Len(ds) \/ k = Len(ds) + 1
  BY <1>1
<1>3. \A j, k \in 1 .. Len(es) : j < k => j \in 1 .. Len(ds)
  BY <1>1
<1>4. \A k \in 1 .. Len(es) : es[k] \in 1 .. Len(ps)
  BY <1>1, <1>2 DEF Log
<1>5. \A j, k \in 1 .. Len(es) : j < k => es[j] < es[k]
  BY <1>1, <1>2, <1>3 DEF Log, Newer
<1>6. QED
  BY <1>1, <1>4, <1>5 DEF Log, es

\* The unit shows a post more, and one more applied.
LEMMA UnitPosted ==
  ASSUME NEW un, NEW ps, NEW ds, Log(ps, ds), UnitIs(un, ps, ds), NEW x \in PostType
  PROVE  UnitIs(un, Append(ps, x), ds)
<1>1. Len(ds) \in 0 .. Len(ds)
  BY DEF Log
<1>2. \A r : Replay(Append(ps, x), ds, Len(ds), r) = Replay(ps, ds, Len(ds), r)
  BY <1>1, ReplayPost
<1>3. QED
  BY <1>2 DEF UnitIs

LEMMA UnitDone ==
  ASSUME NEW un, NEW ps, NEW ds, Log(ps, ds), UnitIs(un, ps, ds), NEW f \in FrameType,
         Carries(f, ps)
  PROVE  /\ apply_write(un, f.field_a, f.payload)
              = [un EXCEPT ![ps[f.tag].reg] = ps[f.tag].value]
         /\ UnitIs(apply_write(un, f.field_a, f.payload), ps, Append(ds, f.tag))
<1> DEFINE i  == f.tag
           r  == ps[i].reg
           v  == ps[i].value
           es == Append(ds, i)
           nw == apply_write(un, f.field_a, f.payload)
<1>1. /\ i \in 1 .. Len(ps) /\ i \in Nat /\ f.field_a \in Nat
      /\ f.payload = <<v>> /\ registers_at(f.field_a) = {r}
  BY DEF Carries, FrameType
<1>2. ps[i] \in PostType /\ ds \in Seq(Nat)
  BY <1>1 DEF Log
<1>3. r \in DOMAIN FirstUnit /\ v \in Byte
  BY <1>2 DEF PostType
<1>4. /\ un \in [DOMAIN FirstUnit -> Byte] /\ DOMAIN un = DOMAIN FirstUnit
      /\ \A q \in DOMAIN FirstUnit : un[q] = Replay(ps, ds, Len(ds), q)
  BY DEF UnitIs
<1>5. Len(es) = Len(ds) + 1
  BY <1>1, <1>2, AppendProperties
<1>6. \A q : Replay(ps, es, Len(ds) + 1, q)
               = IF ps[i].reg = q THEN ps[i].value ELSE Replay(ps, ds, Len(ds), q)
  <2> HIDE DEF i
  <2> TAKE q
  <2>1. i \in Nat
    BY <1>1
  <2>2. QED
    BY <2>1, ReplayNext
<1> DEFINE a == f.field_a
<1> HIDE DEF i, r, v, es, a
<1>7. apply_write(un, a, <<v>>)
        = [q \in DOMAIN un \cup {r} |-> IF q = r THEN v ELSE un[q]]
  <2>1. a \in Nat /\ registers_at(a) = {r}
    BY <1>1 DEF a
  <2>2. \A b \in Nat : registers_at(b) = {r} =>
          apply_write(un, b, <<v>>) = [q \in DOMAIN un \cup {r} |-> IF q = r THEN v ELSE un[q]]
    BY WriteOfByte
  <2>3. QED
    BY <2>1, <2>2, Zenon
<1>8. nw = [q \in DOMAIN un \cup {r} |-> IF q = r THEN v ELSE un[q]]
  BY <1>1, <1>7 DEF a
<1> HIDE DEF nw
<1>9. DOMAIN un \cup {r} = DOMAIN FirstUnit
  BY <1>3, <1>4
<1>10. nw = [q \in DOMAIN FirstUnit |-> IF q = r THEN v ELSE un[q]]
  BY <1>8, <1>9
<1>11. nw = [un EXCEPT ![r] = v]
  BY <1>3, <1>4, <1>10
<1>12. nw \in [DOMAIN FirstUnit -> Byte]
  BY <1>3, <1>4, <1>10
<1>13. \A q \in DOMAIN FirstUnit : nw[q] = Replay(ps, es, Len(es), q)
  BY <1>4, <1>5, <1>6, <1>10 DEF r, v
<1>14. UnitIs(nw, ps, es)
  BY <1>12, <1>13 DEF UnitIs
<1>15. QED
  BY <1>11, <1>14 DEF nw, r, v, i, es

\* The frames of the model are frames.
LEMMA FramesAreFrames ==
  /\ \A addr \in Nat, x \in PostType, tag \in Nat : Command(addr, x, tag) \in FrameType
  /\ \A w \in KNOWN_WINDOWS : Poll(w) \in FrameType
  /\ \A fc \in Nat, a \in Nat, b \in Nat, payload \in Seq(Byte), tag \in Nat :
       Frame(DIR_RESPONSE, fc, a, b, payload, tag) \in FrameType
<1>1. FC_CMD \in Nat /\ FC_READ \in Nat /\ 1 \in Nat /\ 0 \in Nat /\ <<>> \in Seq(Byte)
  BY DEF FC_CMD, FC_READ
<1>2. ASSUME NEW addr \in Nat, NEW x \in PostType, NEW tag \in Nat
      PROVE  Command(addr, x, tag) \in FrameType
  <2>1. <<x.value>> \in Seq(Byte)
    BY DEF PostType
  <2>2. QED
    BY <1>1, <2>1 DEF Command, Frame, FrameType
<1>3. ASSUME NEW w \in KNOWN_WINDOWS PROVE Poll(w) \in FrameType
  BY <1>1, WindowType DEF Poll, Frame, FrameType
<1>4. QED
  BY <1>2, <1>3 DEF Frame, FrameType

\* Frames come from the front of the bus to the master; the rest is as it was.
LEMMA CoreFlushed ==
  ASSUME Core, NEW n \in 0 .. Len(toMaster), toMaster' = flush_rx(toMaster, n),
         UNCHANGED <<unit, image, toUnit, posts, done, seen, sure>>, CallInv'
  PROVE  Core'
<1>1. Answers(toMaster', posts, done, seen)
  BY AnswerFlushed DEF Core
<1>2. toMaster \in Seq(FrameType)
  BY DEF Core, Answers
<1>3. Sure(sure, toMaster', posts, done)
  BY <1>2, SureFlushed DEF Core
<1>4. QED
  BY <1>1, <1>3 DEF Core, ImageOfBytes

\* A frame that says nothing of the unit comes behind what is not flushed.
LEMMA SilentAppended ==
  ASSUME Core, NEW n \in 0 .. Len(toMaster), NEW f \in FrameType, ~ Acks(f), ~ Reports(f)
  PROVE  /\ Answers(Append(flush_rx(toMaster, n), f), posts, done, seen)
         /\ Sure(sure, Append(flush_rx(toMaster, n), f), posts, done)
<1> DEFINE rest == flush_rx(toMaster, n)
<1>1. Answers(rest, posts, done, seen)
  BY AnswerFlushed DEF Core
<1>2. toMaster \in Seq(FrameType) /\ done \in Seq(Nat)
  BY DEF Core, Answers, Log
<1>3. Sure(sure, rest, posts, done)
  BY <1>2, SureFlushed DEF Core
<1> HIDE DEF rest
<1>4. rest \in Seq(FrameType)
  BY <1>1 DEF Answers
<1>5. Answers(Append(rest, f), posts, done, seen)
  BY <1>1, SilentSent
<1>6. Sure(sure, Append(rest, f), posts, done)
  BY <1>2, <1>3, <1>4, SureSent
<1>7. QED
  BY <1>5, <1>6 DEF rest

LEMMA CoreWrite == Core /\ WriteCall => Core'
<1> SUFFICES ASSUME Core, WriteCall PROVE Core'
  OBVIOUS
<1>1. PICK n \in Nat, addr \in Nat, x \in PostType :
        /\ CallBegins(n)
        /\ registers_at(addr) = {x.reg}
        /\ Send(Command(addr, x, Len(posts) + 1), n)
        /\ posts' = Append(posts, x)
        /\ ~ Polling' /\ want' = [fc |-> FC_CMD, a |-> addr, b |-> 1]
  BY DEF WriteCall
<1> DEFINE f  == Command(addr, x, Len(posts) + 1)
           ps == Append(posts, x)
<1>2. /\ toUnit' = Append(toUnit, f) /\ pc' = "wait"
      /\ toMaster' = Append(flush_rx(toMaster, n), f)
      /\ unit' = unit /\ image' = image /\ done' = done /\ seen' = seen /\ sure' = sure
      /\ n \in 0 .. Len(toMaster) /\ posts' = ps
  BY <1>1 DEF Send, CallBegins
<1>3. Log(posts, done) /\ Len(posts) \in Nat /\ posts \in Seq(PostType) /\ Len(posts) + 1 \in Nat
  BY DEF Core, Log
<1>4. f \in FrameType
  BY <1>3, FramesAreFrames
<1>5. /\ f.dir = DIR_REQUEST /\ f.fc = FC_CMD /\ f.field_a = addr
      /\ f.payload = <<x.value>> /\ f.tag = Len(posts) + 1
  BY DEF Command, Frame
<1>6. Len(ps) = Len(posts) + 1 /\ ps[Len(posts) + 1] = x
      /\ \A i \in 1 .. Len(posts) : ps[i] = posts[i]
  BY <1>3, AppendProperties
<1>7. Log(ps, done)
  BY <1>3, LogPosted
<1>8. UnitIs(unit, ps, done)
  BY <1>3, UnitPosted DEF Core
<1>9. Requests(toUnit, ps, done)
  BY <1>3, RequestPosted DEF Core
<1> HIDE DEF f, ps
<1>10. Requests(Append(toUnit, f), ps, done)
  <2>1. Carries(f, ps)
    BY <1>1, <1>3, <1>5, <1>6 DEF Carries
  <2>2. Newer(done, f.tag)
    BY <1>3, <1>5 DEF Log, Newer
  <2>3. IsRequest(f, ps, done)
    BY <1>5, <2>1, <2>2 DEF IsRequest
  <2>4. \A p \in 1 .. Len(toUnit) : Ordered(toUnit[p], f)
    <3> TAKE p \in 1 .. Len(toUnit)
    <3>1. IsRequest(toUnit[p], posts, done)
      BY DEF Core, Requests
    <3>2. toUnit[p].fc = FC_CMD => toUnit[p].tag \in 1 .. Len(posts)
      BY <3>1 DEF IsRequest, Carries, FC_CMD, FC_READ
    <3>3. QED
      BY <1>3, <1>5, <3>2 DEF Ordered
  <2>5. QED
    BY <1>4, <1>9, <2>3, <2>4, RequestSent
<1>11. ~ Acks(f) /\ ~ Reports(f)
  BY <1>5 DEF Acks, Reports, DIR_REQUEST, DIR_RESPONSE
<1>12. Answers(toMaster', posts, done, seen) /\ Sure(sure, toMaster', posts, done)
  BY <1>2, <1>4, <1>11, SilentAppended
<1>13. Answers(toMaster', ps, done, seen)
  BY <1>3, <1>12, AnswerPosted DEF ps
<1>14. Sure(sure, toMaster', ps, done)
  <2>1. Len(posts) <= Len(ps) /\ Len(ps) \in Nat /\ Len(done) \in Nat
    BY <1>3, <1>6 DEF Log
  <2>2. Len(done) <= Len(done)
    BY <2>1
  <2>3. QED
    BY <1>3, <1>12, <2>1, <2>2, SureGrows
<1>15. ImageOfBytes' /\ CallInv'
  BY <1>1, <1>2 DEF Core, ImageOfBytes, CallInv
<1>16. QED
  BY <1>2, <1>7, <1>8, <1>10, <1>13, <1>14, <1>15 DEF Core

LEMMA CorePoll == Core /\ PollCall => Core'
<1> SUFFICES ASSUME Core, PollCall PROVE Core'
  OBVIOUS
<1>1. PICK n \in Nat, w \in KNOWN_WINDOWS :
        /\ CallBegins(n) /\ Send(Poll(w), n) /\ UNCHANGED posts
        /\ Polling' /\ want'.fc = FC_READ /\ task'.win = w
  BY DEF PollCall
<1> DEFINE f == Poll(w)
<1>2. /\ toUnit' = Append(toUnit, f) /\ pc' = "wait"
      /\ toMaster' = Append(flush_rx(toMaster, n), f)
      /\ unit' = unit /\ image' = image /\ done' = done /\ seen' = seen /\ sure' = sure
      /\ n \in 0 .. Len(toMaster) /\ posts' = posts
  BY <1>1 DEF Send, CallBegins
<1>3. f \in FrameType
  BY FramesAreFrames
<1>4. /\ f.dir = DIR_REQUEST /\ f.fc = FC_READ
      /\ is_known_window(f.field_a, f.field_b)
  BY FindWindow DEF Poll, Frame
<1> HIDE DEF f
<1>5. Requests(Append(toUnit, f), posts, done)
  <2>1. IsRequest(f, posts, done) /\ \A p \in 1 .. Len(toUnit) : Ordered(toUnit[p], f)
    BY <1>4 DEF IsRequest, Ordered, FC_CMD, FC_READ
  <2>2. QED
    BY <1>3, <2>1, RequestSent DEF Core
<1>6. ~ Acks(f) /\ ~ Reports(f)
  BY <1>4 DEF Acks, Reports, DIR_REQUEST, DIR_RESPONSE
<1>7. Answers(toMaster', posts, done, seen) /\ Sure(sure, toMaster', posts, done)
  BY <1>2, <1>3, <1>6, SilentAppended
<1>8. ImageOfBytes' /\ CallInv'
  BY <1>1, <1>2 DEF Core, ImageOfBytes, CallInv
<1>9. QED
  BY <1>2, <1>5, <1>7, <1>8 DEF Core

\* Unless a frame of the same address was under way, every command and every
\* acknowledgement of the address that a write waits for is its own.
OwnCommands(a, i) == {f \in FrameType : f.fc = FC_CMD /\ f.field_a = a => f.tag = i}
OwnAcks(a, i)     == {f \in FrameType : Acks(f) /\ f.field_a = a => f.tag = i}

FreshInv ==
  pc = "wait" /\ want.fc = FC_CMD /\ <<FC_CMD, want.a>> \notin late =>
    /\ toUnit \in Seq(OwnCommands(want.a, Len(posts)))
    /\ toMaster \in Seq(OwnAcks(want.a, Len(posts)))

LEMMA CoreQuiet == Core /\ QuietCall => Core'
<1> SUFFICES ASSUME Core, QuietCall PROVE Core'
  OBVIOUS
<1>1. PICK n : /\ CallBegins(n)
               /\ toMaster' = flush_rx(toMaster, n)
               /\ UNCHANGED <<toUnit, pc, posts>>
               /\ Polling' => want'.fc = FC_READ /\ task'.win \in KNOWN_WINDOWS
  BY DEF QuietCall
<1>2. n \in 0 .. Len(toMaster) /\ pc' = "idle"
  BY <1>1 DEF CallBegins
<1>3. CallInv'
  BY <1>1, <1>2 DEF CallInv
<1>4. UNCHANGED <<unit, image, toUnit, posts, done, seen, sure>>
  BY <1>1 DEF CallBegins
<1>5. QED
  BY <1>1, <1>2, <1>3, <1>4, CoreFlushed

\* The frame at the head of the bus goes.
LEMMA CoreTail ==
  ASSUME Core, toMaster # <<>>, toMaster' = Tail(toMaster),
         UNCHANGED <<unit, image, toUnit, posts, done, seen, sure>>, CallInv'
  PROVE  Core'
<1>1. toMaster \in Seq(FrameType)
  BY DEF Core, Answers
<1>2. Tail(toMaster) = flush_rx(toMaster, 1) /\ 1 \in 0 .. Len(toMaster)
  BY <1>1, Taken
<1>3. QED
  BY <1>2, CoreFlushed

\* The call and what it waits for are as they were, or it has ended.
LEMMA CallStays ==
  ASSUME CallInv, UNCHANGED <<task, want>>, pc' = pc \/ pc' = "idle"
  PROVE  CallInv'
BY DEF CallInv, Polling

LEMMA CoreAck == Core /\ FreshInv /\ TakeAck => Core'
<1> SUFFICES ASSUME Core, FreshInv, TakeAck PROVE Core'
  OBVIOUS
<1> DEFINE f == Head(toMaster)
<1>1. /\ pc = "wait" /\ toMaster # <<>> /\ ~ Polling
      /\ matches(f, want) /\ pc' = "idle" /\ toMaster' = Tail(toMaster)
      /\ sure' = sure \cup IF <<FC_CMD, want.a>> \in late THEN {} ELSE {Len(posts)}
      /\ UNCHANGED <<unit, image, toUnit, task, want, posts, done, seen>>
  BY DEF TakeAck, AtFrame, Return
<1>2. CallInv'
  BY <1>1, CallStays DEF Core
<1>3. CASE <<FC_CMD, want.a>> \in late
  <2>1. sure' = sure
    BY <1>1, <1>3
  <2>2. QED
    BY <1>1, <1>2, <2>1, CoreTail
<1>4. CASE <<FC_CMD, want.a>> \notin late
  <2>1. want.fc = FC_CMD
    BY <1>1 DEF Core, CallInv
  <2>2. Acks(f) /\ f.field_a = want.a
    BY <1>1, <2>1 DEF matches, Acks
  <2>3. toMaster \in Seq(OwnAcks(want.a, Len(posts)))
    BY <1>1, <1>4, <2>1 DEF FreshInv
  <2>4. f \in OwnAcks(want.a, Len(posts))
    BY <1>1, <2>3, Taken
  <2>5. f.tag = Len(posts)
    BY <2>2, <2>4 DEF OwnAcks
  <2>6. sure' = sure \cup {f.tag}
    BY <1>1, <1>4, <2>5
  <2>7. Sure(sure', toMaster', posts, done)
    BY <1>1, <2>2, <2>6, AckTaken DEF Core
  <2>8. toMaster \in Seq(FrameType)
    BY DEF Core, Answers
  <2>9. toMaster' = flush_rx(toMaster, 1) /\ 1 \in 0 .. Len(toMaster)
    BY <1>1, <2>8, Taken
  <2>10. Answers(toMaster', posts, done, seen)
    BY <2>9, AnswerFlushed DEF Core
  <2>11. QED
    BY <1>1, <1>2, <2>7, <2>10 DEF Core, ImageOfBytes
<1>5. QED
  BY <1>3, <1>4

LEMMA CoreNack == Core /\ TakeNack => Core'
<1> SUFFICES ASSUME Core, TakeNack PROVE Core'
  OBVIOUS
<1>1. PICK n \in 1 .. Len(toMaster) : toMaster' = flush_rx(toMaster, n)
  BY DEF TakeNack
<1>2. /\ pc' = "idle"
      /\ UNCHANGED <<unit, image, toUnit, task, want, posts, done, seen, sure>>
  BY DEF TakeNack, Return, history
<1>3. n \in 0 .. Len(toMaster)
  BY <1>1
<1>4. CallInv'
  BY <1>2, CallStays DEF Core
<1>5. QED
  BY <1>1, <1>2, <1>3, <1>4, CoreFlushed

LEMMA CoreSkip == Core /\ SkipFrame => Core'
<1> SUFFICES ASSUME Core, SkipFrame PROVE Core'
  OBVIOUS
<1>1. /\ toMaster # <<>> /\ toMaster' = Tail(toMaster)
      /\ UNCHANGED <<unit, image, toUnit, pc, task, want, posts, done, seen, sure>>
  BY DEF SkipFrame, AtFrame, history
<1>2. CallInv'
  BY <1>1, CallStays DEF Core
<1>3. QED
  BY <1>1, <1>2, CoreTail

LEMMA CoreGiveUp == Core /\ GiveUp => Core'
<1> SUFFICES ASSUME Core, GiveUp PROVE Core'
  OBVIOUS
<1>1. /\ pc' = "idle"
      /\ UNCHANGED <<unit, image, toUnit, task, want, posts, done, seen, sure>>
  BY DEF GiveUp, WriteFails, Return, history
<1>2. CallInv'
  BY <1>1, CallStays DEF Core
<1>3. CASE toMaster' = toMaster
  BY <1>1, <1>2, <1>3 DEF Core, ImageOfBytes
<1>4. CASE \E n \in 0 .. Len(toMaster) : toMaster' = flush_rx(toMaster, n)
  BY <1>1, <1>2, <1>4, CoreFlushed
<1>5. QED
  BY <1>3, <1>4 DEF GiveUp, WriteFails

LEMMA CoreLoseAnswer == Core /\ LoseAnswer => Core'
<1> SUFFICES ASSUME Core, LoseAnswer PROVE Core'
  OBVIOUS
<1>1. /\ toMaster # <<>> /\ toMaster' = Tail(toMaster)
      /\ UNCHANGED <<unit, image, toUnit, pc, task, want, posts, done, seen, sure>>
  BY DEF LoseAnswer, history
<1>2. CallInv'
  BY <1>1, CallStays DEF Core
<1>3. QED
  BY <1>1, <1>2, CoreTail

\* The answer of a poll is a report of its window, newer than what was shown.
LEMMA ResponseTaken ==
  ASSUME Core, TakeResponse
  PROVE  LET f == Head(toMaster)
         IN  /\ toMaster # <<>> /\ f \in FrameType /\ Reports(f)
             /\ Shows(f, posts, done) /\ window_of(f) = task.win /\ task.win \in KNOWN_WINDOWS
             /\ f.tag \in seen[task.win] .. Len(done)
             /\ toMaster' = Tail(toMaster)
             /\ pc' = "idle" /\ result' = "Ok" /\ Polling
             /\ UNCHANGED <<unit, toUnit, task, want, posts, done, sure, late>>
             /\ IF reg_range(task.win) = {} /\ ~ is_ingested(f)
                THEN UNCHANGED <<image, seen>>
                ELSE /\ seen' = [seen EXCEPT ![task.win] = f.tag]
                     /\ image' = WithWindow(image, task.win, posts, done, f.tag)
<1> DEFINE f == Head(toMaster)
           w == task.win
<1>1. /\ toMaster # <<>> /\ Polling /\ is_match(f, w)
      /\ toMaster' = Tail(toMaster) /\ pc' = "idle" /\ result' = "Ok"
      /\ UNCHANGED <<unit, toUnit, task, want, posts, done, sure, late>>
  BY DEF TakeResponse, AtFrame, Return
<1>2. IF is_ingested(f)
      THEN /\ image' = ingest_bytes(image, window_of(f).reg_base, window_data(f))
           /\ seen' = [seen EXCEPT ![window_of(f)] = f.tag]
      ELSE UNCHANGED <<image, seen>>
  BY DEF TakeResponse
<1>3. w \in KNOWN_WINDOWS
  BY <1>1 DEF Core, CallInv
<1>4. Reports(f) /\ f.field_a = w.field_a /\ f.field_b = w.field_b
  BY <1>1 DEF is_match, Reports
<1>5. window_of(f) = w
  BY <1>3, <1>4, FindWindow DEF window_of
<1>6. toMaster \in Seq(FrameType) /\ Answers(toMaster, posts, done, seen)
  BY DEF Core, Answers
<1>7. f = toMaster[1] /\ 1 \in 1 .. Len(toMaster) /\ f \in FrameType
  BY <1>1, <1>6, Taken
<1>8. IsAnswer(f, posts, done, seen)
  BY <1>6, <1>7 DEF Answers
<1>9. Shows(f, posts, done) /\ seen[w] <= f.tag
  BY <1>3, <1>4, <1>8 DEF IsAnswer
<1>10. seen[w] \in Nat /\ f.tag \in 0 .. Len(done) /\ Len(done) \in Nat
  BY <1>3, <1>9 DEF Core, SeenInTime, Shows, Log
<1>11. f.tag \in seen[w] .. Len(done)
  BY <1>9, <1>10
<1> HIDE DEF f
<1>12. CASE is_ingested(f)
  <2>1. ingest_bytes(image, window_of(f).reg_base, window_data(f))
          = WithWindow(image, window_of(f), posts, done, f.tag)
    BY <1>7, <1>9, WindowIngested
  <2>2. QED
    BY <1>1, <1>2, <1>3, <1>4, <1>5, <1>7, <1>9, <1>11, <1>12, <2>1 DEF f
<1>13. CASE ~ is_ingested(f)
  <2>1. reg_range(w) = {}
    BY <1>4, <1>5, <1>7, <1>9, <1>13, NothingIngested
  <2>2. QED
    BY <1>1, <1>2, <1>3, <1>4, <1>5, <1>7, <1>9, <1>11, <1>13, <2>1 DEF f
<1>14. QED
  BY <1>12, <1>13

LEMMA CoreResponse == Core /\ TakeResponse => Core'
<1> SUFFICES ASSUME Core, TakeResponse PROVE Core'
  OBVIOUS
<1> DEFINE f == Head(toMaster)
           w == task.win
<1>1. /\ toMaster # <<>> /\ f \in FrameType /\ Reports(f) /\ w \in KNOWN_WINDOWS
      /\ f.tag \in seen[w] .. Len(done) /\ toMaster' = Tail(toMaster) /\ pc' = "idle"
      /\ UNCHANGED <<unit, toUnit, task, want, posts, done, sure>>
  BY ResponseTaken
<1>2. \/ UNCHANGED <<image, seen>>
      \/ /\ seen' = [seen EXCEPT ![w] = f.tag]
         /\ image' = WithWindow(image, w, posts, done, f.tag)
  BY ResponseTaken
<1>3. CallInv'
  BY <1>1, CallStays DEF Core
<1>4. CASE UNCHANGED <<image, seen>>
  BY <1>1, <1>3, <1>4, CoreTail
<1>5. CASE /\ seen' = [seen EXCEPT ![w] = f.tag]
           /\ image' = WithWindow(image, w, posts, done, f.tag)
  <2>1. Log(posts, done) /\ seen \in [KNOWN_WINDOWS -> Nat] /\ Len(done) \in Nat
    BY DEF Core, Log, SeenInTime
  <2>2. f.tag \in 0 .. Len(done)
    BY <1>1, <2>1
  <2>3. Answers(toMaster', posts, done, seen')
    BY <1>1, <1>5, <2>1, ReportTaken DEF Core
  <2>4. toMaster \in Seq(FrameType)
    BY DEF Core, Answers
  <2>5. toMaster' = flush_rx(toMaster, 1) /\ 1 \in 0 .. Len(toMaster)
    BY <1>1, <2>4, Taken
  <2>6. Sure(sure, toMaster', posts, done)
    BY <2>4, <2>5, SureFlushed DEF Core
  <2> HIDE DEF f
  <2>7. SeenInTime(seen', done)
    <3>0. f.tag \in Nat
      BY <2>1, <2>2
    <3>1. seen' \in [KNOWN_WINDOWS -> Nat]
      BY <1>5, <2>1, <3>0
    <3>2. \A v \in KNOWN_WINDOWS : seen'[v] = IF v = w THEN f.tag ELSE seen[v]
      BY <1>5, <2>1
    <3>3. f.tag <= Len(done)
      BY <2>1, <2>2
    <3>4. QED
      BY <3>1, <3>2, <3>3 DEF Core, SeenInTime
  <2>8. \A r \in reg_range(w) : Replay(posts, done, f.tag, r) \in Byte
    <3> TAKE r \in reg_range(w)
    <3>1. FirstUnit[r] \in Byte
      BY <1>1, UnitHasWindows, UnitStarts
    <3>2. QED
      BY <2>1, <2>2, <3>1, ReplayType
  <2>9. ImageOfBytes'
    BY <1>5, <2>8 DEF Core, ImageOfBytes, WithWindow
  <2>10. QED
    BY <1>1, <1>3, <2>3, <2>6, <2>7, <2>9 DEF Core
<1>6. QED
  BY <1>2, <1>4, <1>5

\* The unit stores a command, the next of the log.
LEMMA Application ==
  ASSUME Core, UnitApplies
  PROVE  LET f == Head(toUnit)
         IN  /\ toUnit # <<>> /\ f \in FrameType /\ f.fc = FC_CMD /\ Carries(f, posts)
             /\ f.tag \in 1 .. Len(posts) /\ f.tag \in Nat /\ Newer(done, f.tag)
             /\ unit' = [unit EXCEPT ![posts[f.tag].reg] = posts[f.tag].value]
             /\ UnitIs(unit', posts, done')
             /\ done' = Append(done, f.tag) /\ toUnit' = Tail(toUnit)
             /\ toMaster' = Append(toMaster, Frame(DIR_RESPONSE, FC_CMD, f.field_a,
                                                   f.field_b, <<>>, f.tag))
             /\ UNCHANGED <<image, pc, task, want, result, posts, seen, sure, late>>
<1> DEFINE f == Head(toUnit)
<1>1. /\ toUnit # <<>> /\ f.fc = FC_CMD
      /\ unit' = apply_write(unit, f.field_a, f.payload)
      /\ done' = Append(done, f.tag) /\ toUnit' = Tail(toUnit)
      /\ toMaster' = Append(toMaster, Frame(DIR_RESPONSE, FC_CMD, f.field_a,
                                            f.field_b, <<>>, f.tag))
      /\ UNCHANGED <<image, pc, task, want, result, posts, seen, sure, late>>
  BY DEF UnitApplies, Answer
<1>2. Requests(toUnit, posts, done) /\ Log(posts, done) /\ UnitIs(unit, posts, done)
  BY DEF Core
<1>3. f \in FrameType /\ IsRequest(f, posts, done)
  BY <1>1, <1>2, RequestTaken
<1>4. Carries(f, posts) /\ Newer(done, f.tag)
  BY <1>1, <1>3 DEF IsRequest, FC_CMD, FC_READ
<1>5. f.tag \in 1 .. Len(posts) /\ f.tag \in Nat
  BY <1>3, <1>4 DEF Carries, FrameType
<1> HIDE DEF f
<1>6. /\ apply_write(unit, f.field_a, f.payload)
           = [unit EXCEPT ![posts[f.tag].reg] = posts[f.tag].value]
      /\ UnitIs(apply_write(unit, f.field_a, f.payload), posts, Append(done, f.tag))
  BY <1>2, <1>3, <1>4, UnitDone
<1>7. UnitIs(unit', posts, done')
  BY <1>1, <1>6
<1>8. unit' = [unit EXCEPT ![posts[f.tag].reg] = posts[f.tag].value]
  BY <1>1, <1>6, Zenon
<1>9. QED
  BY <1>1, <1>3, <1>4, <1>5, <1>7, <1>8 DEF f

LEMMA CoreApplies == Core /\ UnitApplies => Core'
<1> SUFFICES ASSUME Core, UnitApplies PROVE Core'
  OBVIOUS
<1> DEFINE f   == Head(toUnit)
           ack == Frame(DIR_RESPONSE, FC_CMD, f.field_a, f.field_b, <<>>, f.tag)
           es  == Append(done, f.tag)
<1>1. /\ toUnit # <<>> /\ f \in FrameType /\ f.fc = FC_CMD
      /\ f.tag \in 1 .. Len(posts) /\ f.tag \in Nat /\ Newer(done, f.tag)
      /\ UnitIs(unit', posts, done') /\ done' = es /\ toUnit' = Tail(toUnit)
      /\ toMaster' = Append(toMaster, ack)
      /\ UNCHANGED <<image, pc, task, want, posts, seen, sure>>
  BY Application
<1>2. /\ Log(posts, done) /\ Requests(toUnit, posts, done)
      /\ Answers(toMaster, posts, done, seen) /\ Sure(sure, toMaster, posts, done)
      /\ SeenInTime(seen, done)
  BY DEF Core
<1>3. /\ done \in Seq(Nat) /\ Len(done) \in Nat /\ toMaster \in Seq(FrameType)
      /\ Len(posts) \in Nat
  BY <1>2 DEF Log, Answers
<1>4. /\ Len(es) = Len(done) + 1 /\ es[Len(done) + 1] = f.tag
      /\ es \in Seq(Nat) /\ \A k \in 1 .. Len(done) : es[k] = done[k]
  BY <1>1, <1>3, AppendProperties
<1>5. Log(posts, es)
  BY <1>1, <1>2, LogDone
<1>6. /\ Requests(Tail(toUnit), posts, done)
      /\ \A p \in 1 .. Len(Tail(toUnit)) : Ordered(f, Tail(toUnit)[p])
  BY <1>1, <1>2, RequestTaken
<1>7. Requests(Tail(toUnit), posts, es)
  BY <1>1, <1>2, <1>6, RequestDone
<1>8. Answers(toMaster, posts, es, seen)
  BY <1>1, <1>2, AnswerDone
<1>9. f.field_a \in Nat /\ f.field_b \in Nat /\ FC_CMD \in Nat /\ <<>> \in Seq(Byte)
  BY <1>1 DEF FrameType, FC_CMD
<1>10. ack \in FrameType
  BY <1>1, <1>9, FramesAreFrames
<1>11. ack.dir = DIR_RESPONSE /\ ack.fc = FC_CMD /\ ack.tag = f.tag
  BY DEF Frame
<1> HIDE DEF es, ack, f
<1>12. Acks(ack) /\ ~ Reports(ack)
  BY <1>11 DEF Acks, Reports, FC_CMD, FC_READ
<1>13. Stored(es, f.tag)
  <2>1. Len(done) + 1 \in 1 .. Len(es)
    BY <1>3, <1>4
  <2>2. QED
    BY <1>4, <2>1 DEF Stored
<1>14. IsAnswer(ack, posts, es, seen) /\ \A p \in 1 .. Len(toMaster) : InTime(toMaster[p], ack, es)
  BY <1>1, <1>11, <1>12, <1>13 DEF IsAnswer, InTime
<1>15. Answers(toMaster', posts, es, seen)
  BY <1>1, <1>8, <1>10, <1>14, AnswerSent
<1>16. Sure(sure, toMaster, posts, es)
  <2>1. Len(posts) <= Len(posts) /\ Len(done) <= Len(es) /\ Len(es) \in Nat
    BY <1>3, <1>4
  <2>2. QED
    BY <1>2, <1>3, <1>4, <2>1, SureGrows
<1>17. Sure(sure, toMaster', posts, es)
  BY <1>1, <1>3, <1>4, <1>10, <1>12, <1>16, SureSent
<1>18. SeenInTime(seen, es)
  BY <1>2, <1>3, <1>4 DEF SeenInTime
<1>19. CallInv'
  BY <1>1, CallStays DEF Core
<1>20. ImageOfBytes'
  BY <1>1 DEF Core, ImageOfBytes
<1>21. QED
  BY <1>1, <1>5, <1>7, <1>15, <1>17, <1>18, <1>19, <1>20 DEF Core

\* A request leaves the bus, and something is said of it that tells nothing of
\* the unit, or nothing at all.
LEMMA CoreUnanswered ==
  ASSUME Core, toUnit # <<>>, toUnit' = Tail(toUnit),
         Answers(toMaster', posts, done, seen), Sure(sure, toMaster', posts, done),
         UNCHANGED <<unit, image, pc, task, want, posts, done, seen, sure>>
  PROVE  Core'
<1>1. Requests(toUnit', posts, done)
  BY RequestTaken DEF Core
<1>2. CallInv'
  BY CallStays DEF Core
<1>3. QED
  BY <1>1, <1>2 DEF Core, ImageOfBytes

LEMMA CoreLoseRequest == Core /\ LoseRequest => Core'
<1> SUFFICES ASSUME Core, LoseRequest PROVE Core'
  OBVIOUS
<1>1. /\ toUnit # <<>> /\ toUnit' = Tail(toUnit) /\ toMaster' = toMaster
      /\ UNCHANGED <<unit, image, pc, task, want, posts, done, seen, sure>>
  BY DEF LoseRequest, history
<1>2. Answers(toMaster', posts, done, seen) /\ Sure(sure, toMaster', posts, done)
  BY <1>1 DEF Core
<1>3. QED
  BY <1>1, <1>2, CoreUnanswered

LEMMA CoreRefuses == Core /\ UnitRefuses => Core'
<1> SUFFICES ASSUME Core, UnitRefuses PROVE Core'
  OBVIOUS
<1> DEFINE f   == Head(toUnit)
           nak == Frame(DIR_RESPONSE, f.fc + 128, f.field_a, f.field_b, <<>>, 0)
<1>1. /\ toUnit # <<>> /\ toUnit' = Tail(toUnit) /\ toMaster' = Append(toMaster, nak)
      /\ UNCHANGED <<unit, image, pc, task, want, posts, done, seen, sure>>
  BY DEF UnitRefuses, Answer, history
<1>2. f \in FrameType
  BY <1>1, RequestTaken DEF Core
<1>3. /\ f.fc \in Nat /\ f.fc + 128 \in Nat /\ f.field_a \in Nat /\ f.field_b \in Nat
      /\ 0 \in Nat /\ <<>> \in Seq(Byte)
  BY <1>2 DEF FrameType
<1>4. nak \in FrameType
  BY <1>3, FramesAreFrames
<1>5. nak.fc = f.fc + 128
  BY DEF Frame
<1> HIDE DEF nak, f
<1>6. ~ Acks(nak) /\ ~ Reports(nak)
  BY <1>3, <1>5 DEF Acks, Reports, FC_CMD, FC_READ
<1>7. Answers(toMaster, posts, done, seen) /\ Sure(sure, toMaster, posts, done)
  BY DEF Core
<1>8. Answers(toMaster', posts, done, seen)
  BY <1>1, <1>4, <1>6, <1>7, SilentSent
<1>9. toMaster \in Seq(FrameType) /\ done \in Seq(Nat)
  BY DEF Core, Answers, Log
<1>10. Sure(sure, toMaster', posts, done)
  BY <1>1, <1>4, <1>6, <1>7, <1>9, SureSent
<1>11. QED
  BY <1>1, <1>8, <1>10, CoreUnanswered

LEMMA CoreReports == Core /\ UnitReports => Core'
<1> SUFFICES ASSUME Core, UnitReports PROVE Core'
  OBVIOUS
<1> DEFINE f     == Head(toUnit)
           bytes == read_window(unit, f.field_a, f.field_b)
           g     == Frame(DIR_RESPONSE, FC_READ, f.field_a, f.field_b, bytes, Len(done))
<1>1. /\ toUnit # <<>> /\ f.fc = FC_READ
      /\ toUnit' = Tail(toUnit) /\ toMaster' = Append(toMaster, g)
      /\ UNCHANGED <<unit, image, pc, task, want, posts, done, seen, sure>>
  BY DEF UnitReports, Answer, history
<1>2. /\ Log(posts, done) /\ UnitIs(unit, posts, done) /\ SeenInTime(seen, done)
      /\ Answers(toMaster, posts, done, seen) /\ Sure(sure, toMaster, posts, done)
  BY DEF Core
<1>3. /\ done \in Seq(Nat) /\ Len(done) \in Nat /\ toMaster \in Seq(FrameType)
  BY <1>2 DEF Log, Answers
<1>4. f \in FrameType /\ IsRequest(f, posts, done)
  BY <1>1, RequestTaken DEF Core
<1>5. is_known_window(f.field_a, f.field_b)
  BY <1>1, <1>4 DEF IsRequest, FC_CMD, FC_READ
<1>6. PICK w \in KNOWN_WINDOWS : w.field_a = f.field_a /\ w.field_b = f.field_b
  BY <1>5 DEF is_known_window
<1>7. reg_range(w) \subseteq DOMAIN unit /\ \A r \in DOMAIN unit : unit[r] \in Byte
  BY <1>2, UnitHasWindows DEF UnitIs
<1>8. /\ bytes \in Seq(Byte) /\ Len(bytes) = w.field_b
      /\ \A r \in reg_range(w) : bytes[w.prefix_len + (r - w.reg_base) + 1] = unit[r]
  BY <1>6, <1>7, WindowRead
<1>9. f.field_a \in Nat /\ f.field_b \in Nat /\ FC_READ \in Nat
  BY <1>4 DEF FrameType, FC_READ
<1>10. g \in FrameType
  BY <1>3, <1>8, <1>9, FramesAreFrames
<1>11. /\ g.dir = DIR_RESPONSE /\ g.fc = FC_READ /\ g.field_a = f.field_a
       /\ g.field_b = f.field_b /\ g.payload = bytes /\ g.tag = Len(done)
  BY DEF Frame
<1> HIDE DEF g, bytes, f
<1>12. window_of(g) = w
  BY <1>6, <1>11, FindWindow DEF window_of
<1>13. Shows(g, posts, done)
  <2>1. is_known_window(g.field_a, g.field_b) /\ Len(g.payload) = g.field_b
    BY <1>5, <1>6, <1>8, <1>11
  <2>2. g.tag \in 0 .. Len(done)
    BY <1>3, <1>11
  <2>3. ASSUME NEW r \in reg_range(w) PROVE ByteOf(g, r) = Replay(posts, done, g.tag, r)
    <3>1. ByteOf(g, r) = unit[r]
      BY <1>8, <1>11, <1>12 DEF ByteOf
    <3>2. unit[r] = Replay(posts, done, Len(done), r)
      BY <1>2, UnitHasWindows DEF UnitIs
    <3>3. QED
      BY <1>11, <3>1, <3>2
  <2>4. QED
    BY <1>12, <2>1, <2>2, <2>3 DEF Shows
<1>14. ~ Acks(g) /\ Reports(g)
  BY <1>11 DEF Acks, Reports, FC_CMD, FC_READ
<1>15. IsAnswer(g, posts, done, seen)
  BY <1>2, <1>11, <1>13, <1>14 DEF IsAnswer, SeenInTime
<1>16. \A p \in 1 .. Len(toMaster) : InTime(toMaster[p], g, done)
  <2> TAKE p \in 1 .. Len(toMaster)
  <2>1. IsAnswer(toMaster[p], posts, done, seen)
    BY <1>2 DEF Answers
  <2>2. Reports(toMaster[p]) => toMaster[p].tag <= g.tag
    BY <1>3, <1>11, <2>1 DEF IsAnswer, Shows
  <2>3. \A k \in 1 .. Len(done) : k <= g.tag
    BY <1>3, <1>11
  <2>4. QED
    BY <2>2, <2>3 DEF InTime
<1>17. Answers(toMaster', posts, done, seen)
  BY <1>1, <1>2, <1>10, <1>15, <1>16, AnswerSent
<1>18. Sure(sure, toMaster', posts, done)
  BY <1>1, <1>2, <1>3, <1>10, <1>11, SureSent
<1>19. QED
  BY <1>1, <1>17, <1>18, CoreUnanswered

LEMMA CoreStep == Core /\ FreshInv /\ [Next]_vars => Core'
<1> SUFFICES ASSUME Core, FreshInv, [Next]_vars PROVE Core'
  OBVIOUS
<1>1. CASE Call
  BY <1>1, CallCases, CoreQuiet, CoreWrite, CorePoll
<1>2. CASE Step
  BY <1>2, CoreAck, CoreNack, CoreResponse, CoreSkip, CoreGiveUp DEF Step
<1>3. CASE Environment
  BY <1>3, CoreApplies, CoreReports, CoreRefuses, CoreLoseRequest, CoreLoseAnswer
  DEF Environment
<1>4. CASE UNCHANGED vars
  BY <1>4 DEF vars, history, Core, ImageOfBytes, CallInv, Polling
<1>5. QED
  BY <1>1, <1>2, <1>3, <1>4 DEF Next
-----------------------------------------------------------------------------
(* What is under way belongs to the call *)

\* Frames of a kind stay of it behind a flush and before one more.
LEMMA KindKept ==
  ASSUME NEW S, NEW bus \in Seq(S)
  PROVE  /\ \A n \in 0 .. Len(bus) : flush_rx(bus, n) \in Seq(S)
         /\ bus # <<>> => Tail(bus) \in Seq(S) /\ Head(bus) \in S
         /\ \A f \in S : Append(bus, f) \in Seq(S)
BY Flushed, Taken

\* Frames that are all of a kind.
LEMMA AllOfKind ==
  ASSUME NEW S, NEW K, NEW bus \in Seq(S), \A p \in 1 .. Len(bus) : bus[p] \in K
  PROVE  bus \in Seq(K)
<1>1. Len(bus) \in Nat /\ bus = [p \in 1 .. Len(bus) |-> bus[p]]
  OBVIOUS
<1>2. bus \in [1 .. Len(bus) -> K]
  BY <1>1
<1>3. QED
  BY <1>1, <1>2, IsASeq

\* What is under way when a call begins, of the frames that have arrived n
\* being flushed.
LEMMA WhatIsLate ==
  ASSUME NEW n \in 0 .. Len(toMaster), toMaster \in Seq(FrameType), toUnit \in Seq(FrameType)
  PROVE  /\ \A p \in 1 .. Len(toUnit) : <<toUnit[p].fc, toUnit[p].field_a>> \in UnderWay(n)
         /\ LET rest == flush_rx(toMaster, n)
            IN  \A p \in 1 .. Len(rest) :
                  rest[p].dir = DIR_RESPONSE =>
                    <<rest[p].fc, rest[p].field_a>> \in UnderWay(n)
<1> DEFINE rest == flush_rx(toMaster, n)
<1>1. UnderWay(n) = {<<f.fc, f.field_a>> :
                       f \in ToSet(toUnit) \cup {g \in ToSet(rest) : g.dir = DIR_RESPONSE}}
  BY DEF UnderWay, flush_rx
<1>2. rest \in Seq(FrameType)
  BY Flushed
<1> HIDE DEF rest
<1>3. \A p \in 1 .. Len(toUnit) : toUnit[p] \in ToSet(toUnit)
  BY DEF ToSet
<1>4. \A p \in 1 .. Len(rest) : rest[p] \in ToSet(rest)
  BY <1>2 DEF ToSet
<1>5. \A p \in 1 .. Len(rest) :
        rest[p].dir = DIR_RESPONSE => <<rest[p].fc, rest[p].field_a>> \in UnderWay(n)
  BY <1>1, <1>4
<1>6. QED
  BY <1>1, <1>3, <1>5 DEF rest

\* A write that posts sees nothing of its address but its own command, unless
\* that is late.
LEMMA FreshWrite == Core /\ WriteCall => FreshInv'
<1> SUFFICES ASSUME Core, WriteCall, <<FC_CMD, want'.a>> \notin late'
             PROVE  /\ toUnit' \in Seq(OwnCommands(want'.a, Len(posts')))
                    /\ toMaster' \in Seq(OwnAcks(want'.a, Len(posts')))
  BY DEF FreshInv
<1>1. PICK n \in Nat, addr \in Nat, x \in PostType :
        /\ CallBegins(n)
        /\ Send(Command(addr, x, Len(posts) + 1), n)
        /\ posts' = Append(posts, x)
        /\ want' = [fc |-> FC_CMD, a |-> addr, b |-> 1]
  BY DEF WriteCall
<1> DEFINE f == Command(addr, x, Len(posts) + 1)
           rest == flush_rx(toMaster, n)
           i == Len(posts) + 1
<1>2. /\ toUnit' = Append(toUnit, f) /\ toMaster' = Append(rest, f)
      /\ n \in 0 .. Len(toMaster) /\ late' = UnderWay(n) /\ want'.a = addr
  BY <1>1 DEF Send, CallBegins
<1>3. posts \in Seq(PostType) /\ Len(posts) + 1 \in Nat
  BY DEF Core, Log
<1>4. Len(posts') = i
  BY <1>1, <1>3, AppendProperties
<1>5. f \in FrameType
  BY <1>3, FramesAreFrames
<1>6. f.dir = DIR_REQUEST /\ f.field_a = addr /\ f.tag = i
  BY DEF Command, Frame
<1>7. toMaster \in Seq(FrameType) /\ toUnit \in Seq(FrameType)
  BY DEF Core, Answers, Requests
<1>8. rest \in Seq(FrameType)
  BY <1>2, <1>7, Flushed
<1>9. /\ \A p \in 1 .. Len(toUnit) : <<toUnit[p].fc, toUnit[p].field_a>> \in late'
      /\ \A p \in 1 .. Len(rest) :
           rest[p].dir = DIR_RESPONSE => <<rest[p].fc, rest[p].field_a>> \in late'
  BY <1>2, <1>7, WhatIsLate
<1> HIDE DEF f, rest, i
<1>10. <<FC_CMD, addr>> \notin late'
  BY <1>2
<1>11. \A p \in 1 .. Len(toUnit) : toUnit[p] \in OwnCommands(addr, i)
  <2> TAKE p \in 1 .. Len(toUnit)
  <2>1. ~ (toUnit[p].fc = FC_CMD /\ toUnit[p].field_a = addr)
    BY <1>9, <1>10
  <2>2. toUnit[p] \in FrameType
    BY <1>7
  <2>3. QED
    BY <2>1, <2>2 DEF OwnCommands
<1>12. \A p \in 1 .. Len(rest) : rest[p] \in OwnAcks(addr, i)
  <2> TAKE p \in 1 .. Len(rest)
  <2>1. ~ (Acks(rest[p]) /\ rest[p].field_a = addr)
    BY <1>9, <1>10 DEF Acks
  <2>2. rest[p] \in FrameType
    BY <1>8
  <2>3. QED
    BY <2>1, <2>2 DEF OwnAcks
<1>13. f \in OwnCommands(addr, i) /\ f \in OwnAcks(addr, i)
  BY <1>5, <1>6 DEF OwnCommands, OwnAcks
<1>14. toUnit \in Seq(OwnCommands(addr, i)) /\ rest \in Seq(OwnAcks(addr, i))
  BY <1>7, <1>8, <1>11, <1>12, AllOfKind
<1>15. QED
  BY <1>2, <1>4, <1>13, <1>14, KindKept

\* What the unit answers a request with.
LEMMA UnitAnswers ==
  ASSUME Core, UnitApplies \/ UnitReports \/ UnitRefuses
  PROVE  \E g \in FrameType :
           LET f == Head(toUnit)
           IN  /\ toMaster' = Append(toMaster, g) /\ g.dir = DIR_RESPONSE
               /\ Acks(g) => f.fc = FC_CMD /\ g.field_a = f.field_a /\ g.tag = f.tag
               /\ is_exception(g) => UNCHANGED done
<1> DEFINE f  == Head(toUnit)
           g1 == Frame(DIR_RESPONSE, FC_CMD, f.field_a, f.field_b, <<>>, f.tag)
           g2 == Frame(DIR_RESPONSE, FC_READ, f.field_a, f.field_b,
                       read_window(unit, f.field_a, f.field_b), Len(done))
           g3 == Frame(DIR_RESPONSE, f.fc + 128, f.field_a, f.field_b, <<>>, 0)
<1>1. toUnit # <<>>
  BY DEF UnitApplies, UnitReports, UnitRefuses
<1>2. f \in FrameType /\ IsRequest(f, posts, done)
  BY <1>1, RequestTaken DEF Core
<1>3. /\ f.fc \in Nat /\ f.fc + 128 \in Nat /\ f.field_a \in Nat /\ f.field_b \in Nat
      /\ f.tag \in Nat /\ 0 \in Nat /\ <<>> \in Seq(Byte) /\ FC_CMD \in Nat /\ FC_READ \in Nat
  BY <1>2 DEF FrameType, FC_CMD, FC_READ
<1>4. CASE UnitApplies
  <2>1. f.fc = FC_CMD /\ toMaster' = Append(toMaster, g1)
    BY <1>4 DEF UnitApplies, Answer
  <2>2. g1 \in FrameType
    BY <1>3, FramesAreFrames
  <2>3. /\ g1.dir = DIR_RESPONSE /\ g1.fc = FC_CMD /\ g1.field_a = f.field_a
        /\ g1.tag = f.tag
    BY DEF Frame
  <2> HIDE DEF g1, f
  <2>4. ~ is_exception(g1)
    BY <2>3 DEF is_exception, FC_CMD
  <2>5. QED
    BY <2>1, <2>2, <2>3, <2>4 DEF f
<1>5. CASE UnitReports
  <2>1. f.fc = FC_READ /\ toMaster' = Append(toMaster, g2) /\ UNCHANGED done
    BY <1>5 DEF UnitReports, Answer, history
  <2>2. is_known_window(f.field_a, f.field_b)
    BY <1>2, <2>1 DEF IsRequest, FC_CMD, FC_READ
  <2>3. PICK w \in KNOWN_WINDOWS : w.field_a = f.field_a /\ w.field_b = f.field_b
    BY <2>2 DEF is_known_window
  <2>4. reg_range(w) \subseteq DOMAIN unit /\ \A r \in DOMAIN unit : unit[r] \in Byte
    BY UnitHasWindows DEF Core, UnitIs
  <2>5. read_window(unit, f.field_a, f.field_b) \in Seq(Byte) /\ Len(done) \in Nat
    BY <2>3, <2>4, WindowRead DEF Core, Log
  <2>6. g2 \in FrameType
    BY <1>3, <2>5, FramesAreFrames
  <2>7. g2.dir = DIR_RESPONSE /\ g2.fc = FC_READ
    BY DEF Frame
  <2> HIDE DEF g2, f
  <2>8. ~ Acks(g2) /\ ~ is_exception(g2)
    BY <2>7 DEF Acks, is_exception, FC_CMD, FC_READ
  <2>9. QED
    BY <2>1, <2>6, <2>7, <2>8
<1>6. CASE UnitRefuses
  <2>1. toMaster' = Append(toMaster, g3) /\ UNCHANGED done
    BY <1>6 DEF UnitRefuses, Answer, history
  <2>2. g3 \in FrameType
    BY <1>3, FramesAreFrames
  <2>3. g3.dir = DIR_RESPONSE /\ g3.fc = f.fc + 128
    BY DEF Frame
  <2> HIDE DEF g3, f
  <2>4. ~ Acks(g3)
    BY <1>3, <2>3 DEF Acks, FC_CMD
  <2>5. QED
    BY <2>1, <2>2, <2>3, <2>4
<1>7. QED
  BY <1>4, <1>5, <1>6

\* What comes from the unit later is of what is under way to it.
LEMMA FreshStep == Core /\ FreshInv /\ [Next]_vars => FreshInv'
<1> SUFFICES ASSUME Core, FreshInv, [Next]_vars PROVE FreshInv'
  OBVIOUS
<1> DEFINE Own == toUnit \in Seq(OwnCommands(want.a, Len(posts)))
                  /\ toMaster \in Seq(OwnAcks(want.a, Len(posts)))
<1>1. CASE Call
  <2>1. CASE QuietCall
    BY <2>1 DEF QuietCall, CallBegins, FreshInv
  <2>2. CASE PollCall
    BY <2>2 DEF PollCall, FreshInv, FC_READ, FC_CMD
  <2>3. QED
    BY <1>1, <2>1, <2>2, CallCases, FreshWrite
<1>2. CASE TakeAck \/ TakeNack \/ TakeResponse \/ GiveUp
  BY <1>2 DEF TakeAck, TakeNack, TakeResponse, GiveUp, WriteFails, Return, FreshInv
<1>3. CASE SkipFrame \/ LoseAnswer
  <2>1. /\ toMaster # <<>> /\ toMaster' = Tail(toMaster)
        /\ UNCHANGED <<toUnit, pc, want, posts, late>>
    BY <1>3 DEF SkipFrame, LoseAnswer, AtFrame, history
  <2>2. QED
    BY <2>1, KindKept DEF FreshInv
<1>4. CASE LoseRequest
  <2>1. /\ toUnit # <<>> /\ toUnit' = Tail(toUnit)
        /\ UNCHANGED <<toMaster, pc, want, posts, late>>
    BY <1>4 DEF LoseRequest, history
  <2>2. QED
    BY <2>1, KindKept DEF FreshInv
<1>5. CASE UnitApplies \/ UnitReports \/ UnitRefuses
  <2>1. PICK g \in FrameType :
          /\ toMaster' = Append(toMaster, g)
          /\ Acks(g) => LET f == Head(toUnit)
                        IN  f.fc = FC_CMD /\ g.field_a = f.field_a /\ g.tag = f.tag
    BY <1>5, UnitAnswers
  <2>2. /\ toUnit # <<>> /\ toUnit' = Tail(toUnit)
        /\ UNCHANGED <<pc, want, posts, late>>
    BY <1>5 DEF UnitApplies, UnitReports, UnitRefuses, history
  <2>3. ASSUME Own PROVE Own'
    <3>1. Head(toUnit) \in OwnCommands(want.a, Len(posts))
      BY <2>2, <2>3, KindKept
    <3>2. g \in OwnAcks(want.a, Len(posts))
      BY <2>1, <3>1 DEF OwnCommands, OwnAcks
    <3>3. QED
      BY <2>1, <2>2, <2>3, <3>2, KindKept
  <2>4. QED
    BY <2>2, <2>3 DEF FreshInv
<1>6. CASE UNCHANGED vars
  BY <1>6 DEF vars, history, FreshInv
<1>7. QED
  BY <1>1, <1>2, <1>3, <1>4, <1>5, <1>6 DEF Next, Step, Environment
-----------------------------------------------------------------------------
(* What the master returns *)

Echoes     == {f \in FrameType : f.dir # DIR_RESPONSE}
NoRefusals == {f \in FrameType : ~ is_exception(f)}

Pending == ~ Stored(done, Len(posts))

\* Unless anything was under way, the unit has the command of the call before
\* it and has said nothing, or a refusal is that of the command.
RefusedInv ==
  want.fc = FC_CMD /\ late = {} =>
    /\ pc = "wait" =>
         \/ toUnit # <<>> /\ Tail(toUnit) = <<>> /\ Pending /\ toMaster \in Seq(Echoes)
         \/ toUnit = <<>> /\ (Pending \/ toMaster \in Seq(NoRefusals))
    /\ pc = "idle" /\ result = "Nack" => toUnit = <<>> /\ Pending

\* What it returned of a write is still so, and what it shows of a poll.
ReturnedInv ==
  /\ pc = "idle" /\ want.fc = FC_CMD /\ result = "Ok" /\ <<FC_CMD, want.a>> \notin late
       => Stored(done, Len(posts))
  /\ ReadYourWrites

SessionInv == Core /\ FreshInv /\ RefusedInv /\ ReturnedInv

LEMMA EchoesRefuseNothing == \A s : s \in Seq(Echoes) => s \in Seq(NoRefusals)
<1> SUFFICES ASSUME NEW s \in Seq(Echoes) PROVE s \in Seq(NoRefusals)
  OBVIOUS
<1>1. \A p \in 1 .. Len(s) : s[p] \in NoRefusals
  BY DEF Echoes, NoRefusals, is_exception
<1>2. QED
  BY <1>1, AllOfKind

LEMMA RefusedWrite == Core /\ WriteCall => RefusedInv'
<1> SUFFICES ASSUME Core, WriteCall, late' = {}
             PROVE  /\ toUnit' # <<>> /\ Tail(toUnit') = <<>> /\ Pending'
                    /\ toMaster' \in Seq(Echoes) /\ pc' = "wait"
  BY DEF RefusedInv
<1>1. PICK n \in Nat, addr \in Nat, x \in PostType :
        /\ CallBegins(n)
        /\ Send(Command(addr, x, Len(posts) + 1), n)
        /\ posts' = Append(posts, x)
  BY DEF WriteCall
<1> DEFINE f == Command(addr, x, Len(posts) + 1)
           rest == flush_rx(toMaster, n)
<1>2. /\ toUnit' = Append(toUnit, f) /\ toMaster' = Append(rest, f) /\ pc' = "wait"
      /\ n \in 0 .. Len(toMaster) /\ late' = UnderWay(n) /\ done' = done
  BY <1>1 DEF Send, CallBegins
<1>3. Log(posts, done) /\ posts \in Seq(PostType) /\ Len(posts) + 1 \in Nat
  BY DEF Core, Log
<1>4. Len(posts') = Len(posts) + 1 /\ Len(posts) \in Nat
  BY <1>1, <1>3, AppendProperties
<1>5. f \in FrameType
  BY <1>3, FramesAreFrames
<1>6. f.dir = DIR_REQUEST
  BY DEF Command, Frame
<1>7. toMaster \in Seq(FrameType) /\ toUnit \in Seq(FrameType)
  BY DEF Core, Answers, Requests
<1>8. rest \in Seq(FrameType)
  BY <1>2, <1>7, Flushed
<1>9. /\ \A p \in 1 .. Len(toUnit) : <<toUnit[p].fc, toUnit[p].field_a>> \in late'
      /\ \A p \in 1 .. Len(rest) :
           rest[p].dir = DIR_RESPONSE => <<rest[p].fc, rest[p].field_a>> \in late'
  BY <1>2, <1>7, WhatIsLate
<1> HIDE DEF f, rest
<1>10. toUnit = <<>>
  <2>1. \A p \in 1 .. Len(toUnit) : FALSE
    BY <1>9
  <2>2. QED
    BY <1>7, <2>1
<1>11. toUnit' = <<f>>
  BY <1>2, <1>10
<1>12. toUnit' # <<>> /\ Tail(toUnit') = <<>>
  BY <1>11
<1>13. \A p \in 1 .. Len(rest) : rest[p] \in Echoes
  BY <1>8, <1>9 DEF Echoes
<1>14. rest \in Seq(Echoes)
  BY <1>8, <1>13, AllOfKind
<1>15. f \in Echoes
  BY <1>5, <1>6 DEF Echoes, DIR_REQUEST, DIR_RESPONSE
<1>16. toMaster' \in Seq(Echoes)
  BY <1>2, <1>14, <1>15, KindKept
<1>17. Pending'
  <2>1. \A k \in 1 .. Len(done) : done[k] \in 1 .. Len(posts)
    BY <1>3 DEF Log
  <2>2. \A k \in 1 .. Len(done) : done[k] # Len(posts')
    BY <1>4, <2>1
  <2>3. QED
    BY <1>2, <2>2 DEF Pending, Stored
<1>18. QED
  BY <1>2, <1>12, <1>16, <1>17

\* The call goes on, or it ends otherwise than with a refusal.
NoNackTold == \/ pc' = pc /\ result' = result
              \/ pc' = "idle" /\ result' # "Nack"

\* The frames from the unit go by one or more, of which none is told.
LEMMA RefusedFlushed ==
  ASSUME Core, RefusedInv, NEW n \in 0 .. Len(toMaster), toMaster' = flush_rx(toMaster, n),
         UNCHANGED <<toUnit, want, late, posts, done>>, NoNackTold
  PROVE  RefusedInv'
<1>1. toMaster \in Seq(Echoes) => toMaster' \in Seq(Echoes)
  BY KindKept
<1>2. toMaster \in Seq(NoRefusals) => toMaster' \in Seq(NoRefusals)
  BY KindKept
<1>3. QED
  BY <1>1, <1>2 DEF RefusedInv, Pending, NoNackTold

LEMMA RefusedTail ==
  ASSUME Core, RefusedInv, toMaster # <<>>, toMaster' = Tail(toMaster),
         UNCHANGED <<toUnit, want, late, posts, done>>, NoNackTold
  PROVE  RefusedInv'
<1>1. toMaster \in Seq(FrameType)
  BY DEF Core, Answers
<1>2. toMaster' = flush_rx(toMaster, 1) /\ 1 \in 0 .. Len(toMaster)
  BY <1>1, Taken
<1>3. QED
  BY <1>2, RefusedFlushed

\* A refusal that is told is that of the command.
LEMMA RefusedNack == Core /\ RefusedInv /\ TakeNack => RefusedInv'
<1> SUFFICES ASSUME Core, RefusedInv, TakeNack PROVE RefusedInv'
  OBVIOUS
<1>1. /\ pc = "wait" /\ toMaster # <<>> /\ is_exception(Head(toMaster))
      /\ pc' = "idle" /\ toUnit' = toUnit /\ want' = want /\ late' = late
      /\ posts' = posts /\ done' = done
  BY DEF TakeNack, AtFrame, Return, history
<1>2. ~ (toMaster \in Seq(NoRefusals))
  <2> SUFFICES ASSUME toMaster \in Seq(NoRefusals) PROVE FALSE
    OBVIOUS
  <2>1. Head(toMaster) \in NoRefusals
    BY <1>1, KindKept
  <2>2. QED
    BY <1>1, <2>1 DEF NoRefusals
<1>3. ~ (toMaster \in Seq(Echoes))
  BY <1>2, EchoesRefuseNothing
<1>4. want.fc = FC_CMD /\ late = {} => toUnit = <<>> /\ Pending
  BY <1>1, <1>2, <1>3 DEF RefusedInv
<1>5. Pending' = Pending
  BY <1>1 DEF Pending
<1>6. QED
  BY <1>1, <1>4, <1>5 DEF RefusedInv

\* The unit answers a request: it is the last, unless something was late.
LEMMA RefusedAnswered ==
  Core /\ RefusedInv /\ (UnitApplies \/ UnitReports \/ UnitRefuses) => RefusedInv'
<1> SUFFICES ASSUME Core, RefusedInv, UnitApplies \/ UnitReports \/ UnitRefuses,
                    want.fc = FC_CMD, late = {}
             PROVE  RefusedInv'
  BY DEF RefusedInv, UnitApplies, UnitReports, UnitRefuses, history
<1>1. /\ toUnit # <<>> /\ toUnit' = Tail(toUnit)
      /\ UNCHANGED <<pc, want, posts, late, result>>
  BY DEF UnitApplies, UnitReports, UnitRefuses, history
<1>2. PICK g \in FrameType : /\ toMaster' = Append(toMaster, g)
                             /\ is_exception(g) => UNCHANGED done
  BY UnitAnswers
<1>3. CASE pc = "wait"
  <2>1. Tail(toUnit) = <<>> /\ Pending /\ toMaster \in Seq(Echoes)
    BY <1>1, <1>3 DEF RefusedInv
  <2>2. toMaster \in Seq(NoRefusals)
    BY <2>1, EchoesRefuseNothing
  <2>3. CASE is_exception(g)
    <3>1. Pending'
      BY <1>1, <1>2, <2>1, <2>3 DEF Pending
    <3>2. QED
      BY <1>1, <1>3, <2>1, <3>1 DEF RefusedInv
  <2>4. CASE ~ is_exception(g)
    <3>1. g \in NoRefusals
      BY <2>4 DEF NoRefusals
    <3>2. toMaster' \in Seq(NoRefusals)
      BY <1>2, <2>2, <3>1, KindKept
    <3>3. QED
      BY <1>1, <1>3, <2>1, <3>2 DEF RefusedInv
  <2>5. QED
    BY <2>3, <2>4
<1>4. CASE pc # "wait"
  BY <1>1, <1>4 DEF RefusedInv
<1>5. QED
  BY <1>3, <1>4

LEMMA RefusedStep == Core /\ RefusedInv /\ [Next]_vars => RefusedInv'
<1> SUFFICES ASSUME Core, RefusedInv, [Next]_vars PROVE RefusedInv'
  OBVIOUS
<1>1. CASE Call
  <2>1. CASE QuietCall
    BY <2>1 DEF QuietCall, CallBegins, RefusedInv
  <2>2. CASE PollCall
    BY <2>2 DEF PollCall, RefusedInv, FC_READ, FC_CMD
  <2>3. QED
    BY <1>1, <2>1, <2>2, CallCases, RefusedWrite
<1>2. CASE TakeAck
  <2>1. /\ toMaster # <<>> /\ toMaster' = Tail(toMaster)
        /\ NoNackTold /\ UNCHANGED <<toUnit, want, late, posts, done>>
    BY <1>2 DEF TakeAck, AtFrame, Return, NoNackTold
  <2>2. QED
    BY <2>1, RefusedTail
<1>3. CASE TakeResponse
  <2>1. /\ toMaster # <<>> /\ toMaster' = Tail(toMaster)
        /\ NoNackTold /\ UNCHANGED <<toUnit, want, late, posts, done>>
    BY <1>3 DEF TakeResponse, AtFrame, Return, NoNackTold
  <2>2. QED
    BY <2>1, RefusedTail
<1>4. CASE SkipFrame
  <2>1. /\ toMaster # <<>> /\ toMaster' = Tail(toMaster)
        /\ NoNackTold /\ UNCHANGED <<toUnit, want, late, posts, done>>
    BY <1>4 DEF SkipFrame, AtFrame, history, NoNackTold
  <2>2. QED
    BY <2>1, RefusedTail
<1>5. CASE LoseAnswer
  <2>1. /\ toMaster # <<>> /\ toMaster' = Tail(toMaster)
        /\ NoNackTold /\ UNCHANGED <<toUnit, want, late, posts, done>>
    BY <1>5 DEF LoseAnswer, history, NoNackTold
  <2>2. QED
    BY <2>1, RefusedTail
<1>6. CASE GiveUp
  <2>1. pc' = "idle" /\ result' # "Nack"
    BY <1>6 DEF GiveUp, WriteFails, Return
  <2>2. QED
    BY <2>1 DEF RefusedInv
<1>7. CASE TakeNack
  BY <1>7, RefusedNack
<1>8. CASE UnitApplies \/ UnitReports \/ UnitRefuses
  BY <1>8, RefusedAnswered
<1>9. CASE LoseRequest
  <2>1. /\ toUnit # <<>> /\ toUnit' = Tail(toUnit)
        /\ UNCHANGED <<pc, want, posts, late, result, toMaster, done>>
    BY <1>9 DEF LoseRequest, history
  <2>2. QED
    BY <2>1, EchoesRefuseNothing DEF RefusedInv, Pending
<1>10. CASE UNCHANGED vars
  BY <1>10 DEF vars, history, RefusedInv, Pending
<1>11. QED
  BY <1>1, <1>2, <1>3, <1>4, <1>5, <1>6, <1>7, <1>8, <1>9, <1>10
  DEF Next, Step, Environment

\* An acknowledgement that is told is that of the command.
LEMMA AckIsOwn ==
  ASSUME Core, FreshInv, TakeAck, want.fc = FC_CMD, <<FC_CMD, want.a>> \notin late
  PROVE  Stored(done, Len(posts))
<1> DEFINE f == Head(toMaster)
<1>1. pc = "wait" /\ toMaster # <<>> /\ matches(f, want)
  BY DEF TakeAck, AtFrame
<1>2. Acks(f) /\ f.field_a = want.a
  BY <1>1 DEF matches, Acks
<1>3. toMaster \in Seq(OwnAcks(want.a, Len(posts)))
  BY <1>1 DEF FreshInv
<1>4. f \in OwnAcks(want.a, Len(posts))
  BY <1>1, <1>3, KindKept
<1>5. f.tag = Len(posts)
  BY <1>2, <1>4 DEF OwnAcks
<1>6. toMaster \in Seq(FrameType)
  BY DEF Core, Answers
<1>7. f = toMaster[1] /\ 1 \in 1 .. Len(toMaster)
  BY <1>1, <1>6, Taken
<1>8. IsAnswer(f, posts, done, seen)
  BY <1>7 DEF Core, Answers
<1>9. QED
  BY <1>2, <1>5, <1>8 DEF IsAnswer

\* The report that a poll returns shows what is sure, or later writes.
LEMMA ReportShowsSure ==
  ASSUME Core, TakeResponse, NEW i \in sure, posts[i].reg \in reg_range(task.win)
  PROVE  /\ posts[i].reg \in DOMAIN image'
         /\ \E j \in i .. Len(posts) : /\ posts[j].reg = posts[i].reg
                                       /\ image'[posts[i].reg] = posts[j].value
<1> DEFINE f == Head(toMaster)
           r == posts[i].reg
           n == f.tag
<1>1. /\ toMaster # <<>> /\ Reports(f)
      /\ n \in seen[task.win] .. Len(done) /\ task.win \in KNOWN_WINDOWS
      /\ image' = WithWindow(image, task.win, posts, done, n)
  BY ResponseTaken
<1>2. toMaster \in Seq(FrameType) /\ Log(posts, done) /\ Sure(sure, toMaster, posts, done)
  BY DEF Core, Answers
<1>3. f = toMaster[1] /\ 1 \in 1 .. Len(toMaster) /\ f \in FrameType
  BY <1>1, <1>2, Taken
<1>4. n \in Nat /\ Len(done) \in Nat /\ n <= Len(done)
  <2>1. n \in Nat
    BY <1>3 DEF FrameType
  <2>2. Len(done) \in Nat
    BY <1>2 DEF Log
  <2>3. seen[task.win] \in Nat
    BY <1>1 DEF Core, SeenInTime
  <2>4. QED
    BY <1>1, <2>1, <2>2, <2>3
<1>5. PICK k \in 1 .. Len(done) :
        done[k] = i /\ \A p \in 1 .. Len(toMaster) : Reports(toMaster[p]) => k <= toMaster[p].tag
  BY <1>2 DEF Sure
<1>6. k <= n
  BY <1>1, <1>3, <1>5
<1> HIDE DEF f, n
<1>7. k \in 1 .. n /\ posts[done[k]].reg = r
  BY <1>4, <1>5, <1>6
<1> HIDE DEF r
<1>8. ~ NoWrite(posts, done, n, r)
  BY <1>7 DEF NoWrite
<1>9. PICK l : LastWrite(posts, done, n, r, l)
               /\ Replay(posts, done, n, r) = posts[done[l]].value
  BY <1>4, <1>8, ReplayCases
<1>10. l \in 1 .. n /\ posts[done[l]].reg = r /\ k <= l
  BY <1>7, <1>9 DEF LastWrite
<1>11. l \in 1 .. Len(done) /\ (k < l \/ k = l)
  BY <1>4, <1>5, <1>10
<1>12. done[l] \in 1 .. Len(posts) /\ (k < l => done[k] < done[l])
  BY <1>2, <1>5, <1>11 DEF Log
<1>13. i \in Nat /\ Len(posts) \in Nat
  BY <1>2 DEF Sure, Log
<1>14. done[l] \in i .. Len(posts)
  BY <1>5, <1>11, <1>12, <1>13
<1>15. r \in DOMAIN image' /\ image'[r] = Replay(posts, done, n, r)
  BY <1>1 DEF WithWindow, r
<1>16. QED
  BY <1>9, <1>10, <1>14, <1>15 DEF r

LEMMA ReturnedStep == Core /\ FreshInv /\ ReturnedInv /\ [Next]_vars => ReturnedInv'
<1> SUFFICES ASSUME Core, FreshInv, ReturnedInv, [Next]_vars PROVE ReturnedInv'
  OBVIOUS
<1>1. CASE pc' = "wait"
  BY <1>1 DEF ReturnedInv, ReadYourWrites, PollEnded
<1>2. CASE result' \notin {"Ok"}
  BY <1>2 DEF ReturnedInv, ReadYourWrites, PollEnded
<1>3. ASSUME UNCHANGED <<image, pc, task, want, result, posts, sure, late>>,
             \A i : Stored(done, i) => Stored(done', i)
      PROVE  ReturnedInv'
  BY <1>3 DEF ReturnedInv, ReadYourWrites, PollEnded, Polling
<1>4. CASE Call
  <2>1. CASE QuietCall
    BY <1>2, <2>1 DEF QuietCall
  <2>2. CASE WriteCall \/ PollCall
    BY <1>1, <2>2 DEF WriteCall, PollCall, Send
  <2>3. QED
    BY <1>4, <2>1, <2>2, CallCases
<1>5. CASE TakeAck
  <2>1. /\ ~ Polling' /\ UNCHANGED <<want, late, posts, done>>
    BY <1>5 DEF TakeAck, Polling
  <2>2. want.fc = FC_CMD /\ <<FC_CMD, want.a>> \notin late => Stored(done, Len(posts))
    BY <1>5, AckIsOwn
  <2>3. QED
    BY <2>1, <2>2 DEF ReturnedInv, ReadYourWrites, PollEnded
<1>6. CASE TakeResponse
  <2>1. Polling /\ UNCHANGED <<task, want, posts, sure>>
    BY <1>6, ResponseTaken
  <2>2. want'.fc # FC_CMD
    BY <2>1 DEF Core, CallInv, FC_READ, FC_CMD
  <2>3. \A i \in sure : posts[i].reg \in reg_range(task.win) =>
          /\ posts[i].reg \in DOMAIN image'
          /\ \E j \in i .. Len(posts) : /\ posts[j].reg = posts[i].reg
                                        /\ image'[posts[i].reg] = posts[j].value
    BY <1>6, ReportShowsSure
  <2>4. ReadYourWrites'
    BY <2>1, <2>3 DEF ReadYourWrites
  <2>5. QED
    BY <2>2, <2>4 DEF ReturnedInv
<1>7. CASE TakeNack
  BY <1>2, <1>7 DEF TakeNack, Return
<1>8. CASE GiveUp
  BY <1>2, <1>8 DEF GiveUp, WriteFails, Return
<1>9. CASE SkipFrame
  BY <1>3, <1>9 DEF SkipFrame, AtFrame, history
<1>10. CASE UnitReports \/ UnitRefuses \/ LoseRequest \/ LoseAnswer
  BY <1>3, <1>10 DEF UnitReports, UnitRefuses, LoseRequest, LoseAnswer, history
<1>11. CASE UnitApplies
  <2> DEFINE f == Head(toUnit)
  <2>1. /\ done' = Append(done, f.tag) /\ f.tag \in Nat
        /\ UNCHANGED <<image, pc, task, want, result, posts, sure, late>>
    BY <1>11, Application
  <2> HIDE DEF f
  <2>2. done \in Seq(Nat)
    BY DEF Core, Log
  <2>3. Len(done') = Len(done) + 1 /\ \A k \in 1 .. Len(done) : done'[k] = done[k]
    BY <2>1, <2>2, AppendProperties
  <2>4. \A k \in 1 .. Len(done) : k \in 1 .. Len(done')
    BY <2>2, <2>3
  <2>5. \A i : Stored(done, i) => Stored(done', i)
    BY <2>3, <2>4 DEF Stored
  <2>6. QED
    BY <1>3, <2>1, <2>5
<1>12. CASE UNCHANGED vars
  BY <1>3, <1>12 DEF vars, history
<1>13. QED
  BY <1>4, <1>5, <1>6, <1>7, <1>8, <1>9, <1>10, <1>11, <1>12 DEF Next, Step, Environment
-----------------------------------------------------------------------------
(* The theorems *)

LEMMA SessionInit == Init => SessionInv
<1> SUFFICES ASSUME Init PROVE SessionInv
  OBVIOUS
<1>1. pc = "idle" /\ want.fc = 0 /\ result = "none"
  BY DEF Init, NoWant
<1>2. FreshInv /\ RefusedInv /\ ReturnedInv
  BY <1>1 DEF FreshInv, RefusedInv, ReturnedInv, ReadYourWrites, PollEnded, FC_CMD
<1>3. QED
  BY <1>2, CoreInit DEF SessionInv

LEMMA SessionHolds == Spec => []SessionInv
<1>1. SessionInv /\ [Next]_vars => SessionInv'
  BY CoreStep, FreshStep, RefusedStep, ReturnedStep DEF SessionInv
<1>2. QED
  BY SessionInit, <1>1, PTL DEF Spec

\* The last post is in the unit when it was applied: nothing comes behind it.
LEMMA LastPostStands ==
  ASSUME Core, Stored(done, Len(posts))
  PROVE  unit[posts[Len(posts)].reg] = posts[Len(posts)].value
<1> DEFINE r == posts[Len(posts)].reg
           n == Len(done)
<1>1. PICK k \in 1 .. n : done[k] = Len(posts)
  BY DEF Stored
<1>2. /\ Log(posts, done) /\ UnitIs(unit, posts, done) /\ posts \in Seq(PostType)
      /\ n \in Nat /\ Len(posts) \in Nat
  BY DEF Core, Log
<1>3. \A j \in 1 .. n : j <= k
  <2> SUFFICES ASSUME NEW j \in 1 .. n, k < j PROVE FALSE
    BY <1>2
  <2>1. done[k] < done[j] /\ done[j] \in 1 .. Len(posts)
    BY <1>2 DEF Log
  <2>2. QED
    BY <1>1, <1>2, <2>1
<1>4. Len(posts) \in 1 .. Len(posts)
  BY <1>1, <1>2 DEF Log
<1>5. posts[Len(posts)] \in PostType
  BY <1>2, <1>4
<1>6. r \in DOMAIN FirstUnit
  BY <1>5 DEF PostType
<1>7. LastWrite(posts, done, n, r, k)
  BY <1>1, <1>3 DEF LastWrite
<1> HIDE DEF r, n
<1>8. Replay(posts, done, n, r) = posts[done[k]].value
  BY <1>2, <1>7, ReplayLast
<1>9. unit[r] = Replay(posts, done, n, r)
  BY <1>2, <1>6 DEF UnitIs, n
<1>10. QED
  BY <1>1, <1>8, <1>9 DEF r

\* What write_byte returns of a write (set_setpoint, set_working_mode,
\* write_register, macon_master.cpp): Ok, and the value is in the register of
\* the unit, unless a frame for its address was under way when it was sent;
\* Nack, and the unit has not applied it, unless anything was under way.
THEOREM OkAndNackAreSo == Spec => []AnswerTellsTheUnit
<1>1. SessionInv => AnswerTellsTheUnit
  <2> SUFFICES ASSUME SessionInv, WriteEnded PROVE AnswerTellsTheUnit
    BY DEF AnswerTellsTheUnit
  <2>1. \A i : Applied(i) <=> Stored(done, i)
    BY DEF Applied, Stored
  <2>2. result = "Ok" /\ <<FC_CMD, want.a>> \notin late => Stored(done, Len(posts))
    BY DEF SessionInv, ReturnedInv, WriteEnded
  <2>3. Stored(done, Len(posts)) => unit[posts[Len(posts)].reg] = posts[Len(posts)].value
    BY LastPostStands DEF SessionInv
  <2>4. result = "Nack" /\ late = {} => ~ Stored(done, Len(posts))
    BY DEF SessionInv, RefusedInv, WriteEnded, Pending
  <2>5. QED
    BY <2>1, <2>2, <2>3, <2>4 DEF AnswerTellsTheUnit
<1>2. QED
  BY SessionHolds, <1>1, PTL

\* What a poll shows (poll_window, macon_master.cpp) is never older than a
\* write that was acknowledged before it.
THEOREM PollsShowAckedWrites == Spec => []ReadYourWrites
<1>1. SessionInv => ReadYourWrites
  BY DEF SessionInv, ReturnedInv
<1>2. QED
  BY SessionHolds, <1>1, PTL
-----------------------------------------------------------------------------
(* The session implements the service of registers *)

LEMMA ServiceInit == Init => Service!Init
<1> SUFFICES ASSUME Init PROVE Service!Init
  OBVIOUS
<1>1. /\ posts = <<>> /\ done = <<>> /\ unit = with_baseline(UnitStart)
      /\ image = [r \in {} |-> 0] /\ seen = [w \in KNOWN_WINDOWS |-> 0]
  BY DEF Init, EmptyImage
<1>2. DOMAIN [w \in KNOWN_WINDOWS |-> reg_range(w)] = KNOWN_WINDOWS
  OBVIOUS
<1>3. QED
  BY <1>1, <1>2 DEF Service!Init

LEMMA WriteIsPost == Core /\ WriteCall => Service!Post
<1> SUFFICES ASSUME Core, WriteCall PROVE Service!Post
  OBVIOUS
<1>1. PICK x \in PostType : posts' = Append(posts, x)
  BY DEF WriteCall
<1>2. UNCHANGED <<done, unit, image, seen>>
  BY DEF WriteCall, CallBegins
<1>3. posts \in Seq(PostType) /\ Len(posts) \in Nat
  BY DEF Core, Log
<1>4. /\ Len(posts') = Len(posts) + 1 /\ posts' \in Seq(PostType)
      /\ \A i \in 1 .. Len(posts) : posts'[i] = posts[i]
      /\ posts'[Len(posts) + 1] = x
  BY <1>1, <1>3, AppendProperties
<1>5. SubSeq(posts', 1, Len(posts)) = posts
  <2>1. Len(SubSeq(posts', 1, Len(posts))) = Len(posts)
    BY <1>3, <1>4
  <2>2. \A i \in 1 .. Len(posts) : SubSeq(posts', 1, Len(posts))[i] = posts[i]
    BY <1>3, <1>4
  <2>3. SubSeq(posts', 1, Len(posts)) \in Seq(PostType)
    BY <1>3, <1>4
  <2>4. QED
    BY <1>3, <2>1, <2>2, <2>3, SeqEqual
<1>6. posts'[Len(posts')] \in [reg : DOMAIN with_baseline(UnitStart), value : Service!Byte]
  BY <1>4 DEF PostType, FirstUnit, Service!Byte, Byte
<1>7. QED
  BY <1>2, <1>4, <1>5, <1>6 DEF Service!Post

LEMMA ApplicationIsApply == Core /\ UnitApplies => Service!Apply
<1> SUFFICES ASSUME Core, UnitApplies PROVE Service!Apply
  OBVIOUS
<1> DEFINE i == Head(toUnit).tag
<1>1. /\ i \in 1 .. Len(posts) /\ Newer(done, i) /\ done' = Append(done, i)
      /\ unit' = [unit EXCEPT ![posts[i].reg] = posts[i].value]
      /\ UNCHANGED <<posts, image, seen>>
  BY Application
<1> HIDE DEF i
<1>2. \A k \in 1 .. Len(done) : done[k] < i
  BY <1>1 DEF Newer
<1>3. QED
  BY <1>1, <1>2 DEF Service!Apply

LEMMA ResponseIsShow ==
  Core /\ TakeResponse => Service!Show \/ UNCHANGED <<posts, done, unit, image, seen>>
<1> SUFFICES ASSUME Core, TakeResponse
             PROVE  Service!Show \/ UNCHANGED <<posts, done, unit, image, seen>>
  OBVIOUS
<1> DEFINE w == task.win
           n == Head(toMaster).tag
           Block == [v \in KNOWN_WINDOWS |-> reg_range(v)]
<1>1. /\ w \in KNOWN_WINDOWS /\ n \in seen[w] .. Len(done)
      /\ posts' = posts /\ done' = done /\ unit' = unit
      /\ \/ UNCHANGED <<image, seen>>
         \/ /\ seen' = [seen EXCEPT ![w] = n]
            /\ image' = WithWindow(image, w, posts, done, n)
  BY ResponseTaken
<1>2. w \in DOMAIN Block /\ Block[w] = reg_range(w)
  BY <1>1
<1> HIDE DEF w, n, Block
<1>3. CASE UNCHANGED <<image, seen>>
  BY <1>1, <1>3
<1>4. CASE /\ seen' = [seen EXCEPT ![w] = n]
           /\ image' = WithWindow(image, w, posts, done, n)
  <2>1. image' = [r \in DOMAIN image \cup Block[w] |->
                    IF r \in Block[w] THEN Service!After(n, r) ELSE image[r]]
    BY <1>2, <1>4, ReplayIsAfter DEF WithWindow
  <2>2. Service!Show
    BY <1>1, <1>2, <1>4, <2>1 DEF Service!Show, Block
  <2>3. QED
    BY <2>2
<1>5. QED
  BY <1>1, <1>3, <1>4

\* Calls that post, applications and answered polls are the steps of the
\* service (module RegisterService); all other steps leave what it shows:
\* whatever is lost or late, the unit applies the writes in the order of the
\* calls and at most once, and the controller's image never goes back in time.
THEOREM SessionImplementsService == Spec => ImplementsService
<1>1. Init => Service!Init
  BY ServiceInit
<1>2. SessionInv /\ [Next]_vars => [Service!Next]_<<posts, done, unit, image, seen>>
  <2> SUFFICES ASSUME SessionInv, [Next]_vars
               PROVE  Service!Next \/ UNCHANGED <<posts, done, unit, image, seen>>
    OBVIOUS
  <2>1. Core
    BY DEF SessionInv
  <2>2. CASE Call
    <3>1. CASE QuietCall
      BY <3>1 DEF QuietCall, CallBegins
    <3>2. CASE WriteCall
      BY <2>1, <3>2, WriteIsPost DEF Service!Next
    <3>3. CASE PollCall
      BY <3>3 DEF PollCall, CallBegins
    <3>4. QED
      BY <2>1, <2>2, <3>1, <3>2, <3>3, CallCases
  <2>3. CASE TakeAck \/ TakeNack \/ SkipFrame \/ GiveUp
    BY <2>3 DEF TakeAck, TakeNack, SkipFrame, GiveUp, WriteFails, history
  <2>4. CASE TakeResponse
    BY <2>1, <2>4, ResponseIsShow DEF Service!Next
  <2>5. CASE UnitApplies
    BY <2>1, <2>5, ApplicationIsApply DEF Service!Next
  <2>6. CASE UnitReports \/ UnitRefuses \/ LoseRequest \/ LoseAnswer
    BY <2>6 DEF UnitReports, UnitRefuses, LoseRequest, LoseAnswer, history
  <2>7. CASE UNCHANGED vars
    BY <2>7 DEF vars, history
  <2>8. QED
    BY <2>2, <2>3, <2>4, <2>5, <2>6, <2>7 DEF Next, Step, Environment
<1>3. QED
  BY SessionHolds, <1>1, <1>2, PTL DEF Spec, ImplementsService, Service!Spec
-----------------------------------------------------------------------------
(* Plans *)

LEMMA Powers == 2^7 = 128 /\ 2^8 = 256 /\ 2^15 = 32768 /\ 2^16 = 65536
OBVIOUS

LEMMA Words == \A v : v \in int16 <=> v \in Int /\ v + 32768 >= 0 /\ v <= 32767
<1>1. \A v \in int16 : v \in Int /\ v + 32768 >= 0 /\ v <= 32767
  BY DEF int16
<1>2. \A v \in Int : v + 32768 >= 0 /\ v <= 32767 => v \in int16
  BY DEF int16
<1>3. QED
  BY <1>1, <1>2

\* What two's complement keeps.
LEMMA SignedBits ==
  /\ \A v \in -128 .. 127 : v % 256 \in Byte /\ signed_bits(v % 256, 8) = v
  /\ \A v \in int16 : signed_bits(v, 16) = v
<1>1. ASSUME NEW v \in -128 .. 127
      PROVE  v % 256 \in Byte /\ signed_bits(v % 256, 8) = v
  <2>1. v % 256 = IF v < 0 THEN v + 256 ELSE v
    OBVIOUS
  <2>2. (v % 256) % 256 = v % 256
    OBVIOUS
  <2>3. signed_bits(v % 256, 8) = IF v % 256 < 128 THEN v % 256 ELSE (v % 256) - 256
    BY <2>2, Powers DEF signed_bits
  <2>4. QED
    BY <2>1, <2>3 DEF Byte
<1>2. ASSUME NEW v \in int16
      PROVE  signed_bits(v, 16) = v
  <2>1. v \in Int /\ v + 32768 >= 0 /\ v <= 32767
    BY Words
  <2>2. v % 65536 = IF v < 0 THEN v + 65536 ELSE v
    BY <2>1
  <2>3. signed_bits(v, 16) = IF v % 65536 < 32768 THEN v % 65536 ELSE (v % 65536) - 65536
    BY Powers DEF signed_bits
  <2>4. QED
    BY <2>1, <2>2, <2>3
<1>3. QED
  BY <1>1, <1>2

\* A row of the table.
LEMMA ParamType ==
  ASSUME NEW ap \in DOMAIN s_advanced
  PROVE  LET p == s_advanced[ap]
         IN  /\ p.min_val \in int16 /\ p.max_val \in int16 /\ p.display_multiplier \in Int
             /\ p.enum_vals \subseteq int16 /\ p.is_signed \in BOOLEAN
             /\ p.enum_opts \in Seq(0 .. 255)
<1> DEFINE p == s_advanced[ap]
<1>1. p \in AdvancedParam
  BY ParamsAssumption, Zenon
<1>2. /\ p.min_val \in int16 /\ p.max_val \in int16 /\ p.display_multiplier \in int16
      /\ p.enum_vals \in SUBSET (0 .. 255) /\ p.is_signed \in BOOLEAN
      /\ p.enum_opts \in Seq(0 .. 255)
  BY <1>1, Zenon DEF AdvancedParam
<1>3. 0 .. 255 \subseteq int16 /\ int16 \subseteq Int
  BY Words
<1> HIDE DEF p
<1>4. p.enum_vals \subseteq int16 /\ p.display_multiplier \in Int
  BY <1>2, <1>3
<1>5. QED
  BY <1>2, <1>4 DEF p

\* What the guardrail lets through reads back from the wire, and only there.
IsExact(ap, value, plan) ==
  /\ plan.raw \in Byte
  /\ windows_of(plan.reg) # {}
  /\ advanced_params_at(plan.reg) = {ap}
  /\ advanced_decode_raw(ap, plan.raw) = value
  /\ ap \in Writable /\ plan.reg = s_advanced[ap].reg
  /\ value \in int16 /\ value_allowed(s_advanced[ap], value)

LEMMA Validated ==
  ASSUME NEW ap, NEW value \in Int, validate_advanced_write(ap, value) = "OK"
  PROVE  /\ ap \in Writable
         /\ value \in int16 /\ value_allowed(s_advanced[ap], value)
<1> DEFINE p == s_advanced[ap]
<1>1. /\ ap \in DOMAIN s_advanced /\ value_allowed(p, value)
      /\ p.reg # ADV_REG_UNKNOWN /\ ~ p.read_only /\ ~ p.needs_sim_confirm
  BY DEF validate_advanced_write, advanced_param_lookup
<1>2. ap \in Writable
  BY <1>1 DEF Writable
<1>3. value \in int16
  <2>1. p.min_val \in int16 /\ p.max_val \in int16 /\ p.enum_vals \subseteq int16
    BY <1>1, ParamType
  <2>2. \/ value \in p.min_val .. p.max_val
        \/ value \in p.enum_vals
    BY <1>1 DEF value_allowed
  <2> HIDE DEF p
  <2>3. ASSUME value \in p.min_val .. p.max_val PROVE value \in int16
    BY <2>1, <2>3, Words
  <2>4. QED
    BY <2>1, <2>2, <2>3
<1>4. QED
  BY <1>1, <1>2, <1>3

LEMMA WriteExact ==
  ASSUME NEW ap, NEW value \in Int, NEW plan, plan = advanced_prepare_write(ap, value),
         plan.result = "OK"
  PROVE  IsExact(ap, value, plan)
<1> DEFINE p == s_advanced[ap]
<1>1. validate_advanced_write(ap, value) = "OK"
  BY DEF advanced_prepare_write, Refused
<1>2. ap \in Writable /\ value \in int16 /\ value_allowed(p, value)
  BY <1>1, Validated
<1>3. plan = [result |-> "OK", reg |-> p.reg, raw |-> raw_of(p, value)]
  BY <1>1 DEF advanced_prepare_write, advanced_param_lookup
<1>4. plan.reg = p.reg /\ plan.raw = raw_of(p, value)
  BY <1>3
<1>5. ap \in DOMAIN s_advanced /\ p.reg # ADV_REG_UNKNOWN
  BY <1>2 DEF Writable
<1>6. /\ value \in IF p.is_signed THEN -128 .. 127 ELSE 0 .. 255
      /\ \A q \in DOMAIN s_advanced : s_advanced[q].reg = p.reg => q = ap
  BY <1>2, OneByteAssumption
<1>7. windows_of(plan.reg) # {}
  BY <1>2, <1>4, PlansAssumption
<1>8. advanced_params_at(plan.reg) = {ap}
  BY <1>4, <1>5, <1>6 DEF advanced_params_at
<1>9. plan.raw \in Byte /\ advanced_decode_raw(ap, plan.raw) = value
  <2>1. CASE p.is_signed
    <3>1. plan.raw = value % 256 /\ value \in -128 .. 127
      BY <1>4, <1>6, <2>1, Powers DEF raw_of
    <3>2. advanced_decode_raw(ap, plan.raw) = signed_bits(plan.raw, 8)
      BY <1>5, <2>1 DEF advanced_decode_raw, advanced_param_lookup
    <3>3. QED
      BY <3>1, <3>2, SignedBits
  <2>2. CASE ~ p.is_signed
    <3>1. value \in 0 .. 255
      BY <1>6, <2>2
    <3>2. plan.raw = value % 65536
      BY <1>4, <2>2, Powers DEF raw_of
    <3>3. plan.raw = value
      BY <3>1, <3>2
    <3>4. advanced_decode_raw(ap, plan.raw) = signed_bits(plan.raw, 16)
      BY <2>2 DEF advanced_decode_raw, advanced_param_lookup
    <3>5. QED
      BY <1>2, <3>1, <3>3, <3>4, SignedBits DEF Byte
  <2>3. QED
    BY <2>1, <2>2
<1> HIDE DEF p
<1>10. plan.reg = s_advanced[ap].reg
  BY <1>4 DEF p
<1>11. QED
  BY <1>2, <1>7, <1>8, <1>9, <1>10 DEF IsExact, p

\* A multiple of the step is that many steps.
LEMMA WholeSteps ==
  ASSUME NEW v \in Int, NEW step \in Nat \ {0}, v % step = 0
  PROVE  v \div step \in Int /\ (v \div step) * step = v
OBVIOUS

LEMMA StepType == \A ap : advanced_display_step(ap) \in Nat \ {0}
<1> TAKE ap
<1>1. ap \in DOMAIN s_advanced => s_advanced[ap].display_multiplier \in Int
  BY ParamType
<1>2. QED
  BY <1>1 DEF advanced_display_step, multiplier_of, advanced_param_lookup

\* The value of a user.
LEMMA DisplayExact ==
  ASSUME NEW ap, NEW v \in int16, NEW plan,
         plan = advanced_prepare_display_write(ap, v), plan.result = "OK"
  PROVE  /\ IsExact(ap, v \div advanced_display_step(ap), plan)
         /\ advanced_display_value(ap, advanced_decode_raw(ap, plan.raw)) = v
<1> DEFINE step == advanced_display_step(ap)
<1>1. v \in Int /\ step \in Nat \ {0}
  BY StepType, Words
<1>2. v % step = 0 /\ plan = advanced_prepare_write(ap, v \div step)
  BY DEF advanced_prepare_display_write, Refused
<1> HIDE DEF step
<1>3. v \div step \in Int /\ (v \div step) * step = v
  BY <1>1, <1>2, WholeSteps
<1>4. IsExact(ap, v \div step, plan)
  BY <1>2, <1>3, WriteExact
<1>5. advanced_decode_raw(ap, plan.raw) = v \div step
  BY <1>4 DEF IsExact
<1>6. advanced_display_value(ap, v \div step) = signed_bits(v, 16)
  BY <1>3 DEF advanced_display_value, step
<1>7. QED
  BY <1>4, <1>5, <1>6, SignedBits DEF step

LEMMA EveryDisplayExact ==
  ASSUME NEW ap, NEW v \in int16
  PROVE  PlanIsExact(ap, v)
<1> DEFINE plan == advanced_prepare_display_write(ap, v)
<1>0. plan = advanced_prepare_display_write(ap, v)
  OBVIOUS
<1> HIDE DEF plan
<1>1. ASSUME plan.result = "OK"
      PROVE  /\ IsExact(ap, v \div advanced_display_step(ap), plan)
             /\ advanced_display_value(ap, advanced_decode_raw(ap, plan.raw)) = v
  BY <1>0, <1>1, DisplayExact
<1>2. QED
  BY <1>1, Zenon DEF PlanIsExact, IsExact, plan

\* An option of the list.
LEMMA EveryOptionExact ==
  ASSUME NEW ap, NEW i \in Nat
  PROVE  OptionIsExact(ap, i)
<1> DEFINE plan == advanced_prepare_write_option(ap, i)
           opts == s_advanced[ap].enum_opts
<1> SUFFICES ASSUME plan.result = "OK"
             PROVE  advanced_enum_option_index_for_wire(ap, advanced_decode_raw(ap, plan.raw)) = i
  BY DEF OptionIsExact
<1>1. /\ ap \in DOMAIN s_advanced /\ i \in 0 .. Len(opts) - 1
      /\ plan = advanced_prepare_write(ap, opts[i + 1])
  BY DEF advanced_prepare_write_option, Refused, advanced_param_lookup
<1>2. opts \in Seq(0 .. 255)
  BY <1>1, ParamType
<1>3. i + 1 \in DOMAIN opts
  BY <1>1, <1>2
<1>4. opts[i + 1] \in Int
  <2>1. i + 1 \in 1 .. Len(opts)
    BY <1>1, <1>2
  <2> HIDE DEF opts
  <2>2. opts[i + 1] \in 0 .. 255
    BY <1>2, <2>1, ElementOfSeq
  <2>3. QED
    BY <2>2
<1>5. IsExact(ap, opts[i + 1], plan)
  <2> DEFINE value == opts[i + 1]
  <2>1. plan = advanced_prepare_write(ap, value) /\ value \in Int /\ plan.result = "OK"
    BY <1>1, <1>4
  <2> HIDE DEF plan, value
  <2>2. IsExact(ap, value, plan)
    BY <2>1, WriteExact
  <2>3. QED
    BY <2>2 DEF value
<1>6. advanced_decode_raw(ap, plan.raw) = opts[i + 1]
  BY <1>5 DEF IsExact
<1>7. \A j \in DOMAIN opts : opts[j] = opts[i + 1] => j = i + 1
  BY <1>1, <1>3, ParamsAssumption
<1> HIDE DEF plan
<1>8. {j \in DOMAIN opts : opts[j] = opts[i + 1]} = {i + 1}
  BY <1>3, <1>7
<1>9. advanced_enum_option_index_for_wire(ap, opts[i + 1]) = (i + 1) - 1
  BY <1>1, <1>8 DEF advanced_enum_option_index_for_wire, advanced_param_lookup
<1>10. QED
  BY <1>6, <1>9

\* A clamped setpoint, with a ceiling that fits its byte.
LEMMA EverySetpointFits ==
  ASSUME NEW ceiling \in Byte, ceiling <= 127, NEW kind \in DOMAIN DefaultLimits,
         NEW c \in Int
  PROVE  SetpointFits(kind, c, ceiling)
<1> DEFINE known == [readings |-> [HotWaterCeiling |-> ceiling]]
           lim   == setpoint_limits(kind, known)
           d     == clamp_setpoint(kind, c, known)
<1>1. kind \in {"Cooling", "Heating", "HotWater"}
  BY DEF DefaultLimits
<1>2. known.readings["HotWaterCeiling"] = ceiling
  OBVIOUS
<1>3. /\ lim.min_c \in 4 .. 30 /\ lim.max_c \in 30 .. 127
  BY <1>1, <1>2 DEF setpoint_limits, DefaultLimits, kHotWaterMin, Byte
<1>4. \A x \in Int : clamp_setpoint(kind, x, known) =
        IF x < lim.min_c THEN lim.min_c ELSE IF x > lim.max_c THEN lim.max_c ELSE x
  BY DEF clamp_setpoint
<1> HIDE DEF lim, known
<1>5. d \in lim.min_c .. lim.max_c
  <2>1. d = IF c < lim.min_c THEN lim.min_c ELSE IF c > lim.max_c THEN lim.max_c ELSE c
    BY <1>4
  <2>2. lim.min_c \in Int /\ lim.max_c \in Int /\ lim.min_c <= lim.max_c
    BY <1>3
  <2> HIDE DEF d
  <2>3. QED
    BY <2>1, <2>2
<1> HIDE DEF d
<1>6. d \in Int /\ d \in 0 .. 127
  BY <1>3, <1>5
<1>7. clamp_setpoint(kind, d, known) = d
  BY <1>3, <1>4, <1>5, <1>6
<1>8. int8_of(setpoint_byte(d)) = d
  BY <1>6, SetpointByte
<1>9. QED
  BY <1>7, <1>8 DEF SetpointFits, known, d

LEMMA PlansExact == EveryPlanIsExact
<1>0. \A v \in -60 .. 1000 : v \in int16
  <2> TAKE v \in -60 .. 1000
  <2>1. v \in Int /\ v + 32768 >= 0 /\ v <= 32767
    OBVIOUS
  <2>2. QED
    BY <2>1, Words
<1>1. (\A i \in 0 .. 8 : i \in Nat) /\ (\A c \in -130 .. 130 : c \in Int)
  OBVIOUS
<1>2. \A ap \in DOMAIN s_advanced : \A v \in -60 .. 1000 : PlanIsExact(ap, v)
  BY <1>0, EveryDisplayExact
<1>3. \A ap \in DOMAIN s_advanced : \A i \in 0 .. 8 : OptionIsExact(ap, i)
  BY <1>1, EveryOptionExact
<1>4. \A ap \in CeilingParams : \A ceiling \in Byte :
        validate_advanced_write(ap, ceiling) = "OK" =>
          \A kind \in DOMAIN DefaultLimits, c \in -130 .. 130 : SetpointFits(kind, c, ceiling)
  <2> SUFFICES ASSUME NEW ap \in CeilingParams, NEW ceiling \in Byte,
                      validate_advanced_write(ap, ceiling) = "OK",
                      NEW kind \in DOMAIN DefaultLimits, NEW c \in -130 .. 130
               PROVE  SetpointFits(kind, c, ceiling)
    OBVIOUS
  <2>1. s_advanced[ap].reg = FieldMap["HotWaterCeiling"].reg
    BY DEF CeilingParams, advanced_params_at
  <2>2. ceiling \in Int
    BY DEF Byte
  <2>3. ap \in Writable /\ value_allowed(s_advanced[ap], ceiling)
    BY <2>2, Validated
  <2>4. ceiling <= 127
    BY <2>1, <2>3, PlansAssumption
  <2>5. QED
    BY <1>1, <2>4, EverySetpointFits
<1>5. QED
  BY <1>2, <1>3, <1>4 DEF EveryPlanIsExact
-----------------------------------------------------------------------------
(* What a call posts is its plan *)

\* A byte of a command reads back as what the call was for.
ReadsBack(what, byte) ==
  CASE what.op = "write_param" ->
         advanced_display_value(what.ap, advanced_decode_raw(what.ap, byte)) = what.value
    [] what.op = "set_setpoint" ->
         reading(FieldMap[SetpointField[what.kind]].read, byte) = what.celsius
    [] OTHER -> TRUE

PlanInv ==
  want.fc = FC_CMD /\ (pc = "wait" \/ result = "Ok") =>
    ReadsBack(task, posts[Len(posts)].value)

\* Nothing is posted, or what is posted last reads back.
PlanPosted ==
  \/ pc' = "idle" /\ result' # "Ok"
  \/ want'.fc # FC_CMD
  \/ ReadsBack(task', posts'[Len(posts')].value)

LEMMA CallPlanned ==
  ASSUME Core, Call
  PROVE  PlanPosted
<1>0. ImageOfBytes /\ posts \in Seq(PostType)
  BY DEF Core, Log
<1>r. ASSUME NEW what, Refuse(what)
      PROVE  PlanPosted
  <2>1. want' = NoWant
    BY <1>r DEF Refuse, Begin
  <2>2. QED
    BY <2>1 DEF NoWant, FC_CMD, PlanPosted
<1>w. ASSUME Ready, NEW what, NEW addr, NEW byte, NEW reg, NEW value,
             ReadsBack(what, value % 256),
             write_byte(what, addr, byte, reg, value)
      PROVE  PlanPosted
  <2> DEFINE x == [reg |-> reg, value |-> value % 256]
  <2>1. PICK n \in 0 .. Len(toMaster) :
          /\ Begin(what, [fc |-> FC_CMD, a |-> addr, b |-> 1], n)
          /\ \/ NotSent("WriteFailed", n)
             \/ posts' = Append(posts, x)
    BY <1>w DEF write_byte
  <2>2. CASE NotSent("WriteFailed", n)
    BY <1>w, <2>2 DEF Ready, NotSent, PlanPosted
  <2>3. CASE posts' = Append(posts, x)
    <3>1. Len(posts') = Len(posts) + 1 /\ posts'[Len(posts) + 1] = x
      <4> HIDE DEF x
      <4>1. QED
        BY <1>0, <2>3
    <3>2. posts'[Len(posts')].value = value % 256
      BY <3>1
    <3>3. task' = what
      BY <2>1 DEF Begin
    <3>4. QED
      BY <1>w, <3>2, <3>3 DEF PlanPosted
  <2>4. QED
    BY <2>1, <2>2, <2>3
<1>g. ASSUME Ready, NEW what, NEW reg, NEW value, ReadsBack(what, value % 256),
             write_register(what, reg, value)
      PROVE  PlanPosted
  <2>1. Refuse(what) \/ \E addr : write_byte(what, addr, value, reg, value)
    BY <1>g DEF write_register
  <2>2. QED
    BY <1>g, <1>r, <1>w, <2>1
<1>1. CASE SetSetpoint
  <2>1. PICK c \in SetpointCalls :
          LET kind    == c[1]
              celsius == clamp_setpoint(kind, c[2], decode_state(image))
          IN  write_byte([op |-> "set_setpoint", kind |-> kind, celsius |-> celsius],
                         SetpointAddr[kind], setpoint_byte(celsius),
                         FieldMap[SetpointField[kind]].reg, celsius)
    BY <1>1 DEF SetSetpoint
  <2> DEFINE kind    == c[1]
             celsius == clamp_setpoint(kind, c[2], decode_state(image))
             what    == [op |-> "set_setpoint", kind |-> kind, celsius |-> celsius]
  <2>2. celsius \in 0 .. 127
    BY <1>0, ClampedSetpoint
  <2>3. kind \in DOMAIN SetpointAddr
    BY SessionAssumption DEF DefaultLimits, SetpointAddr
  <2>4. FieldMap[SetpointField[kind]].read = "Signed"
    BY <2>3, WireAssumption
  <2>5. what.op = "set_setpoint" /\ what.kind = kind /\ what.celsius = celsius
    OBVIOUS
  <2>6. write_byte(what, SetpointAddr[kind], setpoint_byte(celsius),
                   FieldMap[SetpointField[kind]].reg, celsius)
    BY <2>1
  <2> HIDE DEF celsius, what, kind
  <2>7. celsius % 256 = celsius /\ celsius < 128
    BY <2>2
  <2>8. reading(FieldMap[SetpointField[kind]].read, celsius % 256) = celsius
    BY <2>4, <2>7 DEF reading, s8
  <2>9. ReadsBack(what, celsius % 256)
    BY <2>5, <2>8 DEF ReadsBack
  <2>10. Ready
    BY <1>1 DEF SetSetpoint
  <2>11. QED
    BY <1>w, <2>6, <2>9, <2>10
<1>2. CASE SetWorkingMode
  <2>1. PICK mode \in ModeCalls :
          LET what == [op |-> "set_working_mode", mode |-> mode]
          IN  \/ write_byte(what, MODE_ADDR, mode, REG_WORKING_MODE, mode)
              \/ Refuse(what)
    BY <1>2 DEF SetWorkingMode
  <2> DEFINE what == [op |-> "set_working_mode", mode |-> mode]
  <2>2. ReadsBack(what, mode % 256)
    BY DEF ReadsBack
  <2>3. write_byte(what, MODE_ADDR, mode, REG_WORKING_MODE, mode) \/ Refuse(what)
    BY <2>1
  <2>4. Ready
    BY <1>2 DEF SetWorkingMode
  <2> HIDE DEF what
  <2>5. QED
    BY <1>r, <1>w, <2>2, <2>3, <2>4
<1>3. CASE WriteRegister
  <2>1. PICK c \in RegisterCalls :
          write_register([op |-> "write_register", reg |-> c[1], value |-> c[2]], c[1], c[2])
    BY <1>3 DEF WriteRegister
  <2> DEFINE what == [op |-> "write_register", reg |-> c[1], value |-> c[2]]
  <2>2. ReadsBack(what, c[2] % 256)
    BY DEF ReadsBack
  <2>3. Ready /\ write_register(what, c[1], c[2])
    BY <1>3, <2>1 DEF WriteRegister
  <2> HIDE DEF what
  <2>4. QED
    BY <1>g, <2>2, <2>3
<1>4. CASE WriteParam
  <2>1. PICK c \in ParamCalls :
          LET plan == advanced_prepare_display_write(c[1], c[2])
          IN  /\ plan.result = "OK"
              /\ write_register([op |-> "write_param", ap |-> c[1], value |-> c[2]],
                                plan.reg, plan.raw % 256)
    BY <1>4 DEF WriteParam
  <2> DEFINE plan == advanced_prepare_display_write(c[1], c[2])
             what == [op |-> "write_param", ap |-> c[1], value |-> c[2]]
  <2>2. plan.result = "OK" /\ write_register(what, plan.reg, plan.raw % 256)
    BY <2>1
  <2>3. what.op = "write_param" /\ what.ap = c[1] /\ what.value = c[2]
    OBVIOUS
  <2>4. c[2] \in int16 /\ plan = advanced_prepare_display_write(c[1], c[2])
    BY SessionAssumption
  <2> HIDE DEF plan, what
  <2>5. /\ IsExact(c[1], c[2] \div advanced_display_step(c[1]), plan)
        /\ advanced_display_value(c[1], advanced_decode_raw(c[1], plan.raw)) = c[2]
    BY <2>2, <2>4, DisplayExact
  <2>6. plan.raw % 256 = plan.raw /\ (plan.raw % 256) % 256 = plan.raw
    BY <2>5, ByteOfByte DEF IsExact
  <2>7. ReadsBack(what, (plan.raw % 256) % 256)
    BY <2>3, <2>5, <2>6 DEF ReadsBack
  <2>8. Ready
    BY <1>4 DEF WriteParam
  <2>9. QED
    BY <1>g, <2>2, <2>7, <2>8
<1>5. CASE PollWindow
  <2>1. want'.fc = FC_READ
    BY <1>5 DEF PollWindow, Begin
  <2>2. QED
    BY <2>1 DEF FC_READ, FC_CMD, PlanPosted
<1>6. QED
  BY <1>1, <1>2, <1>3, <1>4, <1>5 DEF Call

LEMMA PlanStep == Core /\ PlanInv /\ [Next]_vars => PlanInv'
<1> SUFFICES ASSUME Core, PlanInv, [Next]_vars PROVE PlanInv'
  OBVIOUS
<1>1. CASE Call
  <2>1. PlanPosted
    BY <1>1, CallPlanned
  <2>2. QED
    BY <2>1 DEF PlanPosted, PlanInv
<1>2. CASE Step
  <2>1. pc = "wait" /\ UNCHANGED <<task, want, posts>>
    BY <1>2 DEF Step, TakeAck, TakeNack, TakeResponse, SkipFrame, GiveUp, WriteFails,
                AtFrame, history
  <2>2. QED
    BY <2>1 DEF PlanInv
<1>3. CASE Environment
  <2>1. UNCHANGED <<pc, result, task, want, posts>>
    BY <1>3 DEF Environment, UnitApplies, UnitReports, UnitRefuses, LoseRequest, LoseAnswer,
                history
  <2>2. QED
    BY <2>1 DEF PlanInv
<1>4. CASE UNCHANGED vars
  <2>1. UNCHANGED <<pc, result, task, want, posts>>
    BY <1>4 DEF vars, history
  <2>2. QED
    BY <2>1 DEF PlanInv
<1>5. QED
  BY <1>1, <1>2, <1>3, <1>4 DEF Next

\* What the guardrail plans for an installer's parameter (macon_advanced_params.cpp)
\* is one byte for a register of that parameter alone and reads back as the
\* value or the option that was asked for; and what a write that returned Ok
\* has put on the bus reads back as what the consumer asked for.
THEOREM PlansReadBack == Spec => []PlansAreExact
<1>1. Init => PlanInv
  BY DEF Init, NoWant, PlanInv, FC_CMD
<1>2. SessionInv /\ PlanInv /\ [Next]_vars => PlanInv'
  BY PlanStep DEF SessionInv
<1>3. PlanInv => PlansAreExact
  <2>1. ReadsAs(posts[Len(posts)].value) <=> ReadsBack(task, posts[Len(posts)].value)
    BY Zenon DEF ReadsAs, ReadsBack
  <2>2. QED
    BY <2>1, PlansExact DEF PlanInv, PlansAreExact, WriteEnded
<1>4. QED
  BY SessionHolds, <1>1, <1>2, <1>3, PTL DEF Spec
=============================================================================
