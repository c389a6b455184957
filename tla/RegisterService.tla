---------------------------- MODULE RegisterService ----------------------------
(***************************************************************************)
(* What the master and the unit promise together, without frames, calls or *)
(* losses: writes are posted one after the other; the unit applies some of *)
(* them, each at most once and in the order they were posted; and what the *)
(* controller shows of a block of registers is the unit as it was at some  *)
(* moment, never an earlier one than it showed before.                     *)
(***************************************************************************)
EXTENDS Integers, Sequences, FiniteSetsExt

CONSTANTS Block,      \* block -> the registers that are read together
          FirstUnit   \* register -> byte, before any write

VARIABLES posts,   \* the writes asked for: register and value
          done,    \* indices of those the unit applied, in the order it did
          unit,    \* register -> byte of the unit
          image,   \* the same as the controller shows it, as far as it was read
          seen     \* block -> how much of done it shows

Byte == 0 .. 255

Init == /\ posts = <<>> /\ done = <<>>
        /\ unit = FirstUnit
        /\ image = [r \in {} |-> 0]
        /\ seen = [b \in DOMAIN Block |-> 0]

\* One write more, of any byte to any register.
Post ==
  /\ Len(posts') = Len(posts) + 1
  /\ SubSeq(posts', 1, Len(posts)) = posts
  /\ posts'[Len(posts')] \in [reg : DOMAIN FirstUnit, value : Byte]
  /\ UNCHANGED <<done, unit, image, seen>>

Apply ==
  /\ \E i \in 1 .. Len(posts) :
       /\ \A k \in 1 .. Len(done) : done[k] < i
       /\ done' = Append(done, i)
       /\ unit' = [unit EXCEPT ![posts[i].reg] = posts[i].value]
  /\ UNCHANGED <<posts, image, seen>>

\* A register after the first n writes that were applied.
After(n, r) ==
  LET writes == {k \in 1 .. n : posts[done[k]].reg = r}
  IN  IF writes = {} THEN FirstUnit[r] ELSE posts[done[Max(writes)]].value

Show ==
  /\ UNCHANGED <<posts, done, unit>>
  /\ \E b \in DOMAIN Block : \E n \in seen[b] .. Len(done) :
       /\ seen' = [seen EXCEPT ![b] = n]
       /\ image' = [r \in DOMAIN image \cup Block[b] |->
                      IF r \in Block[b] THEN After(n, r) ELSE image[r]]

Next == Post \/ Apply \/ Show

Spec == Init /\ [][Next]_<<posts, done, unit, image, seen>>
=============================================================================
