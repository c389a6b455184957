----------------------------- MODULE FrameStream -----------------------------
(***************************************************************************)
(* What a receiver of the wire promises, without buffers: it reads one     *)
(* stream of bytes from left to right and takes the frames out of it, the  *)
(* same frames however the bytes are cut into reads.  It may pass over     *)
(* bytes only where no frame header starts, over a complete intact frame   *)
(* as a whole, or past the magic of a header whose frame is bad.  The      *)
(* receivers of src/ implement it with a bounded accumulator.              *)
(***************************************************************************)
EXTENDS TuyaCodec

VARIABLES stream,   \* all the bytes that will ever reach the receiver
          avail,    \* how many of them have
          pos,      \* how many of them are dealt with
          accepted, \* offsets of the frames taken
          dropped   \* offsets given up by an explicit reset

vars == <<stream, avail, pos, accepted, dropped>>

\* The bytes received from offset i on.
From(i) == SubSeq(stream, i + 1, avail)

HeadReceived == plausible_header(SubSeq(stream, 1, avail), pos)

Init == /\ stream \in Seq(Byte)
        /\ avail = 0
        /\ pos = 0
        /\ accepted = {}
        /\ dropped = {}

Arrive == /\ avail' \in avail + 1 .. Len(stream)
          /\ UNCHANGED <<stream, pos, accepted, dropped>>

SkipJunk == /\ pos' \in pos + 1 .. avail
            /\ \A i \in pos .. pos' - 1 : ~ plausible_header(stream, i)
            /\ UNCHANGED <<stream, avail, accepted, dropped>>

Accept == /\ HeadReceived
          /\ parse_frame(From(pos)) \in {"OK", "UNKNOWN_WINDOW"}
          /\ accepted' = accepted \cup {pos}
          /\ pos' = pos + declared_len(From(pos))
          /\ UNCHANGED <<stream, avail, dropped>>

Reject == /\ HeadReceived
          /\ parse_frame(From(pos)) \in {"BAD_CHECKSUM", "BAD_DIR"}
          /\ pos' \in {pos + 1, pos + 2}
          /\ UNCHANGED <<stream, avail, accepted, dropped>>

Reset == /\ pos < avail
         /\ pos' = avail
         /\ dropped' = dropped \cup (pos .. avail - 1)
         /\ UNCHANGED <<stream, avail, accepted>>

Next == Arrive \/ SkipJunk \/ Accept \/ Reject \/ Reset

Spec == Init /\ [][Next]_vars
-----------------------------------------------------------------------------
TypeOK == /\ stream \in Seq(Byte)
          /\ avail \in 0 .. Len(stream)
          /\ pos \in 0 .. avail
          /\ accepted \subseteq 0 .. Len(stream) - 1
          /\ dropped \subseteq 0 .. Len(stream) - 1

FrameAt(i) == SubSeq(stream, i + 1, Len(stream))

\* A complete, checksum-valid frame starts at offset i of the stream.
Intact(i) == plausible_header(stream, i) /\ parse_frame(FrameAt(i)) = "OK"

\* An earlier header claims the bytes at offset i for its own frame.
Covered(i) == \E j \in 0 .. i - 1 : /\ plausible_header(stream, j)
                                    /\ i < j + declared_len(FrameAt(j))

\* An intact frame the receiver has passed was taken, unless an earlier
\* header had claimed its first byte or a reset gave it up.
IntactFrameTaken ==
  \A i \in 0 .. pos - 1 :
    Intact(i) /\ ~ Covered(i) /\ i \notin dropped => i \in accepted

\* Only intact frames are taken, and no byte belongs to two of them.
TakenFramesIntact ==
  \A i \in accepted :
    /\ Intact(i)
    /\ \A j \in accepted : i < j => i + declared_len(FrameAt(i)) <= j
=============================================================================
