----------------------------- MODULE FrameScan -----------------------------
(***************************************************************************)
(* Frames of fixed length in a stream of bytes, as the DDSM210 drivers cut *)
(* them out of their receive ring.                                         *)
(*                                                                         *)
(* A byte is <<frame, place>>, what the frame says and where in it the     *)
(* byte stands: bytes that carry a correct checksum are the bytes of one   *)
(* frame in their order, and no others (no CRC collision).  A damaged byte *)
(* has place 0.                                                            *)
(***************************************************************************)
EXTENDS Integers, Sequences, FiniteSets

CONSTANTS
  FrameLen,   \* bytes of a frame (10 in the code)
  Room        \* bytes the receive ring holds (2047 in the code)

BytesOf(frame) == [i \in 1..FrameLen |-> <<frame, i>>]

\* What a bad bus makes of a frame: nothing, or one byte missing or damaged.
Spoilt(frame) ==
  LET b == BytesOf(frame)
  IN  {<<>>} \cup {[j \in 1..(FrameLen - 1) |-> b[IF j < i THEN j ELSE j + 1]]
                     : i \in 1..FrameLen}
             \cup {[b EXCEPT ![i][2] = 0] : i \in 1..FrameLen}

Window(s) == SubSeq(s, 1, FrameLen)

\* The checksum of the first FrameLen bytes is correct.
Intact(s) == Window(s) = BytesOf(s[1][1])

\* How many frames stand in s undamaged.
Frames(s) ==
  Cardinality({i \in 1..(Len(s) - FrameLen + 1) :
                 Intact(SubSeq(s, i, i + FrameLen - 1))})

\* Mistake: the ring never runs over.
NewestAll(s) == s

\* The ring overwrites its oldest bytes.
Newest(s) == IF Len(s) > Room THEN SubSeq(s, Len(s) - Room + 1, Len(s)) ELSE s

Drop(s, n) == SubSeq(s, n + 1, Len(s))
=============================================================================
