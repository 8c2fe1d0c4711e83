----------------------------- MODULE ByteQueue -----------------------------
(***************************************************************************)
(* What a ring buffer promises its users (the comments of ring_buffer.hpp):*)
(* a bounded first-in first-out queue.  A write to a full queue drops the  *)
(* oldest items to make room, or stops, as the constructor was told.       *)
(* RingBuffer is shown to implement it.                                    *)
(***************************************************************************)
EXTENDS Integers, Sequences

CONSTANTS
  Items,       \* what is stored
  Room,        \* how many items fit
  MaxBurst     \* longest burst written or read by one call

VARIABLES
  queue,       \* items written and not yet read, oldest first
  overwrite,   \* a full queue drops its oldest item instead of refusing
  answer       \* what the last call returned

queueVars == <<queue, overwrite, answer>>

Bursts == UNION {[1..n -> Items] : n \in 0..MaxBurst}
Smaller(a, b) == IF a < b THEN a ELSE b

\* The items of s that stay when only the newest fit, or only the oldest.
Newest(s) == IF Len(s) > Room THEN SubSeq(s, Len(s) - Room + 1, Len(s)) ELSE s
Oldest(s) == IF Len(s) > Room THEN SubSeq(s, 1, Room) ELSE s

QueueInit == queue = <<>> /\ overwrite \in BOOLEAN /\ answer = <<>>

QWrite(data) ==
  /\ queue' = IF overwrite THEN Newest(queue \o data) ELSE Oldest(queue \o data)
  /\ answer' = <<IF overwrite THEN Len(data) ELSE Len(queue') - Len(queue)>>

QRead(n) ==
  LET m == Smaller(n, Len(queue))
  IN  /\ answer' = SubSeq(queue, 1, m)
      /\ queue' = SubSeq(queue, m + 1, Len(queue))

QPeek(n) ==
  /\ answer' = SubSeq(queue, 1, Smaller(n, Len(queue)))
  /\ UNCHANGED queue

\* The item at offset n, or nothing.
QPeekAt(n) ==
  /\ answer' = IF n < Len(queue) THEN <<queue[n + 1]>> ELSE <<>>
  /\ UNCHANGED queue

QSizes ==
  /\ answer' = <<Len(queue), Room - Len(queue), queue = <<>>, Len(queue) = Room>>
  /\ UNCHANGED queue

QReset == queue' = <<>> /\ UNCHANGED answer

QueueNext ==
  /\ \/ \E data \in Bursts : QWrite(data)
     \/ \E n \in 0..MaxBurst : QRead(n) \/ QPeek(n) \/ QPeekAt(n)
     \/ QSizes
     \/ QReset
  /\ UNCHANGED overwrite

QueueSpec == QueueInit /\ [][QueueNext]_queueVars
=============================================================================
