-------------------------- MODULE SerialPort_proof --------------------------
(***************************************************************************)
(* Proofs about AsyncSerial, for every set of callers, ring size, message  *)
(* length and number of sessions, and about RingBuffer, for every array    *)
(* size, index width and burst.                                            *)
(***************************************************************************)
EXTENDS MCAsyncSerial, Basics_proof

(* What makes the safety properties of the port inductive.                   *)

\* The descriptor serves the last session, and armed operations need it; a
\* session Open() refused leaves it open under a port that is not.
StreamInv ==
  /\ port_opened => stream # 0
  /\ stream # 0 => stream = session /\ session > 0
  /\ stream = 0 => reads = 0 /\ writes = 0
  /\ session \in 0..MaxOpens
  /\ teardown # "none" => stream = 0

FateInv ==
  (session > 0 /\ ~port_opened) =>
    \/ fate[session] \in {"refused", "closed", "told"}
    \/ teardown = "report" /\ fate[session] = "faulted"

\* A ring that holds bytes while no write is in progress has its drain posted;
\* tx_in_progress_ outlives the write that would clear it only as an orphan.
IdleInv == tx_rbuf # <<>> /\ ~tx_in_progress => Queued("write") \/ teardown # "none"
BusyInv ==
  tx_in_progress =>
    \/ writes > 0 \/ Queued("writeDone") \/ Queued("writeFail")
    \/ teardown # "none"
    \/ orphaned

\* Only the write of the open session is armed or queued, and the flag says so.
OneWriteInv ==
  stream # 0 =>
    /\ \/ writes = 0 /\ NoneOf(ioq, Writing)
       \/ tx_in_progress /\ writes = 1 /\ NoneOf(ioq, Writing)
       \/ tx_in_progress /\ writes = 0 /\ OneOf(ioq, Writing)
    /\ ~Queued("writeAborted")

SizeInv == Len(tx_rbuf) <= Capacity /\ Len(tx_buf) <= Capacity

SerialInv ==
  /\ TypeOK
  /\ StreamInv
  /\ FateInv
  /\ IdleInv
  /\ BusyInv
  /\ OneReadLoop
  /\ OneWriteInv
  /\ SizeInv

-----------------------------------------------------------------------------
(* Types.                                                                    *)

(* The completions a closing descriptor queues for its cancelled writes.     *)
LEMMA AbortedType ==
  ASSUME NEW q \in Seq(Handlers), NEW n \in Nat
  PROVE  q \o [i \in 1..n |-> "writeAborted"] \in Seq(Handlers)
<1>1. [i \in 1..n |-> "writeAborted"] \in Seq(Handlers)
  BY DEF Handlers
<1> QED BY <1>1, ConcatProperties

(* A whole message fits the free space, so nothing is overwritten.           *)
LEMMA WriteFits ==
  ASSUME NEW n \in Nat, NEW a \in Nat, NEW q \in Seq(Nat), Len(q) + n <= Capacity
  PROVE  LET new == [i \in 1..n |-> a + i]
         IN  /\ q \o new \in Seq(Nat)
             /\ Len(q \o new) = Len(q) + n
<1>1. [i \in 1..n |-> a + i] \in Seq(Nat) /\ Len([i \in 1..n |-> a + i]) = n
  OBVIOUS
<1> QED BY <1>1, ConcatProperties

LEMMA SendWriteRing ==
  ASSUME TypeOK, NEW c \in Callers, SendWrite(c)
  PROVE  \E n \in 1..MaxLen :
           /\ n \in Nat /\ Len(tx_rbuf) + n <= Capacity
           /\ accepted' = accepted + n
           /\ tx_rbuf' = tx_rbuf \o [i \in 1..n |-> accepted + i]
<1> PICK n \in 1..MaxLen : /\ Free >= n
                           /\ accepted' = accepted + n
                           /\ tx_rbuf' = RingWrite([i \in 1..n |-> accepted + i])
  BY DEF SendWrite
<1>1. n \in Nat /\ Len(tx_rbuf) \in Nat /\ Capacity \in Nat
  BY AsyncSerialAssumption, LenProperties DEF TypeOK
<1>2. Len(tx_rbuf) + n <= Capacity
  BY <1>1 DEF Free
<1>3. Len(tx_rbuf \o [i \in 1..n |-> accepted + i]) = Len(tx_rbuf) + n
  BY <1>1, <1>2, WriteFits DEF TypeOK
<1>4. tx_rbuf' = tx_rbuf \o [i \in 1..n |-> accepted + i]
  BY <1>1, <1>2, <1>3 DEF RingWrite
<1> QED BY <1>1, <1>2, <1>4

(* Closing the descriptor, which the two error handlers and Close() share.   *)
LEMMA CloseStreamType ==
  ASSUME TypeOK, NEW h, Runs(h), CloseStream, NEW how \in Fates, Ended(how)
  PROVE  /\ ioq' \in Seq(Handlers) /\ fate' \in [1..MaxOpens -> Fates]
         /\ stream' \in Nat /\ reads' \in Nat /\ writes' \in Nat /\ port_opened' \in BOOLEAN
<1>1. Tail(ioq) \in Seq(Handlers)
  BY HeadTailProperties DEF TypeOK, Runs
<1>2. ioq' \in Seq(Handlers)
  BY <1>1, AbortedType DEF TypeOK, CloseStream
<1>3. fate' \in [1..MaxOpens -> Fates]
  BY DEF TypeOK, Ended
<1> QED BY <1>2, <1>3 DEF CloseStream

(* Moving the ring into tx_buf_, which two handlers share.                   *)
LEMMA WriteRingType ==
  ASSUME TypeOK, ioq # <<>>, WriteRing(Tail(ioq)),
         UNCHANGED <<wire, sendVars, lifeVars, reads, teardown, owner, orphaned>>
  PROVE  TypeOK'
<1>1. "writeFail" \in Handlers
  BY DEF Handlers
<1>2. ioq' \in Seq(Handlers)
  BY <1>1, QueueOps DEF TypeOK, WriteRing, ArmWrite
<1>3. tx_rbuf' \in Seq(Nat) /\ tx_buf' \in Seq(Nat)
  BY EmptySeq DEF TypeOK, WriteRing
<1>4. writes' \in Nat /\ tx_in_progress' \in BOOLEAN
  BY DEF TypeOK, WriteRing, ArmWrite
<1> QED BY <1>2, <1>3, <1>4 DEF TypeOK, sendVars, lifeVars

LEMMA InitType == Init => TypeOK
<1> SUFFICES ASSUME Init PROVE TypeOK
  OBVIOUS
<1>1. tx_rbuf \in Seq(Nat) /\ tx_buf \in Seq(Nat) /\ ioq \in Seq(Handlers) /\ wire \in Seq(Nat)
  BY EmptySeq DEF Init
<1>2. fate \in [1..MaxOpens -> Fates]
  BY DEF Init, Fates
<1> QED BY <1>1, <1>2 DEF Init, TypeOK

LEMMA NextType == TypeOK /\ [Next]_vars => TypeOK'
<1> SUFFICES ASSUME TypeOK, [Next]_vars PROVE TypeOK'
  OBVIOUS
<1>1. {"read", "readDone", "readFail", "write", "writeDone", "writeFail",
       "writeAborted", "close"} = Handlers
  BY DEF Handlers
<1>2. ASSUME NEW c \in Callers, SendCheck(c) \/ SendQueueFull(c) PROVE TypeOK'
  BY <1>2 DEF SendCheck, SendQueueFull, TypeOK, txVars, lifeVars
<1>3. ASSUME NEW c \in Callers, SendWrite(c) PROVE TypeOK'
  <2>0. PICK n \in Nat : /\ Len(tx_rbuf) + n <= Capacity
                         /\ accepted' = accepted + n
                         /\ tx_rbuf' = tx_rbuf \o [i \in 1..n |-> accepted + i]
    BY <1>3, SendWriteRing
  <2>1. accepted' \in Nat /\ tx_rbuf' \in Seq(Nat)
    BY <2>0, WriteFits DEF TypeOK
  <2>2. ioq' \in Seq(Handlers)
    BY <1>1, <1>3, QueueOps DEF SendWrite, TypeOK
  <2> QED BY <1>3, <2>1, <2>2 DEF SendWrite, TypeOK, lifeVars
<1>4. CASE Open
  <2>1. ioq' \in Seq(Handlers)
    BY <1>1, <1>4, QueueOps DEF Open, TypeOK
  <2> QED BY <1>4, <2>1 DEF Open, CanOpen, TypeOK, txVars, sendVars
<1>5. CASE OpenRefused
  <2>1. fate' \in [1..MaxOpens -> Fates]
    BY <1>5 DEF OpenRefused, TypeOK, Fates
  <2> QED BY <1>5, <2>1 DEF OpenRefused, CanOpen, TypeOK, txVars, sendVars
<1>6. CASE CloseIdle
  BY <1>6 DEF CloseIdle, TypeOK, txVars, sendVars
<1>7. CASE CloseCall
  <2>1. ioq' \in Seq(Handlers)
    BY <1>1, <1>7, QueueOps DEF CloseCall, TypeOK
  <2> QED BY <1>7, <2>1 DEF CloseCall, TypeOK, txVars, sendVars, lifeVars
<1>8. CASE RunRead
  <2>1. ioq' \in Seq(Handlers)
    BY <1>1, <1>8, QueueOps DEF RunRead, ArmRead, Runs, TypeOK
  <2>2. reads' \in Nat
    BY <1>8 DEF RunRead, ArmRead, TypeOK
  <2> QED BY <1>8, <2>1, <2>2 DEF RunRead, TypeOK, txVars, sendVars, lifeVars
<1>9. CASE RunFail
  <2>1. PICK h : Runs(h)
    BY <1>9 DEF RunFail
  <2>2. CloseStream /\ Ended("faulted") /\ "faulted" \in Fates
    BY <1>9 DEF RunFail, HandleErrorClose, Fates
  <2>3. teardown' \in {"none", "silent", "report"}
    BY <1>9 DEF RunFail, HandleErrorClose
  <2> QED
    BY <1>9, <2>1, <2>2, <2>3, CloseStreamType DEF RunFail, HandleErrorClose, TypeOK, sendVars
<1>10. CASE RunWrite \/ RunWriteDone
  <2>1. CASE WriteRing(Tail(ioq))
    BY <1>10, <2>1, WriteRingType DEF RunWrite, RunWriteDone, Runs
  <2>2. CASE ~WriteRing(Tail(ioq))
    <3>1. ioq' \in Seq(Handlers)
      BY <1>10, <2>2, HeadTailProperties DEF RunWrite, RunWriteDone, Runs, TypeOK
    <3>2. UNCHANGED <<tx_rbuf, tx_buf, writes>> /\ tx_in_progress' \in BOOLEAN
      BY <1>10, <2>2 DEF RunWrite, RunWriteDone, TypeOK
    <3> QED BY <1>10, <3>1, <3>2 DEF RunWrite, RunWriteDone, TypeOK, sendVars, lifeVars
  <2> QED BY <2>1, <2>2
<1>11. CASE RunWriteAborted
  <2>1. ioq' \in Seq(Handlers)
    BY <1>11, HeadTailProperties DEF RunWriteAborted, Runs, TypeOK
  <2> QED BY <1>11, <2>1 DEF RunWriteAborted, TypeOK, txVars, sendVars, lifeVars
<1>12. CASE RunClose
  <2>1. Runs("close") /\ CloseStream /\ Ended("closed") /\ "closed" \in Fates
    BY <1>12 DEF RunClose, Fates
  <2> QED BY <1>12, <2>1, CloseStreamType DEF RunClose, TypeOK, sendVars
<1>13. CASE HandleErrorReset
  <2>1. tx_rbuf' \in Seq(Nat)
    BY <1>13, EmptySeq DEF HandleErrorReset
  <2>2. fate' \in [1..MaxOpens -> Fates]
    BY <1>13 DEF HandleErrorReset, TypeOK, Fates
  <2> QED BY <1>13, <2>1, <2>2 DEF HandleErrorReset, TypeOK, sendVars
<1>14. CASE ReadEnds
  <2>1. ioq' \in Seq(Handlers)
    <3>1. /\ Append(ioq, "readDone") \in Seq(Handlers)
          /\ Append(ioq, "readFail") \in Seq(Handlers)
      BY <1>1, QueueOps DEF TypeOK
    <3>2. \/ ioq' = Append(ioq, "readDone")
          \/ ioq' = Append(ioq, "readFail")
      BY <1>14 DEF ReadEnds, Complete
    <3> QED BY <3>1, <3>2
  <2>2. reads' \in Nat
    BY <1>14 DEF ReadEnds, TypeOK
  <2> QED BY <1>14, <2>1, <2>2 DEF ReadEnds, TypeOK, txVars, sendVars, lifeVars
<1>15. CASE WriteReady \/ WriteFails
  <2>1. ioq' \in Seq(Handlers)
    <3>1. /\ Append(ioq, "writeDone") \in Seq(Handlers)
          /\ Append(ioq, "writeFail") \in Seq(Handlers)
      BY <1>1, QueueOps DEF TypeOK
    <3>2. \/ ioq' = Append(ioq, "writeDone")
          \/ ioq' = Append(ioq, "writeFail")
      BY <1>15 DEF WriteReady, WriteFails, Complete
    <3> QED BY <3>1, <3>2
  <2>2. writes' \in Nat
    BY <1>15 DEF WriteReady, WriteFails, TypeOK
  <2>3. wire' \in Seq(Nat)
    <3>1. ASSUME NEW n \in 1..Len(tx_buf), wire' = wire \o SubSeq(tx_buf, 1, n)
          PROVE  wire' \in Seq(Nat)
      <4>1. \A i \in 1..n : tx_buf[i] \in Nat
        BY LenProperties, ElementOfSeq DEF TypeOK
      <4>2. SubSeq(tx_buf, 1, n) \in Seq(Nat)
        BY <4>1, SubSeqProperties
      <4> QED BY <3>1, <4>2, ConcatProperties DEF TypeOK
    <3> QED BY <1>15, <3>1 DEF WriteReady, WriteFails, TypeOK
  <2> QED BY <1>15, <2>1, <2>2, <2>3 DEF WriteReady, WriteFails, TypeOK, sendVars, lifeVars
<1>16. CASE UNCHANGED vars
  BY <1>16 DEF vars, TypeOK
<1> QED
  BY <1>2, <1>3, <1>4, <1>5, <1>6, <1>7, <1>8, <1>9, <1>10, <1>11, <1>12, <1>13,
     <1>14, <1>15, <1>16
  DEF Next, SendBytes, IoThread, Device

(* Every step keeps each variable of the port in its type.                   *)
THEOREM SerialTyping == Spec => []TypeOK
BY InitType, NextType, PTL DEF Spec

-----------------------------------------------------------------------------
(* The session and its end.                                                  *)

LEMMA NextStream == TypeOK /\ StreamInv /\ [Next]_vars => StreamInv'
<1> SUFFICES ASSUME TypeOK, StreamInv, [Next]_vars PROVE StreamInv'
  OBVIOUS
<1> USE AsyncSerialAssumption DEF StreamInv, TypeOK
<1>1. ASSUME NEW c \in Callers, SendBytes(c) PROVE StreamInv'
  BY <1>1 DEF SendBytes, SendCheck, SendQueueFull, SendWrite, txVars, lifeVars
<1>2. CASE Open \/ OpenRefused
  BY <1>2 DEF Open, OpenRefused, CanOpen, txVars
<1>3. CASE CloseIdle \/ CloseCall
  BY <1>3 DEF CloseIdle, CloseCall, txVars, lifeVars
<1>4. CASE RunRead
  BY <1>4 DEF RunRead, ArmRead, txVars, lifeVars
<1>5. CASE RunFail \/ RunClose
  BY <1>5 DEF RunFail, RunClose, HandleErrorClose, CloseStream
<1>6. CASE RunWrite \/ RunWriteDone
  BY <1>6 DEF RunWrite, RunWriteDone, WriteRing, ArmWrite, lifeVars
<1>7. CASE RunWriteAborted \/ HandleErrorReset
  BY <1>7 DEF RunWriteAborted, HandleErrorReset, txVars, lifeVars
<1>8. CASE Device
  BY <1>8 DEF Device, ReadEnds, WriteReady, WriteFails, txVars, lifeVars
<1>9. CASE UNCHANGED vars
  BY <1>9 DEF vars
<1> QED
  BY <1>1, <1>2, <1>3, <1>4, <1>5, <1>6, <1>7, <1>8, <1>9 DEF Next, IoThread

LEMMA NextFate == TypeOK /\ StreamInv /\ FateInv /\ [Next]_vars => FateInv'
<1> SUFFICES ASSUME TypeOK, StreamInv, FateInv, [Next]_vars PROVE FateInv'
  OBVIOUS
<1> USE AsyncSerialAssumption DEF StreamInv, TypeOK, FateInv
<1>1. ASSUME NEW c \in Callers, SendBytes(c) PROVE FateInv'
  BY <1>1 DEF SendBytes, SendCheck, SendQueueFull, SendWrite, lifeVars
<1>2. CASE Open
  BY <1>2 DEF Open
<1>3. CASE OpenRefused
  BY <1>3 DEF OpenRefused, CanOpen
<1>4. CASE CloseIdle \/ CloseCall
  BY <1>4 DEF CloseIdle, CloseCall, lifeVars
<1>5. CASE RunRead \/ RunWrite \/ RunWriteDone \/ RunWriteAborted
  BY <1>5 DEF RunRead, RunWrite, RunWriteDone, RunWriteAborted, lifeVars
<1>6. CASE RunFail
  BY <1>6 DEF RunFail, Runs, HandleErrorClose, CloseStream, Ended
<1>7. CASE RunClose
  BY <1>7 DEF RunClose, Runs, CloseStream, Ended
<1>8. CASE HandleErrorReset
  BY <1>8 DEF HandleErrorReset
<1>9. CASE Device
  BY <1>9 DEF Device, ReadEnds, WriteReady, WriteFails, lifeVars
<1>10. CASE UNCHANGED vars
  BY <1>10 DEF vars
<1> QED
  BY <1>1, <1>2, <1>3, <1>4, <1>5, <1>6, <1>7, <1>8, <1>9, <1>10 DEF Next, IoThread

-----------------------------------------------------------------------------
(* The queue of the io_context.                                              *)

(* The handlers in the queue after a step that appends one, or runs the head. *)
LEMMA QueuedAppend ==
  ASSUME TypeOK, NEW x \in Handlers, ioq' = Append(ioq, x), NEW h
  PROVE  Queued(h)' <=> Queued(h) \/ h = x
BY NoneAppend DEF Queued, TypeOK

LEMMA QueuedTail ==
  ASSUME TypeOK, NEW k, Runs(k), ioq' = Tail(ioq), NEW h
  PROVE  Queued(h) <=> Queued(h)' \/ h = k
BY NoneTail DEF Queued, TypeOK, Runs

LEMMA QueuedTailAppend ==
  ASSUME TypeOK, NEW k, Runs(k), NEW x \in Handlers, ioq' = Append(Tail(ioq), x), NEW h
  PROVE  Queued(h)' <=> ~NoneOf(Tail(ioq), {h}) \/ h = x
<1>1. Tail(ioq) \in Seq(Handlers)
  BY TailElements DEF TypeOK, Runs
<1> QED BY <1>1, NoneAppend DEF Queued

LEMMA QueuedHead ==
  ASSUME TypeOK, NEW k, Runs(k), NEW h
  PROVE  Queued(h) <=> ~NoneOf(Tail(ioq), {h}) \/ h = k
BY NoneTail DEF Queued, TypeOK, Runs

(* The aborted writes come behind whatever waits.                            *)
LEMMA QueuedClose ==
  ASSUME TypeOK, NEW k, Runs(k), CloseStream, NEW h, h # k, Queued(h)
  PROVE  Queued(h)'
<1> DEFINE rest == Tail(ioq)
           aborted == [i \in 1..writes |-> "writeAborted"]
<1>1. rest \in Seq(Handlers) /\ ~NoneOf(rest, {h})
  BY QueuedHead, TailElements DEF TypeOK, Runs
<1>2. aborted \in Seq(Handlers)
  BY DEF Handlers, TypeOK
<1>3. ioq' = rest \o aborted
  BY DEF CloseStream
<1> HIDE DEF rest, aborted
<1>4. PICK i \in 1..Len(rest) : rest[i] \in {h}
  BY <1>1 DEF NoneOf
<1>5. /\ Len(rest \o aborted) = Len(rest) + Len(aborted)
      /\ i \in 1..Len(rest) + Len(aborted) => (rest \o aborted)[i] = rest[i]
      /\ Len(rest) \in Nat /\ Len(aborted) \in Nat
  BY <1>1, <1>2, ConcatProperties, LenProperties
<1>6. i \in 1..Len(ioq') /\ ioq'[i] \in {h}
  BY <1>3, <1>4, <1>5
<1> QED BY <1>6 DEF Queued, NoneOf

(* No byte waits for a wakeup that will not come, but after an aborted write. *)
LEMMA NextWake ==
  ASSUME TypeOK, StreamInv, IdleInv, BusyInv, [Next]_vars
  PROVE  IdleInv' /\ BusyInv'
<1> USE DEF IdleInv, BusyInv
<1> DEFINE Wakers == {"write", "writeDone", "writeFail"}
<1>1. ASSUME UNCHANGED <<tx_rbuf, tx_in_progress, writes, ioq, teardown, orphaned>>
      PROVE  IdleInv' /\ BusyInv'
  BY <1>1 DEF Queued
<1>2. ASSUME \A h \in Wakers : Queued(h) => Queued(h)',
             UNCHANGED <<tx_rbuf, tx_in_progress, writes, teardown, orphaned>>
      PROVE  IdleInv' /\ BusyInv'
  BY <1>2
<1>3. ASSUME NEW c \in Callers, SendCheck(c) \/ SendQueueFull(c) PROVE IdleInv' /\ BusyInv'
  BY <1>1, <1>3 DEF SendCheck, SendQueueFull, txVars
<1>4. ASSUME NEW c \in Callers, SendWrite(c) PROVE IdleInv' /\ BusyInv'
  <2>1. "write" \in Handlers
    BY DEF Handlers
  <2>2. Queued("write")' /\ \A h \in Wakers : Queued(h) => Queued(h)'
    BY <1>4, <2>1, QueuedAppend DEF SendWrite
  <2> QED BY <1>4, <2>2 DEF SendWrite
<1>5. CASE Open
  <2>1. \A h \in Wakers : Queued(h) => Queued(h)'
    BY <1>5, QueuedAppend DEF Open, Handlers
  <2> QED BY <1>2, <1>5, <2>1 DEF Open, txVars
<1>6. CASE OpenRefused \/ CloseIdle
  BY <1>1, <1>6 DEF OpenRefused, CloseIdle, txVars
<1>7. CASE CloseCall
  <2>1. \A h \in Wakers : Queued(h) => Queued(h)'
    BY <1>7, QueuedAppend DEF CloseCall, Handlers
  <2> QED BY <1>2, <1>7, <2>1 DEF CloseCall, txVars
<1>8. CASE RunRead
  <2>1. PICK k \in {"read", "readDone"} : Runs(k)
    BY <1>8 DEF RunRead
  <2>2. \A h \in Wakers : Queued(h) => ~NoneOf(Tail(ioq), {h})
    BY <2>1, QueuedHead
  <2>3. CASE ioq' = Tail(ioq)
    BY <1>2, <1>8, <2>2, <2>3 DEF RunRead, txVars, Queued
  <2>4. CASE ioq' = Append(Tail(ioq), "readFail")
    <3>1. "readFail" \in Handlers
      BY DEF Handlers
    <3>2. \A h \in Wakers : Queued(h) => Queued(h)'
      BY <2>1, <2>2, <2>4, <3>1, QueuedTailAppend
    <3> QED BY <1>2, <1>8, <3>2 DEF RunRead, txVars
  <2> QED BY <1>8, <2>3, <2>4 DEF RunRead, ArmRead
<1>9. CASE RunFail
  BY <1>9 DEF RunFail, HandleErrorClose
<1>10. ASSUME NEW k, Runs(k), WriteRing(Tail(ioq)) PROVE IdleInv' /\ BusyInv'
  <2>1. tx_in_progress' /\ tx_rbuf' = <<>>
    BY <1>10 DEF WriteRing
  <2>2. CASE stream # 0
    <3>1. writes' > 0
      BY <1>10, <2>2 DEF WriteRing, ArmWrite, TypeOK
    <3> QED BY <2>1, <3>1
  <2>3. CASE stream = 0
    <3>1. "writeFail" \in Handlers /\ ioq' = Append(Tail(ioq), "writeFail")
      BY <1>10, <2>3 DEF WriteRing, ArmWrite, Handlers
    <3>2. Queued("writeFail")'
      BY <1>10, <3>1, QueuedTailAppend
    <3> QED BY <2>1, <3>2
  <2> QED BY <2>2, <2>3
<1>11. CASE RunWrite
  <2>1. CASE WriteRing(Tail(ioq))
    BY <1>10, <1>11, <2>1 DEF RunWrite
  <2>2. CASE tx_in_progress /\ ~WriteRing(Tail(ioq))
    <3>1. Runs("write") /\ ioq' = Tail(ioq)
          /\ UNCHANGED <<tx_rbuf, tx_in_progress, writes, teardown, orphaned>>
      BY <1>11, <2>2 DEF RunWrite
    <3>2. \A h \in {"writeDone", "writeFail"} : Queued(h) => Queued(h)'
      BY <3>1, QueuedTail
    <3> QED BY <2>2, <3>1, <3>2
  <2>3. CASE ~tx_in_progress /\ ~WriteRing(Tail(ioq))
    <3>1. tx_rbuf = <<>> /\ UNCHANGED <<tx_rbuf, tx_in_progress>>
      BY <1>11, <2>3 DEF RunWrite
    <3> QED BY <2>3, <3>1
  <2> QED BY <2>1, <2>2, <2>3
<1>12. CASE RunWriteDone
  <2>1. CASE WriteRing(Tail(ioq))
    BY <1>10, <1>12, <2>1 DEF RunWriteDone
  <2>2. CASE tx_rbuf = <<>> /\ ~WriteRing(Tail(ioq))
    BY <1>12, <2>2 DEF RunWriteDone
  <2> QED BY <1>12, <2>1, <2>2 DEF RunWriteDone
<1>13. CASE RunWriteAborted
  <2>1. \A h \in Wakers : Queued(h) => Queued(h)'
    BY <1>13, QueuedTail DEF RunWriteAborted
  <2> QED BY <1>2, <1>13, <2>1 DEF RunWriteAborted, txVars
<1>14. CASE RunClose
  <2>1. \A h \in Wakers : Queued(h) => Queued(h)'
    BY <1>14, QueuedClose DEF RunClose
  <2>2. /\ UNCHANGED <<tx_rbuf, tx_in_progress, teardown>>
        /\ orphaned' = (orphaned \/ writes > 0)
    BY <1>14 DEF RunClose
  <2> QED BY <2>1, <2>2
<1>15. CASE HandleErrorReset
  BY <1>15 DEF HandleErrorReset
<1>16. CASE Device
  <2>1. PICK x \in {"readDone", "readFail", "writeDone", "writeFail"} : ioq' = Append(ioq, x)
    BY <1>16 DEF Device, ReadEnds, WriteReady, WriteFails, Complete
  <2>2. x \in Handlers
    BY <2>1 DEF Handlers
  <2>3. \A h \in Wakers : Queued(h) => Queued(h)'
    BY <2>1, <2>2, QueuedAppend
  <2>4. UNCHANGED <<tx_rbuf, tx_in_progress, teardown, orphaned>>
    BY <1>16 DEF Device, ReadEnds, WriteReady, WriteFails, txVars
  <2>5. writes' = writes \/ Queued("writeDone")' \/ Queued("writeFail")'
    BY <1>16, QueuedAppend DEF Device, ReadEnds, WriteReady, WriteFails, Complete, txVars, Handlers
  <2> QED BY <2>3, <2>4, <2>5
<1>17. CASE UNCHANGED vars
  BY <1>1, <1>17 DEF vars
<1> QED
  BY <1>3, <1>4, <1>5, <1>6, <1>7, <1>8, <1>9, <1>11, <1>12, <1>13, <1>14, <1>15,
     <1>16, <1>17
  DEF Next, SendBytes, IoThread

-----------------------------------------------------------------------------
(* One read and one write at a time.                                         *)

(* A handler of no interest to a count leaves it alone, appended or run.     *)
LEMMA CountAppend ==
  ASSUME TypeOK, NEW x \in Handlers, ioq' = Append(ioq, x), NEW K, x \notin K
  PROVE  /\ NoneOf(ioq, K) <=> NoneOf(ioq', K)
         /\ OneOf(ioq, K) => OneOf(ioq', K)
BY NoneAppend, OneAppend DEF TypeOK

LEMMA CountTail ==
  ASSUME TypeOK, NEW k, Runs(k), ioq' = Tail(ioq), NEW K, k \notin K
  PROVE  /\ NoneOf(ioq, K) <=> NoneOf(ioq', K)
         /\ OneOf(ioq, K) => OneOf(ioq', K)
BY NoneTail, OneTail DEF TypeOK, Runs

LEMMA NextReadLoop == TypeOK /\ StreamInv /\ OneReadLoop /\ [Next]_vars => OneReadLoop'
<1> SUFFICES ASSUME TypeOK, StreamInv, OneReadLoop, [Next]_vars PROVE OneReadLoop'
  OBVIOUS
<1> USE DEF OneReadLoop
<1>0. ~port_opened' => OneReadLoop'
  OBVIOUS
<1>1. ASSUME UNCHANGED <<reads, port_opened, ioq>> PROVE OneReadLoop'
  BY <1>1
<1>2. ASSUME NEW x \in Handlers, x \notin Reading, ioq' = Append(ioq, x),
             UNCHANGED <<reads, port_opened>>
      PROVE  OneReadLoop'
  BY <1>2, CountAppend
<1>3. ASSUME NEW k, k \notin Reading, Runs(k), ioq' = Tail(ioq), UNCHANGED <<reads, port_opened>>
      PROVE  OneReadLoop'
  BY <1>3, CountTail
<1>4. ASSUME NEW c \in Callers, SendCheck(c) \/ SendQueueFull(c) PROVE OneReadLoop'
  BY <1>1, <1>4 DEF SendCheck, SendQueueFull, lifeVars
<1>5. CASE (\E c \in Callers : SendWrite(c)) \/ CloseCall
  <2>1. {"write", "close"} \subseteq Handlers /\ "write" \notin Reading /\ "close" \notin Reading
    BY DEF Handlers, Reading
  <2> QED BY <1>2, <1>5, <2>1 DEF SendWrite, CloseCall, lifeVars
<1>6. CASE Open
  <2>1. NoneOf(ioq, Reading) /\ reads = 0
    BY <1>6 DEF Open, CanOpen, NoneOf, StreamInv
  <2>2. "read" \in Handlers /\ "read" \in Reading
    BY DEF Handlers, Reading
  <2>3. OneOf(ioq', Reading)
    BY <1>6, <2>1, <2>2, OneAppend DEF Open, TypeOK
  <2> QED BY <1>6, <2>1, <2>3 DEF Open
<1>7. CASE OpenRefused \/ CloseIdle
  BY <1>0, <1>7 DEF OpenRefused, CloseIdle, CanOpen, StreamInv
<1>8. CASE RunRead
  <2>1. CASE port_opened
    <3>1. Head(ioq) \in Reading /\ ioq # <<>>
      BY <1>8 DEF RunRead, Runs, Reading
    <3>2. OneOf(ioq, Reading) /\ reads = 0
      BY <2>1, <3>1, NoneTail DEF TypeOK
    <3>3. NoneOf(Tail(ioq), Reading)
      BY <3>1, <3>2, OneTail DEF TypeOK
    <3>4. reads' = 1 /\ ioq' = Tail(ioq)
      BY <1>8, <2>1, <3>2 DEF RunRead, ArmRead, StreamInv
    <3>5. NoneOf(ioq', Reading)
      BY <3>3, <3>4
    <3> QED BY <3>4, <3>5
  <2> QED BY <1>0, <1>8, <2>1 DEF RunRead, lifeVars
<1>9. CASE RunFail \/ RunClose
  BY <1>0, <1>9 DEF RunFail, RunClose, HandleErrorClose, CloseStream
<1>10. CASE RunWriteAborted
  BY <1>3, <1>10 DEF RunWriteAborted, lifeVars, Reading
<1>11. CASE RunWrite \/ RunWriteDone
  <2>1. CASE port_opened
    <3>1. ioq' = Tail(ioq) /\ UNCHANGED <<reads, port_opened>>
      BY <1>11, <2>1 DEF RunWrite, RunWriteDone, WriteRing, ArmWrite, lifeVars, StreamInv
    <3>2. PICK k \in {"write", "writeDone"} : Runs(k)
      BY <1>11 DEF RunWrite, RunWriteDone
    <3>3. k \notin Reading
      BY <3>2 DEF Reading
    <3> QED BY <1>3, <3>1, <3>2, <3>3
  <2> QED BY <1>0, <1>11, <2>1 DEF RunWrite, RunWriteDone, lifeVars
<1>12. CASE HandleErrorReset
  BY <1>1, <1>12 DEF HandleErrorReset
<1>13. CASE ReadEnds
  <2>1. CASE port_opened
    <3>1. PICK x \in {"readDone", "readFail"} : ioq' = Append(ioq, x)
      BY <1>13 DEF ReadEnds, Complete
    <3>2. reads' = 0 /\ NoneOf(ioq, Reading)
      BY <1>13, <2>1 DEF ReadEnds, TypeOK
    <3>3. x \in Handlers /\ x \in Reading
      BY <3>1 DEF Handlers, Reading
    <3>4. OneOf(ioq', Reading)
      BY <3>1, <3>2, <3>3, OneAppend DEF TypeOK
    <3> QED BY <3>2, <3>4
  <2> QED BY <1>0, <1>13, <2>1 DEF ReadEnds, lifeVars
<1>14. CASE WriteReady \/ WriteFails
  BY <1>2, <1>14 DEF WriteReady, WriteFails, Complete, lifeVars, Handlers, Reading
<1>15. CASE UNCHANGED vars
  BY <1>1, <1>15 DEF vars
<1> QED
  BY <1>4, <1>5, <1>6, <1>7, <1>8, <1>9, <1>10, <1>11, <1>12, <1>13, <1>14, <1>15
  DEF Next, SendBytes, IoThread, Device

LEMMA NextOneWrite == TypeOK /\ StreamInv /\ OneWriteInv /\ [Next]_vars => OneWriteInv'
<1> SUFFICES ASSUME TypeOK, StreamInv, OneWriteInv, [Next]_vars PROVE OneWriteInv'
  OBVIOUS
<1> USE DEF OneWriteInv
<1> DEFINE Aborted == {"writeAborted"}
<1>0. stream' = 0 => OneWriteInv'
  OBVIOUS
<1>1. Aborted \subseteq Writing
  BY DEF Writing
<1>2. ASSUME UNCHANGED <<writes, stream, tx_in_progress, ioq>> PROVE OneWriteInv'
  BY <1>2 DEF Queued
<1>3. ASSUME NEW x \in Handlers, x \notin Writing, ioq' = Append(ioq, x),
             UNCHANGED <<writes, stream, tx_in_progress>>
      PROVE  OneWriteInv'
  BY <1>1, <1>3, CountAppend DEF Queued
<1>4. ASSUME NEW k, k \notin Writing, Runs(k), ioq' = Tail(ioq),
             UNCHANGED <<writes, stream, tx_in_progress>>
      PROVE  OneWriteInv'
  BY <1>1, <1>4, CountTail DEF Queued
<1>5. ASSUME NEW c \in Callers, SendCheck(c) \/ SendQueueFull(c) PROVE OneWriteInv'
  BY <1>2, <1>5 DEF SendCheck, SendQueueFull, lifeVars, txVars
<1>6. CASE (\E c \in Callers : SendWrite(c)) \/ CloseCall
  <2>1. {"write", "close"} \subseteq Handlers /\ "write" \notin Writing /\ "close" \notin Writing
    BY DEF Handlers, Writing
  <2> QED BY <1>3, <1>6, <2>1 DEF SendWrite, CloseCall, lifeVars, txVars
<1>7. CASE Open
  <2>1. NoneOf(ioq, Writing) /\ NoneOf(ioq, Aborted) /\ writes = 0
    BY <1>7 DEF Open, CanOpen, NoneOf, StreamInv
  <2>2. "read" \in Handlers /\ "read" \notin Writing /\ "read" \notin Aborted
    BY DEF Handlers, Writing
  <2>3. NoneOf(ioq', Writing) /\ NoneOf(ioq', Aborted)
    BY <1>7, <2>1, <2>2, CountAppend DEF Open
  <2> QED BY <1>7, <2>1, <2>3 DEF Open, txVars, Queued
<1>8. CASE OpenRefused
  <2>1. NoneOf(ioq', Writing) /\ NoneOf(ioq', Aborted) /\ writes' = 0
    BY <1>8 DEF OpenRefused, CanOpen, NoneOf, StreamInv, txVars
  <2> QED BY <2>1 DEF Queued
<1>9. CASE CloseIdle
  BY <1>2, <1>9 DEF CloseIdle, txVars
<1>10. CASE RunRead
  <2>1. CASE stream # 0
    <3>1. PICK k \in {"read", "readDone"} : Runs(k)
      BY <1>10 DEF RunRead
    <3>2. k \notin Writing
      BY <3>1 DEF Writing
    <3> QED BY <1>4, <1>10, <2>1, <3>1, <3>2 DEF RunRead, ArmRead, txVars, lifeVars
  <2> QED BY <1>0, <1>10, <2>1 DEF RunRead, lifeVars
<1>11. CASE RunFail \/ RunClose
  BY <1>0, <1>11 DEF RunFail, RunClose, HandleErrorClose, CloseStream
<1>12. CASE RunWriteAborted
  <2>1. Queued("writeAborted")
    BY <1>12, QueuedHead DEF RunWriteAborted
  <2> QED BY <1>0, <1>12, <2>1 DEF RunWriteAborted, lifeVars
<1>13. CASE RunWrite \/ RunWriteDone
  <2>0. stream' = stream
    BY <1>13 DEF RunWrite, RunWriteDone, lifeVars
  <2>1. CASE stream = 0
    BY <1>0, <2>0, <2>1
  <2>2. CASE stream # 0
    <3>1. ioq # <<>> /\ ioq' = Tail(ioq)
      BY <1>13, <2>2 DEF RunWrite, RunWriteDone, Runs, WriteRing, ArmWrite
    <3>2. NoneOf(ioq', Aborted)
      BY <2>2, <3>1, NoneTail DEF Queued, TypeOK
    <3>3. CASE RunWrite /\ UNCHANGED <<tx_in_progress, writes>>
      <4>1. "write" \notin Writing
        BY DEF Writing
      <4> QED BY <1>4, <2>0, <3>1, <3>3, <4>1 DEF RunWrite
    <3>4. CASE RunWrite /\ ~tx_in_progress /\ WriteRing(Tail(ioq))
      <4>1. writes = 0 /\ NoneOf(ioq, Writing)
        BY <2>2, <3>4
      <4>2. NoneOf(ioq', Writing)
        BY <3>1, <4>1, NoneTail DEF TypeOK
      <4>3. writes' = 1 /\ tx_in_progress'
        BY <2>2, <3>4, <4>1 DEF WriteRing, ArmWrite
      <4> QED BY <3>2, <4>2, <4>3 DEF Queued
    <3>5. CASE RunWriteDone
      <4>1. Head(ioq) \in Writing
        BY <3>5 DEF RunWriteDone, Runs, Writing
      <4>2. writes = 0 /\ OneOf(ioq, Writing)
        BY <2>2, <3>1, <4>1, NoneTail DEF TypeOK
      <4>3. NoneOf(ioq', Writing)
        BY <3>1, <4>1, <4>2, OneTail DEF TypeOK
      <4>4. writes' = 0 \/ (writes' = 1 /\ tx_in_progress')
        BY <2>2, <3>5, <4>2 DEF RunWriteDone, WriteRing, ArmWrite
      <4> QED BY <3>2, <4>3, <4>4 DEF Queued
    <3> QED BY <1>13, <3>3, <3>4, <3>5 DEF RunWrite
  <2> QED BY <2>1, <2>2
<1>14. CASE HandleErrorReset
  BY <1>0, <1>14 DEF HandleErrorReset, StreamInv
<1>15. CASE ReadEnds
  BY <1>3, <1>15 DEF ReadEnds, Complete, lifeVars, txVars, Handlers, Writing
<1>16. CASE WriteReady \/ WriteFails
  <2>1. PICK x \in {"writeDone", "writeFail"} : ioq' = Append(ioq, x)
    BY <1>16 DEF WriteReady, WriteFails, Complete
  <2>2. /\ stream # 0 /\ writes = 1 /\ writes' = 0 /\ NoneOf(ioq, Writing)
        /\ tx_in_progress /\ tx_in_progress'
    BY <1>16 DEF WriteReady, WriteFails, StreamInv, TypeOK
  <2>3. x \in Handlers /\ x \in Writing /\ x \notin Aborted
    BY <2>1 DEF Handlers, Writing
  <2>4. OneOf(ioq', Writing)
    BY <2>1, <2>2, <2>3, OneAppend DEF TypeOK
  <2>5. NoneOf(ioq', Aborted)
    BY <2>1, <2>2, <2>3, NoneAppend DEF TypeOK, Queued
  <2> QED BY <2>2, <2>4, <2>5 DEF Queued
<1>17. CASE UNCHANGED vars
  BY <1>2, <1>17 DEF vars
<1> QED
  BY <1>5, <1>6, <1>7, <1>8, <1>9, <1>10, <1>11, <1>12, <1>13, <1>14, <1>15, <1>16, <1>17
  DEF Next, SendBytes, IoThread, Device

(* The ring never holds more than its capacity, nor does a write.            *)
LEMMA NextSize == TypeOK /\ SizeInv /\ [Next]_vars => SizeInv'
<1> SUFFICES ASSUME TypeOK, SizeInv, [Next]_vars PROVE SizeInv'
  OBVIOUS
<1> USE DEF SizeInv
<1>1. ASSUME UNCHANGED <<tx_rbuf, tx_buf>> PROVE SizeInv'
  BY <1>1
<1>2. ASSUME NEW c \in Callers, SendCheck(c) \/ SendQueueFull(c) PROVE SizeInv'
  BY <1>1, <1>2 DEF SendCheck, SendQueueFull, txVars
<1>3. ASSUME NEW c \in Callers, SendWrite(c) PROVE SizeInv'
  <2>1. PICK n \in Nat : /\ Len(tx_rbuf) + n <= Capacity
                         /\ tx_rbuf' = tx_rbuf \o [i \in 1..n |-> accepted + i]
    BY <1>3, SendWriteRing
  <2>2. Len(tx_rbuf') = Len(tx_rbuf) + n
    BY <2>1, WriteFits DEF TypeOK
  <2> QED BY <1>3, <2>1, <2>2 DEF SendWrite
<1>4. ASSUME NEW q, WriteRing(q) PROVE SizeInv'
  <2>1. Len(tx_rbuf') = 0 /\ tx_buf' = tx_rbuf
    BY <1>4 DEF WriteRing
  <2> QED BY <2>1, AsyncSerialAssumption
<1>5. CASE HandleErrorReset
  <2>1. Len(tx_rbuf') = 0 /\ tx_buf' = tx_buf
    BY <1>5 DEF HandleErrorReset
  <2> QED BY <2>1, AsyncSerialAssumption
<1>6. CASE Open \/ OpenRefused \/ CloseIdle \/ CloseCall
  BY <1>1, <1>6 DEF Open, OpenRefused, CloseIdle, CloseCall, txVars
<1>7. CASE RunRead \/ RunFail \/ RunWriteAborted \/ RunClose
  BY <1>1, <1>7 DEF RunRead, RunFail, HandleErrorClose, RunWriteAborted, RunClose, txVars
<1>8. CASE RunWrite \/ RunWriteDone
  BY <1>1, <1>4, <1>8 DEF RunWrite, RunWriteDone
<1>9. CASE Device
  BY <1>1, <1>9 DEF Device, ReadEnds, WriteReady, WriteFails, txVars
<1>10. CASE UNCHANGED vars
  BY <1>1, <1>10 DEF vars
<1> QED
  BY <1>2, <1>3, <1>5, <1>6, <1>7, <1>8, <1>9, <1>10 DEF Next, SendBytes, IoThread

LEMMA InitSerial == Init => SerialInv
<1> SUFFICES ASSUME Init PROVE SerialInv
  OBVIOUS
<1>1. StreamInv /\ FateInv /\ SizeInv
  BY AsyncSerialAssumption DEF Init, StreamInv, FateInv, SizeInv
<1>2. IdleInv /\ BusyInv /\ OneReadLoop /\ OneWriteInv
  BY DEF Init, IdleInv, BusyInv, OneReadLoop, OneWriteInv
<1> QED BY <1>1, <1>2, InitType DEF SerialInv

(* The inductive invariant of the port.                                      *)
THEOREM SerialInvariant == Spec => []SerialInv
<1>1. SerialInv /\ [Next]_vars => SerialInv'
  BY NextType, NextStream, NextFate, NextWake, NextReadLoop, NextOneWrite, NextSize
  DEF SerialInv
<1> QED BY <1>1, InitSerial, PTL DEF Spec

(* Never two writes on tx_buf_; an open port never has two reads on rx_buf_
   and never none.                                                           *)
THEOREM SerialOneOfEach == Spec => []OneOfEach
<1>1. SerialInv => OneOfEach
  BY DEF SerialInv, StreamInv, OneWriteInv, OneOfEach, OneWriteInFlight
<1> QED BY <1>1, SerialInvariant, PTL

(* Bytes that SendBytes accepted stall in an open port only after a Close()
   aborted the write in flight, and until a fault resets the port.           *)
THEOREM SerialStalls == Spec => []StallsOnlyAfterAbort
<1>1. SerialInv => StallsOnlyAfterAbort
  BY DEF SerialInv, IdleInv, BusyInv, StallsOnlyAfterAbort, Moving
<1> QED BY <1>1, SerialInvariant, PTL

(* The last session of a port that is not open was refused by Open(), closed
   by its owner, or reported through err_cb_.                                *)
THEOREM SerialFaultsAreTold == Spec => []NoSilentDeath
<1>1. SerialInv => NoSilentDeath
  BY DEF SerialInv, FateInv, NoSilentDeath
<1> QED BY <1>1, SerialInvariant, PTL

-----------------------------------------------------------------------------
(* The port implements the lossy but ordered pipe.                           *)

(* What is left of two sequences when the first is taken away.               *)
LEMMA ConcatRest ==
  ASSUME NEW S, NEW s \in Seq(S), NEW t \in Seq(S)
  PROVE  SubSeq(s \o t, Len(s) + 1, Len(s \o t)) = t
<1>1. /\ Len(s) \in Nat /\ Len(t) \in Nat
      /\ Len(s \o t) = Len(s) + Len(t)
      /\ \A i \in 1..Len(s) + Len(t) :
           (s \o t)[i] = IF i <= Len(s) THEN s[i] ELSE t[i - Len(s)]
  BY ConcatProperties, LenProperties
<1>2. \A i \in (Len(s) + 1)..(Len(s) + Len(t)) :
        (s \o t)[i] = t[i - Len(s)] /\ t[i - Len(s)] \in S
  BY <1>1, ElementOfSeq
<1>3. LET rest == SubSeq(s \o t, Len(s) + 1, Len(s) + Len(t))
      IN  /\ rest \in Seq(S) /\ Len(rest) = Len(t)
          /\ \A i \in 1..Len(t) : rest[i] = (s \o t)[Len(s) + 1 + i - 1]
  BY <1>1, <1>2, SubSeqProperties
<1>4. \A i \in 1..Len(t) : (s \o t)[Len(s) + 1 + i - 1] = t[i]
  BY <1>1, <1>2
<1> QED BY <1>1, <1>3, <1>4, SeqEqual

LEMMA NatConcat == \A s, t, u \in Seq(Nat) : s \o (t \o u) = (s \o t) \o u
<1> TAKE s, t, u \in Seq(Nat)
<1>1. (s \o t) \o u = s \o (t \o u)
  BY ConcatAssociative, SMTT(30)
<1> QED BY <1>1

Backlog == IF writes > 0 THEN tx_buf \o tx_rbuf ELSE tx_rbuf

LEMMA BacklogSeq ==
  ASSUME TypeOK, SizeInv
  PROVE  /\ Backlog \in Seq(Nat)
         /\ Len(tx_rbuf) \in Nat /\ Len(tx_buf) \in Nat
         /\ Len(tx_buf \o tx_rbuf) = Len(tx_buf) + Len(tx_rbuf)
         /\ Len(Backlog) <= Capacity + Len(tx_rbuf)
<1>1. Len(tx_buf \o tx_rbuf) = Len(tx_buf) + Len(tx_rbuf) /\ tx_buf \o tx_rbuf \in Seq(Nat)
  BY ConcatProperties DEF TypeOK
<1>2. Len(tx_rbuf) \in Nat /\ Len(tx_buf) \in Nat
  BY LenProperties DEF TypeOK
<1> QED BY <1>1, <1>2, AsyncSerialAssumption DEF Backlog, TypeOK, SizeInv

(* What a step of the port is to the pipe, by what it does to the backlog.   *)
LEMMA PipeStutters ==
  ASSUME UNCHANGED <<accepted, wire, tx_rbuf, tx_buf, writes>>
  PROVE  [Pipe!PipeNext]_(Pipe!pipeVars)
BY DEF Pipe!pipeVars

LEMMA PipeAccepts ==
  ASSUME TypeOK, SizeInv, NEW c \in Callers, SendWrite(c)
  PROVE  Pipe!PipeNext
<1> PICK n \in 1..MaxLen : /\ n \in Nat /\ Len(tx_rbuf) + n <= Capacity
                           /\ accepted' = accepted + n
                           /\ tx_rbuf' = tx_rbuf \o [i \in 1..n |-> accepted + i]
  BY SendWriteRing
<1> DEFINE new == [i \in 1..n |-> accepted + i]
<1>1. new \in Seq(Nat)
  BY DEF TypeOK
<1>2. tx_buf \o (tx_rbuf \o new) = (tx_buf \o tx_rbuf) \o new
  BY <1>1, NatConcat, SMTT(30) DEF TypeOK
<1>3. UNCHANGED <<wire, tx_buf, writes>>
  BY DEF SendWrite
<1>4. Backlog' = Backlog \o new
  BY <1>2, <1>3 DEF Backlog
<1>5. Len(Backlog) + n <= 2 * Capacity
  BY BacklogSeq, AsyncSerialAssumption
<1>6. n \in 1..(2 * Capacity)
  BY AsyncSerialAssumption
<1> QED BY <1>3, <1>4, <1>5, <1>6 DEF Pipe!PipeNext, Pipe!Accept, Backlog

(* The first m waiting bytes leave, the first n of those to the device.      *)
LEMMA PipeEmits ==
  ASSUME NEW m \in 1..Len(Backlog), NEW n \in 0..m, UNCHANGED accepted,
         wire' = wire \o SubSeq(Backlog, 1, n),
         Backlog' = SubSeq(Backlog, m + 1, Len(Backlog))
  PROVE  Pipe!PipeNext
BY DEF Pipe!PipeNext, Pipe!Emit, Backlog

(* Losing a prefix of what waits: nothing at all, the write in flight, or
   everything.                                                               *)
LEMMA PipeLoses ==
  ASSUME TypeOK, SizeInv, UNCHANGED <<accepted, wire>>, writes' = 0,
         tx_rbuf' = tx_rbuf \/ (writes = 0 /\ tx_rbuf' = <<>>)
  PROVE  [Pipe!PipeNext]_(Pipe!pipeVars)
<1>1. wire' = wire \o SubSeq(Backlog, 1, 0)
  BY ConcatEmptySeq, SubSeqEmpty DEF TypeOK
<1>2. Backlog' = tx_rbuf'
  BY DEF Backlog
<1>3. CASE Backlog' = Backlog
  BY <1>3 DEF Pipe!pipeVars, Backlog
<1>4. CASE writes > 0 /\ Len(tx_buf) > 0 /\ tx_rbuf' = tx_rbuf
  <2>1. Len(tx_buf) \in 1..Len(Backlog) /\ 0 \in 0..Len(tx_buf)
    BY <1>4, BacklogSeq DEF Backlog
  <2>2. Backlog = tx_buf \o tx_rbuf
    BY <1>4 DEF Backlog
  <2>3. SubSeq(Backlog, Len(tx_buf) + 1, Len(Backlog)) = tx_rbuf
    BY <2>2, ConcatRest DEF TypeOK
  <2> QED BY <1>1, <1>2, <1>4, <2>1, <2>3, PipeEmits
<1>5. CASE writes > 0 /\ Len(tx_buf) = 0 /\ tx_rbuf' = tx_rbuf
  <2>1. tx_buf = <<>>
    BY <1>5, EmptySeq DEF TypeOK
  <2>2. Backlog = tx_rbuf
    BY <1>5, <2>1, ConcatEmptySeq DEF Backlog, TypeOK
  <2> QED BY <1>2, <1>3, <1>5, <2>2
<1>6. CASE writes = 0 /\ tx_rbuf # <<>> /\ tx_rbuf' = <<>>
  <2>1. Backlog = tx_rbuf /\ Len(tx_rbuf) \in Nat \ {0}
    BY <1>6, EmptySeq DEF Backlog, TypeOK
  <2>2. Len(Backlog) \in 1..Len(Backlog) /\ 0 \in 0..Len(Backlog)
    BY <2>1
  <2>3. SubSeq(Backlog, Len(Backlog) + 1, Len(Backlog)) = <<>>
    BY <2>1, SubSeqEmpty
  <2> QED BY <1>1, <1>2, <1>6, <2>2, <2>3, PipeEmits
<1>7. writes \in Nat /\ Len(tx_buf) \in Nat
  BY BacklogSeq DEF TypeOK
<1>8. CASE writes = 0 /\ tx_rbuf' = tx_rbuf
  BY <1>2, <1>3, <1>8 DEF Backlog
<1>9. CASE writes = 0 /\ tx_rbuf = <<>> /\ tx_rbuf' = <<>>
  BY <1>8, <1>9
<1> QED BY <1>4, <1>5, <1>6, <1>7, <1>8, <1>9

LEMMA StepImplementsPipe ==
  ASSUME SerialInv, [Next]_vars
  PROVE  [Pipe!PipeNext]_(Pipe!pipeVars)
<1> DEFINE Step == [Pipe!PipeNext]_(Pipe!pipeVars)
<1>0. /\ TypeOK /\ SizeInv /\ OneWriteInv
      /\ stream = 0 => writes = 0
      /\ teardown # "none" => writes = 0
  BY DEF SerialInv, StreamInv
<1>1. ASSUME NEW c \in Callers, SendBytes(c) PROVE Step
  <2>1. CASE SendCheck(c) \/ SendQueueFull(c)
    BY <2>1, PipeStutters DEF SendCheck, SendQueueFull, txVars
  <2>2. CASE SendWrite(c)
    BY <1>0, <2>2, PipeAccepts
  <2> QED BY <1>1, <2>1, <2>2 DEF SendBytes
<1>2. CASE Open \/ OpenRefused \/ CloseIdle \/ CloseCall
  BY <1>2, PipeStutters DEF Open, OpenRefused, CloseIdle, CloseCall, txVars, sendVars
<1>3. CASE RunRead \/ RunWriteAborted \/ ReadEnds
  BY <1>3, PipeStutters DEF RunRead, RunWriteAborted, ReadEnds, txVars, sendVars
<1>4. CASE RunFail \/ RunClose
  BY <1>0, <1>4, PipeLoses DEF RunFail, HandleErrorClose, RunClose, CloseStream, sendVars
<1>5. CASE RunWrite \/ RunWriteDone
  <2>1. UNCHANGED <<accepted, wire>>
    BY <1>5 DEF RunWrite, RunWriteDone, sendVars
  <2>2. CASE UNCHANGED <<tx_rbuf, tx_buf, writes>>
    BY <2>1, <2>2, PipeStutters
  <2>3. CASE WriteRing(Tail(ioq)) /\ stream = 0
    <3>1. writes = 0 /\ writes' = 0 /\ tx_rbuf' = <<>>
      BY <1>0, <2>3 DEF WriteRing, ArmWrite
    <3> QED BY <1>0, <2>1, <3>1, PipeLoses
  <2>4. CASE WriteRing(Tail(ioq)) /\ stream # 0 /\ (tx_in_progress => Runs("writeDone"))
    <3>1. writes = 0
      <4>1. CASE ~tx_in_progress
        BY <1>0, <2>4, <4>1 DEF OneWriteInv
      <4>2. CASE Runs("writeDone")
        <5>1. Head(ioq) \in Writing /\ ioq # <<>>
          BY <4>2 DEF Runs, Writing
        <5> QED BY <1>0, <2>4, <5>1, NoneTail DEF OneWriteInv, TypeOK
      <4> QED BY <2>4, <4>1, <4>2
    <3>2. writes' = 1 /\ tx_rbuf' = <<>> /\ tx_buf' = tx_rbuf
      BY <2>4, <3>1 DEF WriteRing, ArmWrite
    <3>3. Backlog' = tx_rbuf /\ Backlog = tx_rbuf
      BY <1>0, <3>1, <3>2, ConcatEmptySeq DEF Backlog, TypeOK
    <3> QED BY <2>1, <3>3 DEF Backlog, Pipe!pipeVars
  <2> QED BY <1>5, <2>2, <2>3, <2>4 DEF RunWrite, RunWriteDone
<1>6. CASE HandleErrorReset
  BY <1>0, <1>6, PipeLoses DEF HandleErrorReset, sendVars
<1>7. CASE WriteFails
  <2>1. writes = 1
    BY <1>0, <1>7 DEF WriteFails, OneWriteInv, TypeOK
  <2> QED BY <1>0, <1>7, <2>1, PipeLoses DEF WriteFails, sendVars
<1>8. CASE WriteReady
  <2>1. writes = 1 /\ writes' = 0 /\ UNCHANGED <<tx_rbuf, accepted>>
    BY <1>0, <1>8 DEF WriteReady, OneWriteInv, TypeOK, sendVars
  <2>2. PICK n \in 1..Len(tx_buf) : wire' = wire \o SubSeq(tx_buf, 1, n)
    BY <1>8 DEF WriteReady
  <2>3. Backlog = tx_buf \o tx_rbuf /\ Backlog' = tx_rbuf
    BY <2>1 DEF Backlog
  <2>4. /\ n \in 1..Len(tx_buf) /\ Len(tx_buf) \in 1..Len(Backlog)
        /\ tx_buf \in Seq(Nat) /\ tx_rbuf \in Seq(Nat) /\ Len(tx_buf) \in 1..Len(tx_buf)
    BY <1>0, <2>2, <2>3, BacklogSeq DEF TypeOK
  <2>5. SubSeq(Backlog, 1, n) = SubSeq(tx_buf, 1, n)
    <3>1. 1 \in 1..Len(tx_buf)
      BY <2>4
    <3> QED BY <2>3, <2>4, <3>1, SubSeqOfConcat1
  <2>6. SubSeq(Backlog, Len(tx_buf) + 1, Len(Backlog)) = tx_rbuf
    BY <2>3, <2>4, ConcatRest
  <2>7. /\ n \in 0..Len(tx_buf) /\ UNCHANGED accepted
        /\ wire' = wire \o SubSeq(Backlog, 1, n)
        /\ Backlog' = SubSeq(Backlog, Len(tx_buf) + 1, Len(Backlog))
    BY <2>1, <2>2, <2>3, <2>4, <2>5, <2>6, SMTT(30)
  <2> QED BY <2>4, <2>7, PipeEmits
<1>9. CASE UNCHANGED vars
  BY <1>9, PipeStutters DEF vars
<1> QED
  BY <1>1, <1>2, <1>3, <1>4, <1>5, <1>6, <1>7, <1>8, <1>9 DEF Next, IoThread, Device

(* Every behaviour of the port is one of the pipe.                           *)
THEOREM PortImplementsPipe == Spec => ImplementsPipe
<1>1. Init => Pipe!PipeInit
  BY DEF Init, Pipe!PipeInit
<1>2. SerialInv /\ [Next]_vars => [Pipe!PipeNext]_(Pipe!pipeVars)
  BY StepImplementsPipe
<1> QED BY <1>1, <1>2, SerialInvariant, PTL DEF Spec, ImplementsPipe, Pipe!PipeSpec

-----------------------------------------------------------------------------
(* So bytes reach the device in the order SendBytes accepted them.           *)

Increasing(s) == \A i, j \in 1..Len(s) : i < j => s[i] < s[j]
Before(s, t) == \A i \in 1..Len(s), j \in 1..Len(t) : s[i] < t[j]
UpTo(s, n) == \A i \in 1..Len(s) : s[i] <= n

\* What was sent is older than what waits, and all of it was accepted.
BytesOrdered ==
  /\ Increasing(wire) /\ Increasing(Backlog)
  /\ Before(wire, Backlog)
  /\ UpTo(wire, accepted) /\ UpTo(Backlog, accepted)

LEMMA IncreasingConcat ==
  ASSUME NEW s \in Seq(Nat), NEW t \in Seq(Nat), Increasing(s), Increasing(t), Before(s, t)
  PROVE  /\ Increasing(s \o t)
         /\ \A u \in Seq(Nat) : Before(s, u) /\ Before(t, u) => Before(s \o t, u)
         /\ \A u \in Seq(Nat) : Before(u, s) /\ Before(u, t) => Before(u, s \o t)
         /\ \A n : UpTo(s, n) /\ UpTo(t, n) => UpTo(s \o t, n)
<1>1. /\ Len(s) \in Nat /\ Len(t) \in Nat
      /\ Len(s \o t) = Len(s) + Len(t)
      /\ \A i \in 1..Len(s) + Len(t) :
           (s \o t)[i] = IF i <= Len(s) THEN s[i] ELSE t[i - Len(s)]
  BY ConcatProperties, LenProperties
<1>2. \A i \in 1..Len(s \o t) :
        \/ i \in 1..Len(s) /\ (s \o t)[i] = s[i]
        \/ i - Len(s) \in 1..Len(t) /\ i > Len(s) /\ (s \o t)[i] = t[i - Len(s)]
  BY <1>1
<1>3. Increasing(s \o t)
  <2> SUFFICES ASSUME NEW i \in 1..Len(s \o t), NEW j \in 1..Len(s \o t), i < j
               PROVE  (s \o t)[i] < (s \o t)[j]
    BY DEF Increasing
  <2>1. CASE i \in 1..Len(s) /\ j \in 1..Len(s)
    BY <1>1, <2>1 DEF Increasing
  <2>2. CASE i \in 1..Len(s) /\ j - Len(s) \in 1..Len(t) /\ j > Len(s)
    BY <1>1, <2>2 DEF Before
  <2>3. CASE i - Len(s) \in 1..Len(t) /\ i > Len(s) /\ j - Len(s) \in 1..Len(t)
    <3>1. (s \o t)[i] = t[i - Len(s)] /\ (s \o t)[j] = t[j - Len(s)] /\ i - Len(s) < j - Len(s)
      BY <1>1, <2>3
    <3> QED BY <2>3, <3>1 DEF Increasing
  <2> QED BY <1>1, <1>2, <2>1, <2>2, <2>3
<1>4. \A u \in Seq(Nat) : Before(s, u) /\ Before(t, u) => Before(s \o t, u)
  BY <1>2 DEF Before
<1>5. \A u \in Seq(Nat) : Before(u, s) /\ Before(u, t) => Before(u, s \o t)
  BY <1>2 DEF Before
<1>6. \A n : UpTo(s, n) /\ UpTo(t, n) => UpTo(s \o t, n)
  BY <1>2 DEF UpTo
<1> QED BY <1>3, <1>4, <1>5, <1>6

(* Cutting an increasing sequence in two.                                    *)
LEMMA IncreasingCut ==
  ASSUME NEW s \in Seq(Nat), Increasing(s), NEW m \in 0..Len(s), NEW n \in 0..m
  PROVE  LET first == SubSeq(s, 1, n)
             rest == SubSeq(s, m + 1, Len(s))
         IN  /\ first \in Seq(Nat) /\ rest \in Seq(Nat)
             /\ Increasing(first) /\ Increasing(rest) /\ Before(first, rest)
             /\ \A u \in Seq(Nat) : Before(u, s) => Before(u, first) /\ Before(u, rest)
             /\ \A k : UpTo(s, k) => UpTo(first, k) /\ UpTo(rest, k)
<1> DEFINE first == SubSeq(s, 1, n)
           rest == SubSeq(s, m + 1, Len(s))
<1>1. Len(s) \in Nat /\ \A i \in 1..Len(s) : s[i] \in Nat
  BY LenProperties, ElementOfSeq
<1>2. /\ first \in Seq(Nat) /\ Len(first) = n
      /\ \A i \in 1..n : i \in 1..Len(s) /\ first[i] = s[i]
  <2>1. n \in Int /\ 1 \in Int /\ (\A i \in 1..n : s[i] \in Nat) /\ n - 1 + 1 = n
        /\ \A i \in 1..n : i \in 1..Len(s) /\ 1 + i - 1 = i
    BY <1>1
  <2>2. /\ SubSeq(s, 1, n) \in Seq(Nat)
        /\ Len(SubSeq(s, 1, n)) = IF 1 <= n THEN n - 1 + 1 ELSE 0
        /\ \A i \in 1..(n - 1 + 1) : SubSeq(s, 1, n)[i] = s[1 + i - 1]
    BY <2>1, SubSeqProperties
  <2> QED BY <2>1, <2>2
<1>3. /\ rest \in Seq(Nat) /\ Len(rest) = Len(s) - m
      /\ \A i \in 1..(Len(s) - m) : m + i \in 1..Len(s) /\ rest[i] = s[m + i]
  <2>1. /\ m + 1 \in Int /\ Len(s) \in Int /\ \A i \in (m + 1)..Len(s) : s[i] \in Nat
        /\ Len(s) - (m + 1) + 1 = Len(s) - m
        /\ \A i \in 1..(Len(s) - m) : m + i \in 1..Len(s) /\ (m + 1) + i - 1 = m + i
    BY <1>1
  <2>2. /\ SubSeq(s, m + 1, Len(s)) \in Seq(Nat)
        /\ Len(SubSeq(s, m + 1, Len(s))) = IF m + 1 <= Len(s) THEN Len(s) - (m + 1) + 1 ELSE 0
        /\ \A i \in 1..(Len(s) - (m + 1) + 1) :
             SubSeq(s, m + 1, Len(s))[i] = s[(m + 1) + i - 1]
    BY <2>1, SubSeqProperties
  <2>3. Len(rest) = Len(s) - m
    BY <1>1, <2>2
  <2>4. \A i \in 1..(Len(s) - m) : rest[i] = s[m + i]
    BY <2>1, <2>2
  <2> QED BY <2>1, <2>2, <2>3, <2>4
<1> HIDE DEF first, rest
<1>4. Increasing(first) /\ Increasing(rest) /\ Before(first, rest)
  <2>1. Increasing(first)
    BY <1>2 DEF Increasing
  <2>2. Increasing(rest)
    <3> SUFFICES ASSUME NEW i \in 1..(Len(s) - m), NEW j \in 1..(Len(s) - m), i < j
                 PROVE  s[m + i] < s[m + j]
      BY <1>3 DEF Increasing
    <3>1. m + i < m + j /\ m + i \in 1..Len(s) /\ m + j \in 1..Len(s)
      BY <1>1
    <3> QED BY <3>1 DEF Increasing
  <2>3. Before(first, rest)
    <3> SUFFICES ASSUME NEW i \in 1..n, NEW j \in 1..(Len(s) - m)
                 PROVE  s[i] < s[m + j]
      BY <1>2, <1>3 DEF Before
    <3>1. i < m + j /\ i \in 1..Len(s) /\ m + j \in 1..Len(s)
      BY <1>1
    <3> QED BY <3>1 DEF Increasing
  <2> QED BY <2>1, <2>2, <2>3
<1>5. \A u \in Seq(Nat) : Before(u, s) => Before(u, first) /\ Before(u, rest)
  BY <1>2, <1>3 DEF Before
<1>6. \A k : UpTo(s, k) => UpTo(first, k) /\ UpTo(rest, k)
  BY <1>2, <1>3 DEF UpTo
<1> QED BY <1>2, <1>3, <1>4, <1>5, <1>6 DEF first, rest

(* The bytes of a message are new.                                           *)
LEMMA NewBytes ==
  ASSUME NEW n \in Nat, NEW a \in Nat
  PROVE  LET new == [i \in 1..n |-> a + i]
         IN  /\ new \in Seq(Nat) /\ Increasing(new) /\ UpTo(new, a + n)
             /\ \A s \in Seq(Nat) : UpTo(s, a) => Before(s, new) /\ UpTo(s, a + n)
<1> DEFINE new == [i \in 1..n |-> a + i]
<1>1. new \in Seq(Nat) /\ Len(new) = n /\ \A i \in 1..n : new[i] = a + i
  OBVIOUS
<1> HIDE DEF new
<1>2. Increasing(new) /\ UpTo(new, a + n)
  BY <1>1 DEF Increasing, UpTo
<1>3. ASSUME NEW s \in Seq(Nat), UpTo(s, a) PROVE Before(s, new) /\ UpTo(s, a + n)
  <2>1. \A i \in 1..Len(s) : s[i] \in Nat /\ s[i] <= a
    BY <1>3, ElementOfSeq DEF UpTo
  <2>2. ASSUME NEW i \in 1..Len(s), NEW j \in 1..Len(new) PROVE s[i] < new[j]
    <3>1. j \in 1..n /\ new[j] = a + j
      BY <1>1
    <3> QED BY <2>1, <3>1
  <2>3. \A i \in 1..Len(s) : s[i] <= a + n
    BY <2>1
  <2> QED BY <2>2, <2>3 DEF Before, UpTo
<1> QED BY <1>1, <1>2, <1>3 DEF new

LEMMA NextOrder ==
  ASSUME SerialInv, BytesOrdered, [Next]_vars
  PROVE  BytesOrdered'
<1>1. [Pipe!PipeNext]_(Pipe!pipeVars)
  BY StepImplementsPipe
<1>2. Backlog \in Seq(Nat) /\ wire \in Seq(Nat) /\ accepted \in Nat
  BY BacklogSeq DEF SerialInv, TypeOK
<1>3. CASE UNCHANGED Pipe!pipeVars
  BY <1>3 DEF Pipe!pipeVars, BytesOrdered, Backlog
<1>4. ASSUME NEW n \in 1..(2 * Capacity), Pipe!Accept(n) PROVE BytesOrdered'
  <2>1. n \in Nat
    BY AsyncSerialAssumption
  <2>2. /\ wire' = wire /\ accepted' = accepted + n
        /\ Backlog' = Backlog \o [i \in 1..n |-> accepted + i]
    BY <1>4 DEF Pipe!Accept, Backlog
  <2> DEFINE new == [i \in 1..n |-> accepted + i]
  <2>3. /\ new \in Seq(Nat) /\ Increasing(new) /\ UpTo(new, accepted + n)
        /\ Before(Backlog, new) /\ UpTo(Backlog, accepted + n)
        /\ Before(wire, new) /\ UpTo(wire, accepted + n)
    BY <1>2, <2>1, NewBytes DEF BytesOrdered
  <2>4. Backlog' = Backlog \o new
    BY <2>2
  <2> HIDE DEF new
  <2>5. Increasing(Backlog') /\ Before(wire, Backlog') /\ UpTo(Backlog', accepted + n)
    BY <1>2, <2>3, <2>4, IncreasingConcat DEF BytesOrdered
  <2> QED BY <2>2, <2>3, <2>5 DEF BytesOrdered
<1>5. ASSUME NEW m \in 1..Len(Backlog), NEW n \in 0..m, UNCHANGED accepted,
             wire' = wire \o SubSeq(Backlog, 1, n),
             Backlog' = SubSeq(Backlog, m + 1, Len(Backlog))
      PROVE  BytesOrdered'
  <2> DEFINE first == SubSeq(Backlog, 1, n)
             rest == SubSeq(Backlog, m + 1, Len(Backlog))
  <2>1. m \in 0..Len(Backlog)
    BY <1>2, LenProperties
  <2>2. /\ first \in Seq(Nat) /\ rest \in Seq(Nat)
        /\ Increasing(first) /\ Increasing(rest) /\ Before(first, rest)
        /\ Before(wire, first) /\ Before(wire, rest)
        /\ UpTo(first, accepted) /\ UpTo(rest, accepted)
    BY <1>2, <2>1, IncreasingCut DEF BytesOrdered
  <2>3. wire' = wire \o first /\ Backlog' = rest
    BY <1>5
  <2> HIDE DEF first, rest
  <2>4. Increasing(wire \o first) /\ Before(wire \o first, rest) /\ UpTo(wire \o first, accepted)
    BY <1>2, <2>2, IncreasingConcat DEF BytesOrdered
  <2> QED BY <1>5, <2>2, <2>3, <2>4 DEF BytesOrdered
<1>6. CASE Pipe!Emit
  BY <1>5, <1>6 DEF Pipe!Emit, Backlog
<1> QED BY <1>1, <1>3, <1>4, <1>6 DEF Pipe!PipeNext

(* A byte reaches the device at most once, and no byte overtakes another,
   whatever is closed, aborted or lost in between.                           *)
THEOREM BytesInOrder == Spec => []Increasing(wire)
<1>1. Init => BytesOrdered
  <2> SUFFICES ASSUME Init PROVE BytesOrdered
    OBVIOUS
  <2>1. Len(wire) = 0 /\ Len(Backlog) = 0
    BY DEF Init, Backlog
  <2> QED BY <2>1 DEF BytesOrdered, Increasing, Before, UpTo
<1>2. SerialInv /\ BytesOrdered /\ [Next]_vars => BytesOrdered'
  BY NextOrder
<1>3. BytesOrdered => Increasing(wire)
  BY DEF BytesOrdered
<1> QED BY <1>1, <1>2, <1>3, SerialInvariant, PTL DEF Spec

-----------------------------------------------------------------------------
(* The loops of Write and Read, as FoldLeft defines them.                    *)

(* Write's loop, one item after the other.                                   *)
PutTurns(h, S, r, data, n) ==
  /\ h \in [0..n -> S]
  /\ h[0] = r
  /\ \A k \in 1..n : h[k] = Put(h[k - 1], data[k])
  /\ FoldLeft(Put, r, data) = h[n]

LEMMA PutFold ==
  ASSUME NEW S, NEW r \in S, NEW data, NEW n \in Nat, DOMAIN data = 1..n,
         \A p \in S, i \in 1..n : Put(p, data[i]) \in S
  PROVE  \E h : PutTurns(h, S, r, data, n)
<1> DEFINE step == [p \in S \X (1..n) |-> Put(p[1], data[p[2]])]
           It(f) == f = [s \in SUBSET (1..n) |->
                          IF s = {} THEN r ELSE Put(f[s \ {Max(s)}], data[Max(s)])]
           iter == CHOOSE f : It(f)
<1>1. step \in [S \X (1..n) -> S]
  OBVIOUS
<1>2. PICK g : FoldsTo(g, S, r, step, n)
  BY <1>1, FoldExists
<1>3. It(g)
  <2>1. ASSUME NEW s \in SUBSET (1..n)
        PROVE  g[s] = IF s = {} THEN r ELSE Put(g[s \ {Max(s)}], data[Max(s)])
    <3>1. CASE s = {}
      BY <1>2, <3>1 DEF FoldsTo
    <3>2. CASE s # {}
      <4>1. Max(s) \in 1..n
        BY <3>2, MaxIs
      <4>2. g[s \ {Max(s)}] \in S
        BY <1>2 DEF FoldsTo
      <4>3. step[<<g[s \ {Max(s)}], Max(s)>>] = Put(g[s \ {Max(s)}], data[Max(s)])
        BY <4>1, <4>2
      <4>4. g[s] = step[<<g[s \ {Max(s)}], Max(s)>>]
        BY <1>2, <3>2 DEF FoldsTo
      <4> QED BY <3>2, <4>3, <4>4
    <3> QED BY <3>1, <3>2
  <2>2. g = [s \in SUBSET (1..n) |-> g[s]]
    BY <1>2 DEF FoldsTo
  <2> QED BY <2>1, <2>2
<1>4. It(iter)
  <2> HIDE DEF It
  <2> QED BY <1>3
<1>5. FoldLeft(Put, r, data) = iter[1..n]
  BY DEF FoldLeft, MapThenFoldSet
<1> HIDE DEF iter
<1>6. iter[{}] = r
  BY <1>4
<1>7. \A s \in SUBSET (1..n) : s # {} /\ iter[s \ {Max(s)}] \in S =>
                               iter[s] = step[<<iter[s \ {Max(s)}], Max(s)>>]
  <2> SUFFICES ASSUME NEW s \in SUBSET (1..n), s # {}, iter[s \ {Max(s)}] \in S
               PROVE  iter[s] = step[<<iter[s \ {Max(s)}], Max(s)>>]
    OBVIOUS
  <2>1. Max(s) \in 1..n
    BY MaxIs
  <2>2. iter[s] = Put(iter[s \ {Max(s)}], data[Max(s)])
    BY <1>4
  <2> QED BY <2>1, <2>2
<1> HIDE DEF It
<1>8. Folding(iter, S, r, step, n)
  BY <1>6, <1>7 DEF Folding
<1>9. PICK h : FoldTurns(h, iter, S, r, step, n)
  <2> HIDE DEF step
  <2> QED BY <1>1, <1>8, FoldSteps
<1>10. \A k \in 1..n : h[k] = Put(h[k - 1], data[k])
  <2> TAKE k \in 1..n
  <2>1. k - 1 \in 0..n /\ h[k - 1] \in S
    BY <1>9 DEF FoldTurns
  <2>2. step[<<h[k - 1], k>>] = Put(h[k - 1], data[k])
    BY <2>1
  <2> QED BY <1>9, <2>2 DEF FoldTurns
<1> QED BY <1>5, <1>9, <1>10 DEF FoldTurns, PutTurns

(* Read's loop, one turn after the other.                                    *)
TakeTurns(h, S, r, data, n) ==
  /\ h \in [0..n -> S]
  /\ h[0] = r
  /\ \A k \in 1..n : h[k] = Take(h[k - 1], data[k])
  /\ FoldLeft(Take, r, data) = h[n]

LEMMA TakeFold ==
  ASSUME NEW S, NEW r \in S, NEW data, NEW n \in Nat, DOMAIN data = 1..n,
         \A p \in S, i \in 1..n : Take(p, data[i]) \in S
  PROVE  \E h : TakeTurns(h, S, r, data, n)
<1> DEFINE step == [p \in S \X (1..n) |-> Take(p[1], data[p[2]])]
           It(f) == f = [s \in SUBSET (1..n) |->
                          IF s = {} THEN r ELSE Take(f[s \ {Max(s)}], data[Max(s)])]
           iter == CHOOSE f : It(f)
<1>1. step \in [S \X (1..n) -> S]
  OBVIOUS
<1>2. PICK g : FoldsTo(g, S, r, step, n)
  BY <1>1, FoldExists
<1>3. It(g)
  <2>1. ASSUME NEW s \in SUBSET (1..n)
        PROVE  g[s] = IF s = {} THEN r ELSE Take(g[s \ {Max(s)}], data[Max(s)])
    <3>1. CASE s = {}
      BY <1>2, <3>1 DEF FoldsTo
    <3>2. CASE s # {}
      <4>1. Max(s) \in 1..n
        BY <3>2, MaxIs
      <4>2. g[s \ {Max(s)}] \in S
        BY <1>2 DEF FoldsTo
      <4>3. step[<<g[s \ {Max(s)}], Max(s)>>] = Take(g[s \ {Max(s)}], data[Max(s)])
        BY <4>1, <4>2
      <4>4. g[s] = step[<<g[s \ {Max(s)}], Max(s)>>]
        BY <1>2, <3>2 DEF FoldsTo
      <4> QED BY <3>2, <4>3, <4>4
    <3> QED BY <3>1, <3>2
  <2>2. g = [s \in SUBSET (1..n) |-> g[s]]
    BY <1>2 DEF FoldsTo
  <2> QED BY <2>1, <2>2
<1>4. It(iter)
  <2> HIDE DEF It
  <2> QED BY <1>3
<1>5. FoldLeft(Take, r, data) = iter[1..n]
  BY DEF FoldLeft, MapThenFoldSet
<1> HIDE DEF iter
<1>6. iter[{}] = r
  BY <1>4
<1>7. \A s \in SUBSET (1..n) : s # {} /\ iter[s \ {Max(s)}] \in S =>
                               iter[s] = step[<<iter[s \ {Max(s)}], Max(s)>>]
  <2> SUFFICES ASSUME NEW s \in SUBSET (1..n), s # {}, iter[s \ {Max(s)}] \in S
               PROVE  iter[s] = step[<<iter[s \ {Max(s)}], Max(s)>>]
    OBVIOUS
  <2>1. Max(s) \in 1..n
    BY MaxIs
  <2>2. iter[s] = Take(iter[s \ {Max(s)}], data[Max(s)])
    BY <1>4
  <2> QED BY <2>1, <2>2
<1> HIDE DEF It
<1>8. Folding(iter, S, r, step, n)
  BY <1>6, <1>7 DEF Folding
<1>9. PICK h : FoldTurns(h, iter, S, r, step, n)
  <2> HIDE DEF step
  <2> QED BY <1>1, <1>8, FoldSteps
<1>10. \A k \in 1..n : h[k] = Take(h[k - 1], data[k])
  <2> TAKE k \in 1..n
  <2>1. k - 1 \in 0..n /\ h[k - 1] \in S
    BY <1>9 DEF FoldTurns
  <2>2. step[<<h[k - 1], k>>] = Take(h[k - 1], data[k])
    BY <2>1
  <2> QED BY <1>9, <2>2 DEF FoldTurns
<1> QED BY <1>5, <1>9, <1>10 DEF FoldTurns, TakeTurns

-----------------------------------------------------------------------------
(* The ring's indices.                                                       *)

LEMMA TurnsOfTheRing ==
  /\ N \in Nat \ {0}
  /\ Words \in Nat \ {0}
  /\ N < Words
  /\ \E k \in Int : Words = N * k
<1>1. Words % N = 0 /\ N \in Nat \ {0} /\ Words \in Nat /\ N < Words
  BY RingBufferAssumption
<1>2. Words = N * (Words \div N) + (Words % N) /\ Words \div N \in Int
  BY <1>1, ModDiv
<1>3. PICK k \in Int : k = Words \div N
  BY <1>2
<1>4. Words = N * k
  BY <1>1, <1>2, <1>3
<1> QED BY <1>1, <1>4

\* Masking a wrapped index is masking the one that never wraps.
LEMMA Masked ==
  ASSUME NEW x \in Int
  PROVE  (x % Words) % N = x % N /\ x % Words \in 0..(Words - 1) /\ x % N \in 0..(N - 1)
<1>1. N \in Nat \ {0} /\ Words \in Nat \ {0}
  BY TurnsOfTheRing
<1>2. PICK k \in Int : Words = N * k
  BY TurnsOfTheRing
<1>3. /\ x % Words \in 0..(Words - 1) /\ x \div Words \in Int
      /\ x = Words * (x \div Words) + (x % Words)
  BY <1>1, ModDiv
<1>4. PICK m \in Int, q \in Int : m = x % Words /\ q = x \div Words
  BY <1>3, <1>1
<1>5. x = (N * k) * q + m
  BY <1>2, <1>3, <1>4
<1>6. (N * k) * q = N * (k * q) /\ k * q \in Int /\ N * (k * q) \in Int
  BY <1>1
<1>7. x = m + N * (k * q)
  BY <1>5, <1>6
<1>8. x % N = m % N
  BY <1>1, <1>6, <1>7, ModShift
<1>9. x % N \in 0..(N - 1)
  BY <1>1, ModDiv
<1> QED BY <1>3, <1>4, <1>8, <1>9

LEMMA MaskedSum ==
  ASSUME NEW x \in Int, NEW y \in Int
  PROVE  ((x % Words) + y) % N = (x + y) % N
<1>1. N \in Nat \ {0} /\ Words \in Nat \ {0}
  BY TurnsOfTheRing
<1>2. PICK k \in Int : Words = N * k
  BY TurnsOfTheRing
<1>3. /\ x % Words \in 0..(Words - 1) /\ x \div Words \in Int
      /\ x = Words * (x \div Words) + (x % Words)
  BY <1>1, ModDiv
<1>4. PICK m \in Int, q \in Int : m = x % Words /\ q = x \div Words
  BY <1>3, <1>1
<1>5. x = (N * k) * q + m
  BY <1>2, <1>3, <1>4
<1>6. (N * k) * q = N * (k * q) /\ k * q \in Int /\ N * (k * q) \in Int
  BY <1>1
<1>7. x + y = (m + y) + N * (k * q) /\ m + y \in Int
  BY <1>5, <1>6
<1>8. (x + y) % N = (m + y) % N
  <2>1. ((m + y) + N * (k * q)) % N = (m + y) % N
    BY <1>1, <1>6, <1>7, ModShift
  <2> QED BY <1>7, <2>1
<1> QED BY <1>4, <1>8

\* Two of the N slots after an index are different.
LEMMA SlotsDiffer ==
  ASSUME NEW x \in Int, NEW i \in 0..(N - 1), NEW j \in 0..(N - 1), i # j
  PROVE  (x + i) % N # (x + j) % N
<1>1. N \in Nat \ {0}
  BY TurnsOfTheRing
<1>2. i \in 0..N /\ j \in 0..N
  BY <1>1
<1>3. x % N \in 0..(N - 1)
  BY <1>1, ModDiv
<1>4. PICK m \in 0..(N - 1) : m = x % N
  BY <1>3
<1>5. (x + i) % N = IF m + i < N THEN m + i ELSE m + i - N
  BY <1>1, <1>2, <1>4, ModStep
<1>6. (x + j) % N = IF m + j < N THEN m + j ELSE m + j - N
  BY <1>1, <1>2, <1>4, ModStep
<1> QED BY <1>1, <1>5, <1>6

\* How far an index has come from where it was.
LEMMA Advance ==
  ASSUME NEW x \in 0..(Words - 1), NEW d \in 0..(Words - 1)
  PROVE  (((x + d) % Words) - x) % Words = d
<1>1. Words \in Nat \ {0}
  BY TurnsOfTheRing
<1>2. CASE x + d < Words
  <2>1. (x + d) % Words = x + d
    BY <1>1, <1>2
  <2>2. (x + d) - x = d /\ d % Words = d
    BY <1>1
  <2> QED BY <2>1, <2>2
<1>3. CASE ~(x + d < Words)
  <2>1. (x + d) % Words = x + d - Words
    BY <1>1, <1>3
  <2>2. (x + d - Words) - x = d - Words /\ d - Words \in Int /\ (d - Words) + Words * 1 = d
    BY <1>1
  <2>3. ((d - Words) + Words * 1) % Words = (d - Words) % Words
    BY <1>1, <2>2, ModShift
  <2>4. d % Words = d
    BY <1>1
  <2> QED BY <2>1, <2>2, <2>3, <2>4
<1> QED BY <1>2, <1>3

\* The indices of the ring agree, IndicesAgree of a ring.
RingOK(r) == r \in Rings /\ (r.write - r.read) % Words < N

\* What a ring holds, in order: Unread of RingBuffer for any ring.
Kept(r) == [i \in 1..Occupied(r) |-> r.buffer[(r.read + i - 1) % N]]

LEMMA OccupiedIs ==
  ASSUME NEW r, RingOK(r)
  PROVE  /\ Occupied(r) = (r.write - r.read) % Words
         /\ Occupied(r) \in 0..(N - 1)
         /\ r.write = (r.read + Occupied(r)) % Words
         /\ r.write % N = (r.read + Occupied(r)) % N
<1>1. N \in Nat \ {0} /\ Words \in Nat \ {0}
  BY TurnsOfTheRing
<1>2. PICK w \in 0..(Words - 1), x \in 0..(Words - 1) : w = r.write /\ x = r.read
  BY DEF RingOK, Rings
<1>3. (w - x) % Words \in 0..(Words - 1) /\ (w - x) % Words < N
  <2>1. w - x \in Int
    OBVIOUS
  <2> QED BY <1>1, <1>2, <2>1, ModDiv DEF RingOK
<1>4. PICK d \in 0..(N - 1) : d = (w - x) % Words
  BY <1>1, <1>3
<1>5. d % N = d
  BY <1>1
<1>6. Occupied(r) = d
  BY <1>2, <1>4, <1>5 DEF Occupied
<1>7. d = IF w >= x THEN w - x ELSE w - x + Words
  BY <1>1, <1>4
<1>8. (x + d) % Words = w
  BY <1>1, <1>7
<1>9. w % N = (x + d) % N
  BY <1>8, Masked
<1> QED BY <1>2, <1>4, <1>6, <1>8, <1>9

LEMMA OccupiedBy ==
  ASSUME NEW x \in 0..(Words - 1), NEW d \in 0..(N - 1),
         NEW b \in [0..(N - 1) -> Items], NEW r,
         r = [buffer |-> b, write |-> (x + d) % Words, read |-> x]
  PROVE  RingOK(r) /\ Occupied(r) = d
<1>1. N \in Nat \ {0} /\ Words \in Nat \ {0} /\ d \in 0..(Words - 1)
  BY TurnsOfTheRing
<1>2. (((x + d) % Words) - x) % Words = d
  BY <1>1, Advance
<1>3. (x + d) % Words \in 0..(Words - 1)
  BY Masked
<1>4. d % N = d
  BY <1>1
<1>5. r \in Rings
  BY <1>3 DEF Rings
<1> QED BY <1>1, <1>2, <1>4, <1>5 DEF RingOK, Occupied

LEMMA FullIs ==
  ASSUME NEW r, RingOK(r)
  PROVE  /\ Full(r) <=> Occupied(r) = N - 1
         /\ Empty(r) <=> Occupied(r) = 0
<1>1. N \in Nat \ {0} /\ Words \in Nat \ {0}
  BY TurnsOfTheRing
<1>2. PICK w \in 0..(Words - 1), x \in 0..(Words - 1) : w = r.write /\ x = r.read
  BY DEF RingOK, Rings
<1>3. PICK d \in 0..(N - 1) : d = Occupied(r)
  BY OccupiedIs
<1>4. w = (x + d) % Words
  BY <1>2, <1>3, OccupiedIs
<1>5. After(w) % N = (x + (d + 1)) % N
  <2>1. ((w + 1) % Words) % N = (w + 1) % N
    BY Masked
  <2>2. (((x + d) % Words) + 1) % N = ((x + d) + 1) % N
    BY MaskedSum
  <2>3. (x + d) + 1 = x + (d + 1)
    OBVIOUS
  <2> QED BY <1>4, <2>1, <2>2, <2>3 DEF After
<1>6. PICK m \in 0..(N - 1) : m = x % N
  BY Masked
<1>7. (x + (d + 1)) % N = IF m + (d + 1) < N THEN m + (d + 1) ELSE m + (d + 1) - N
  <2>1. d + 1 \in 0..N /\ x \in Int
    BY <1>1
  <2> QED BY <1>1, <1>6, <2>1, ModStep
<1>8. Full(r) <=> d = N - 1
  BY <1>1, <1>2, <1>5, <1>6, <1>7 DEF Full
<1>9. w = IF x + d < Words THEN x + d ELSE x + d - Words
  BY <1>1, <1>4, TurnsOfTheRing
<1>10. x = w <=> d = 0
  BY <1>1, <1>9, TurnsOfTheRing
<1> QED BY <1>2, <1>3, <1>8, <1>10 DEF Empty

\* What a ring holds is a sequence.
LEMMA KeptIs ==
  ASSUME NEW r, RingOK(r)
  PROVE  /\ Kept(r) \in Seq(Items)
         /\ Len(Kept(r)) = Occupied(r)
         /\ \A i \in 1..Occupied(r) : Kept(r)[i] = r.buffer[(r.read + i - 1) % N]
<1>1. PICK d \in 0..(N - 1) : d = Occupied(r)
  BY OccupiedIs
<1>2. d \in Nat
  BY TurnsOfTheRing
<1>3. PICK b \in [0..(N - 1) -> Items], x \in 0..(Words - 1) : b = r.buffer /\ x = r.read
  BY DEF RingOK, Rings
<1>4. \A i \in 1..d : b[(x + i - 1) % N] \in Items
  <2> TAKE i \in 1..d
  <2>1. x + i - 1 \in Int
    BY <1>2
  <2>2. (x + i - 1) % N \in 0..(N - 1)
    BY <2>1, Masked
  <2> QED BY <2>2
<1>5. Kept(r) = [i \in 1..d |-> b[(x + i - 1) % N]]
  BY <1>1, <1>3 DEF Kept
<1> QED BY <1>1, <1>2, <1>3, <1>4, <1>5

\* An item written to a ring that has room for it.
LEMMA PutRoom ==
  ASSUME NEW r, RingOK(r), NEW item \in Items, ~Full(r)
  PROVE  /\ RingOK(Put(r, item))
         /\ Put(r, item).read = r.read
         /\ Put(r, item).write = (r.write + 1) % Words
         /\ Kept(Put(r, item)) = Append(Kept(r), item)
<1> DEFINE q == Put(r, item)
<1>1. N \in Nat \ {0} /\ Words \in Nat \ {0}
  BY TurnsOfTheRing
<1>2. PICK b \in [0..(N - 1) -> Items], w \in 0..(Words - 1), x \in 0..(Words - 1) :
         b = r.buffer /\ w = r.write /\ x = r.read
  BY DEF RingOK, Rings
<1>3. PICK d \in 0..(N - 1) : d = Occupied(r)
  BY OccupiedIs
<1>4. d < N - 1 /\ d + 1 \in 0..(N - 1) /\ d + 1 <= N - 1
  BY <1>1, <1>3, FullIs
<1> x \in Int /\ d \in Int /\ x + d \in Int
  BY <1>1
<1>5. w = (x + d) % Words /\ w % N = (x + d) % N
  BY <1>2, <1>3, OccupiedIs
<1>6. (w + 1) % Words = (x + (d + 1)) % Words
  <2>1. (((x + d) % Words) + 1) % Words = ((x + d) + 1) % Words
    BY <1>1, ModSum, 1 \in Int
  <2>2. (x + d) + 1 = x + (d + 1)
    OBVIOUS
  <2> QED BY <1>5, <2>1, <2>2
<1> DEFINE c == [b EXCEPT ![(x + d) % N] = item]
<1>7. (x + d) % N \in 0..(N - 1)
  BY Masked
<1>8. c \in [0..(N - 1) -> Items] /\ c[(x + d) % N] = item
  BY <1>7
<1>9. \A j \in 0..(N - 1) : j # (x + d) % N => c[j] = b[j]
  OBVIOUS
<1>10. q = [buffer |-> c, write |-> (x + (d + 1)) % Words, read |-> x]
  BY <1>2, <1>5, <1>6 DEF Put, After
<1> HIDE DEF c, q
<1>11. RingOK(q) /\ Occupied(q) = d + 1
  BY <1>4, <1>8, <1>10, OccupiedBy
<1>12. q.read = x /\ q.write = (x + (d + 1)) % Words /\ q.buffer = c
  BY <1>10
<1>13. /\ Kept(q) \in Seq(Items)
       /\ Len(Kept(q)) = d + 1
       /\ \A i \in 1..(d + 1) : Kept(q)[i] = c[(x + i - 1) % N]
  BY <1>11, <1>12, KeptIs
<1>14. /\ Kept(r) \in Seq(Items)
       /\ Len(Kept(r)) = d
       /\ \A i \in 1..d : Kept(r)[i] = b[(x + i - 1) % N]
  BY <1>2, <1>3, KeptIs
<1>15. ASSUME NEW i \in 1..(d + 1) PROVE Kept(q)[i] = Append(Kept(r), item)[i]
  <2>1. Kept(q)[i] = c[(x + i - 1) % N]
    BY <1>13
  <2>2. CASE i = d + 1
    <3>1. x + i - 1 = x + d
      BY <2>2
    <3> QED BY <1>8, <1>14, <2>1, <2>2, <3>1
  <2>3. CASE i # d + 1
    <3>1. i \in 1..d /\ i - 1 \in 0..(N - 1) /\ i - 1 # d
          /\ x + (i - 1) = x + i - 1 /\ x + i - 1 \in Int
      BY <1>1, <1>4, <2>3
    <3>2. (x + (i - 1)) % N # (x + d) % N
      BY <3>1, SlotsDiffer
    <3>3. (x + i - 1) % N \in 0..(N - 1)
      BY <3>1, Masked
    <3>4. c[(x + i - 1) % N] = b[(x + i - 1) % N]
      BY <1>9, <3>1, <3>2, <3>3
    <3>5. Kept(r)[i] = b[(x + i - 1) % N] /\ Append(Kept(r), item)[i] = Kept(r)[i]
      BY <1>14, <3>1
    <3> QED BY <2>1, <3>4, <3>5
  <2> QED BY <2>2, <2>3
<1>16. Kept(q) = Append(Kept(r), item)
  <2>1. Append(Kept(r), item) \in Seq(Items) /\ Len(Append(Kept(r), item)) = d + 1
    BY <1>14
  <2> QED BY <1>13, <1>15, <2>1
<1> QED BY <1>2, <1>6, <1>11, <1>12, <1>16 DEF q

\* An item written over the oldest one.
LEMMA PutOver ==
  ASSUME NEW r, RingOK(r), NEW item \in Items, Full(r), enable_overwrite
  PROVE  /\ RingOK(Put(r, item))
         /\ Put(r, item).write = (r.write + 1) % Words
         /\ Kept(Put(r, item)) = SubSeq(Append(Kept(r), item), 2, N)
<1> DEFINE q == Put(r, item)
<1>1. N \in Nat \ {0} /\ Words \in Nat \ {0}
  BY TurnsOfTheRing
<1>2. PICK b \in [0..(N - 1) -> Items], w \in 0..(Words - 1), x \in 0..(Words - 1) :
         b = r.buffer /\ w = r.write /\ x = r.read
  BY DEF RingOK, Rings
<1>3. PICK d \in 0..(N - 1) : d = Occupied(r)
  BY OccupiedIs
<1>4. d = N - 1 /\ d \in Nat
  BY <1>1, <1>3, FullIs
<1> x \in Int /\ d \in Int /\ x + d \in Int /\ x + 1 \in Int
  BY <1>1
<1>5. w = (x + d) % Words /\ w % N = (x + d) % N
  BY <1>2, <1>3, OccupiedIs
<1>6. PICK y \in 0..(Words - 1) : y = (x + 1) % Words
  BY Masked
<1>7. (w + 1) % Words = (y + d) % Words
  <2>1. (((x + d) % Words) + 1) % Words = ((x + d) + 1) % Words
    BY <1>1, ModSum, 1 \in Int
  <2>2. (((x + 1) % Words) + d) % Words = ((x + 1) + d) % Words
    BY <1>1, ModSum, 1 \in Int
  <2>3. (x + d) + 1 = (x + 1) + d
    OBVIOUS
  <2> QED BY <1>5, <1>6, <2>1, <2>2, <2>3
<1> DEFINE c == [b EXCEPT ![(x + d) % N] = item]
<1>8. (x + d) % N \in 0..(N - 1)
  BY Masked
<1>9. c \in [0..(N - 1) -> Items] /\ c[(x + d) % N] = item
  BY <1>8
<1>10. \A j \in 0..(N - 1) : j # (x + d) % N => c[j] = b[j]
  OBVIOUS
<1>11. q = [buffer |-> c, write |-> (y + d) % Words, read |-> y]
  BY <1>2, <1>5, <1>6, <1>7 DEF Put, After
<1> HIDE DEF c, q
<1>12. RingOK(q) /\ Occupied(q) = d
  BY <1>9, <1>11, OccupiedBy
<1>13. q.read = y /\ q.write = (y + d) % Words /\ q.buffer = c
  BY <1>11
<1>14. /\ Kept(q) \in Seq(Items)
       /\ Len(Kept(q)) = d
       /\ \A i \in 1..d : Kept(q)[i] = c[(y + i - 1) % N]
  BY <1>12, <1>13, KeptIs
<1>15. /\ Kept(r) \in Seq(Items)
       /\ Len(Kept(r)) = d
       /\ \A i \in 1..d : Kept(r)[i] = b[(x + i - 1) % N]
  BY <1>2, <1>3, KeptIs
<1> DEFINE s == Append(Kept(r), item)
<1>16. s \in Seq(Items) /\ Len(s) = d + 1 /\ s[d + 1] = item /\ \A i \in 1..d : s[i] = Kept(r)[i]
  BY <1>4, <1>15
<1> HIDE DEF s
<1>17. ASSUME NEW i \in 1..d PROVE Kept(q)[i] = s[i + 1]
  <2>1. (y + i - 1) % N = (x + i) % N
    <3>1. (((x + 1) % Words) + (i - 1)) % N = ((x + 1) + (i - 1)) % N
      BY MaskedSum
    <3>2. (x + 1) + (i - 1) = x + i /\ y + (i - 1) = y + i - 1
      OBVIOUS
    <3> QED BY <1>6, <3>1, <3>2
  <2>2. Kept(q)[i] = c[(x + i) % N]
    BY <1>14, <2>1
  <2>3. CASE i = d
    BY <1>9, <1>16, <2>2, <2>3
  <2>4. CASE i # d
    <3>1. i + 1 \in 1..d /\ i \in 0..(N - 1) /\ d \in 0..(N - 1)
          /\ x + (i + 1) - 1 = x + i /\ x + i \in Int
      BY <1>4, <2>4
    <3>2. (x + i) % N # (x + d) % N
      BY <2>4, <3>1, SlotsDiffer
    <3>3. (x + i) % N \in 0..(N - 1)
      BY <3>1, Masked
    <3>4. c[(x + i) % N] = b[(x + i) % N]
      BY <1>10, <3>2, <3>3
    <3>5. s[i + 1] = b[(x + i) % N]
      BY <1>15, <1>16, <3>1
    <3> QED BY <2>2, <3>4, <3>5
  <2> QED BY <2>3, <2>4
<1>18. Kept(q) = SubSeq(s, 2, N)
  <2>1. SubSeq(s, 2, N) \in Seq(Items) /\ Len(SubSeq(s, 2, N)) = d
        /\ \A i \in 1..d : SubSeq(s, 2, N)[i] = s[i + 1]
    BY <1>1, <1>4, <1>16
  <2> QED BY <1>14, <1>17, <2>1, SMTT(30)
<1> QED BY <1>2, <1>7, <1>12, <1>13, <1>18 DEF q, s

-----------------------------------------------------------------------------
(* Write and Read do to what the ring keeps what they promise.               *)

LEMMA NewestStep ==
  ASSUME NEW s \in Seq(Items), NEW x \in Items
  PROVE  /\ Queue!Newest(s) \in Seq(Items)
         /\ Len(Queue!Newest(s)) <= N - 1
         /\ Len(Queue!Newest(s)) = N - 1 => 
              Queue!Newest(Append(s, x)) = SubSeq(Append(Queue!Newest(s), x), 2, N)
         /\ Len(Queue!Newest(s)) # N - 1 => 
              Queue!Newest(Append(s, x)) = Append(Queue!Newest(s), x)
<1>1. N \in Nat \ {0}
  BY TurnsOfTheRing
<1>2. PICK n \in Nat : n = Len(s) 
  OBVIOUS
<1> DEFINE t == Append(s, x)
<1>3. t \in Seq(Items) /\ Len(t) = n + 1 /\ t[n + 1] = x /\ \A i \in 1..n : t[i] = s[i]
  BY <1>2
<1> HIDE DEF t
<1>4. CASE n <= N - 1
  <2>1. Queue!Newest(s) = s
    BY <1>1, <1>2, <1>4 DEF Queue!Newest
  <2>2. CASE n = N - 1
    <3>1. Queue!Newest(t) = SubSeq(t, 2, N)
      <4>1. Len(t) > N - 1 /\ Len(t) - (N - 1) + 1 = 2 /\ Len(t) = N
        BY <1>1, <1>3, <2>2
      <4> QED BY <4>1 DEF Queue!Newest
    <3> QED BY <1>1, <1>2, <2>1, <2>2, <3>1 DEF t
  <2>3. CASE n # N - 1
    <3>1. ~(Len(t) > N - 1)
      BY <1>1, <1>3, <1>4, <2>3
    <3>2. Queue!Newest(t) = t
      BY <3>1 DEF Queue!Newest
    <3> QED BY <1>1, <1>2, <1>4, <2>1, <2>3, <3>2 DEF t
  <2> QED BY <2>2, <2>3
<1>5. CASE n > N - 1
  <2> DEFINE u == Queue!Newest(s)
  <2>1. u = SubSeq(s, n - (N - 1) + 1, n)
    BY <1>2, <1>5 DEF Queue!Newest
  <2>2. u \in Seq(Items) /\ Len(u) = N - 1 /\ \A i \in 1..(N - 1) : u[i] = s[n - (N - 1) + i]
    BY <1>1, <1>2, <1>5, <2>1
  <2>3. Queue!Newest(t) = SubSeq(t, n - (N - 1) + 2, n + 1)
    <3>1. Len(t) > N - 1 /\ Len(t) - (N - 1) + 1 = n - (N - 1) + 2
      BY <1>1, <1>3, <1>5
    <3> QED BY <1>3, <3>1 DEF Queue!Newest
  <2> DEFINE v == SubSeq(t, n - (N - 1) + 2, n + 1)
             w == SubSeq(Append(u, x), 2, N)
  <2>4. v \in Seq(Items) /\ Len(v) = N - 1 /\ \A i \in 1..(N - 1) : v[i] = t[n - (N - 1) + 1 + i]
    BY <1>1, <1>3, <1>5
  <2> HIDE DEF u, v
  <2>5. Append(u, x) \in Seq(Items) /\ Len(Append(u, x)) = N /\ Append(u, x)[N] = x
        /\ \A i \in 1..(N - 1) : Append(u, x)[i] = u[i]
    BY <1>1, <2>2
  <2>6. w \in Seq(Items) /\ Len(w) = N - 1 /\ \A i \in 1..(N - 1) : w[i] = Append(u, x)[i + 1]
    BY <1>1, <2>5
  <2> HIDE DEF w
  <2>7. ASSUME NEW i \in 1..(N - 1) PROVE v[i] = w[i]
    <3>1. CASE i = N - 1
      <4>1. n - (N - 1) + 1 + i = n + 1 /\ i + 1 = N
        BY <1>1, <3>1
      <4> QED BY <1>3, <2>4, <2>5, <2>6, <4>1
    <3>2. CASE i # N - 1
      <4>1. i + 1 \in 1..(N - 1) /\ n - (N - 1) + 1 + i \in 1..n
            /\ n - (N - 1) + (i + 1) = n - (N - 1) + 1 + i
        BY <1>1, <1>5, <3>2
      <4>2. v[i] = s[n - (N - 1) + 1 + i]
        BY <1>3, <2>4, <4>1
      <4>3. w[i] = s[n - (N - 1) + 1 + i]
        BY <2>2, <2>5, <2>6, <4>1
      <4> QED BY <4>2, <4>3
    <3> QED BY <3>1, <3>2
  <2>8. v = w
    BY <2>4, <2>6, <2>7
  <2>9. Queue!Newest(t) = w
    BY <2>3, <2>8 DEF v
  <2>10. u \in Seq(Items) /\ Len(u) <= N - 1 /\ Len(u) = N - 1
    BY <1>1, <2>2
  <2> QED BY <2>9, <2>10 DEF t, u, w
<1> QED BY <1>1, <1>2, <1>4, <1>5

LEMMA OldestStep ==
  ASSUME NEW s \in Seq(Items), NEW x \in Items
  PROVE  /\ Queue!Oldest(s) \in Seq(Items)
         /\ Len(Queue!Oldest(s)) <= N - 1
         /\ Len(Queue!Oldest(s)) = N - 1 => Queue!Oldest(Append(s, x)) = Queue!Oldest(s)
         /\ Len(Queue!Oldest(s)) # N - 1 =>
              Queue!Oldest(Append(s, x)) = Append(Queue!Oldest(s), x)
<1>1. N \in Nat \ {0}
  BY TurnsOfTheRing
<1>2. PICK n \in Nat : n = Len(s)
  OBVIOUS
<1> DEFINE t == Append(s, x)
<1>3. t \in Seq(Items) /\ Len(t) = n + 1 /\ \A i \in 1..n : t[i] = s[i]
  BY <1>2
<1> HIDE DEF t
<1>4. CASE n < N - 1
  <2>1. Queue!Oldest(s) = s /\ Queue!Oldest(t) = t
    BY <1>1, <1>2, <1>3, <1>4 DEF Queue!Oldest
  <2> QED BY <1>1, <1>2, <1>4, <2>1 DEF t
<1>5. CASE ~(n < N - 1)
  <2>1. Queue!Oldest(t) = SubSeq(t, 1, N - 1)
    <3>1. Len(t) > N - 1
      BY <1>1, <1>3, <1>5
    <3> QED BY <3>1 DEF Queue!Oldest
  <2>2. SubSeq(t, 1, N - 1) \in Seq(Items) /\ Len(SubSeq(t, 1, N - 1)) = N - 1
        /\ \A i \in 1..(N - 1) : SubSeq(t, 1, N - 1)[i] = s[i]
    BY <1>1, <1>3, <1>5
  <2>3. Queue!Oldest(s) \in Seq(Items) /\ Len(Queue!Oldest(s)) = N - 1
        /\ \A i \in 1..(N - 1) : Queue!Oldest(s)[i] = s[i]
    <3>1. CASE n = N - 1
      <4>1. Queue!Oldest(s) = s
        BY <1>1, <1>2, <3>1 DEF Queue!Oldest
      <4> QED BY <1>2, <3>1, <4>1
    <3>2. CASE n # N - 1
      <4>1. Queue!Oldest(s) = SubSeq(s, 1, N - 1)
        BY <1>1, <1>2, <1>5, <3>2 DEF Queue!Oldest
      <4> QED BY <1>1, <1>2, <1>5, <3>2, <4>1
    <3> QED BY <3>1, <3>2
  <2> DEFINE v == SubSeq(t, 1, N - 1)
             w == Queue!Oldest(s)
  <2> HIDE DEF v, w
  <2>4. v = w
    BY <1>1, <2>2, <2>3 DEF v, w
  <2>5. Queue!Oldest(t) = w /\ w \in Seq(Items) /\ Len(w) = N - 1 /\ Len(w) <= N - 1
    BY <1>1, <2>1, <2>3, <2>4 DEF v, w
  <2> QED BY <2>5 DEF t, w
<1> QED BY <1>1, <1>2, <1>4, <1>5

\* One turn of Write's loop on what was written so far.
LEMMA PutStep ==
  ASSUME NEW r, RingOK(r), NEW item \in Items, NEW s \in Seq(Items),
         enable_overwrite \in BOOLEAN,
         Kept(r) = IF enable_overwrite THEN Queue!Newest(s) ELSE Queue!Oldest(s)
  PROVE  LET q == Put(r, item)
         IN  /\ RingOK(q)
             /\ enable_overwrite => Kept(q) = Queue!Newest(Append(s, item))
             /\ enable_overwrite => q.write = (r.write + 1) % Words
             /\ ~enable_overwrite => Kept(q) = Queue!Oldest(Append(s, item))
             /\ ~enable_overwrite => q.read = r.read
<1> DEFINE q == Put(r, item)
<1>1. Len(Kept(r)) = Occupied(r) /\ (Full(r) <=> Occupied(r) = N - 1)
  BY KeptIs, FullIs
<1>2. CASE ~Full(r)
  <2>1. RingOK(q) /\ q.read = r.read /\ q.write = (r.write + 1) % Words
        /\ Kept(q) = Append(Kept(r), item)
    BY <1>2, PutRoom
  <2>2. enable_overwrite => Kept(q) = Queue!Newest(Append(s, item))
    BY <1>1, <1>2, <2>1, NewestStep
  <2>3. ~enable_overwrite => Kept(q) = Queue!Oldest(Append(s, item))
    BY <1>1, <1>2, <2>1, OldestStep
  <2> QED BY <2>1, <2>2, <2>3
<1>3. CASE Full(r) /\ enable_overwrite
  <2>1. RingOK(q) /\ q.write = (r.write + 1) % Words
        /\ Kept(q) = SubSeq(Append(Kept(r), item), 2, N)
    BY <1>3, PutOver
  <2>2. Kept(q) = Queue!Newest(Append(s, item))
    BY <1>1, <1>3, <2>1, NewestStep
  <2> QED BY <1>3, <2>1, <2>2
<1>4. CASE Full(r) /\ ~enable_overwrite
  <2>1. q = r
    BY <1>4 DEF Put
  <2>2. Kept(q) = Queue!Oldest(Append(s, item))
    BY <1>1, <1>4, <2>1, OldestStep
  <2> QED BY <1>4, <2>1, <2>2
<1> QED BY <1>2, <1>3, <1>4

\* After all turns: what Write leaves in the ring, and what it answers.
LEMMA WriteEffect ==
  ASSUME NEW r, RingOK(r), NEW data \in Bursts, enable_overwrite \in BOOLEAN
  PROVE  LET f == FoldLeft(Put, r, data)
         IN  /\ RingOK(f)
             /\ enable_overwrite => Kept(f) = Queue!Newest(Kept(r) \o data)
             /\ enable_overwrite => (f.write - r.write) % Words = Len(data)
             /\ ~enable_overwrite => Kept(f) = Queue!Oldest(Kept(r) \o data)
             /\ ~enable_overwrite => (f.write - r.write) % Words = Len(Kept(f)) - Len(Kept(r))
<1> DEFINE S == {p \in Rings : RingOK(p)}
<1>1. N \in Nat \ {0} /\ Words \in Nat \ {0} /\ N < Words
  BY TurnsOfTheRing
<1>2. PICK n \in Nat : n < Words /\ data \in [1..n -> Items]
  BY RingBufferAssumption DEF Bursts
<1>3. DOMAIN data = 1..n /\ data \in Seq(Items) /\ Len(data) = n /\ r \in S
  BY <1>2 DEF RingOK
<1>4. \A p \in S, i \in 1..n : Put(p, data[i]) \in S
  <2> TAKE p \in S, i \in 1..n
  <2>1. data[i] \in Items
    BY <1>2
  <2>2. CASE ~Full(p)
    BY <2>1, <2>2, PutRoom DEF RingOK
  <2>3. CASE Full(p) /\ enable_overwrite
    BY <2>1, <2>3, PutOver DEF RingOK
  <2>4. CASE Full(p) /\ ~enable_overwrite
    BY <2>4 DEF Put
  <2> QED BY <2>2, <2>3, <2>4
<1>5. PICK h :
        /\ h \in [0..n -> S]
        /\ h[0] = r
        /\ \A k \in 1..n : h[k] = Put(h[k - 1], data[k])
        /\ FoldLeft(Put, r, data) = h[n]
  <2> HIDE DEF S
  <2>1. PICK h : PutTurns(h, S, r, data, n)
    BY <1>3, <1>4, PutFold
  <2> QED BY <2>1 DEF PutTurns
<1>6. PICK c \in Seq(Items) : c = Kept(r) /\ Len(c) = Occupied(r) /\ Len(c) <= N - 1
  BY <1>1, KeptIs, OccupiedIs
<1> DEFINE s(k) == c \o SubSeq(data, 1, k)
           Done(k) ==
             /\ RingOK(h[k])
             /\ enable_overwrite => Kept(h[k]) = Queue!Newest(s(k))
             /\ enable_overwrite => h[k].write = (r.write + k) % Words
             /\ ~enable_overwrite => Kept(h[k]) = Queue!Oldest(s(k))
             /\ ~enable_overwrite => h[k].read = r.read
<1>7. PICK w \in 0..(Words - 1), x \in 0..(Words - 1) : w = r.write /\ x = r.read
  BY DEF RingOK, Rings
<1>8. Done(0)
  <2>1. s(0) = c
    BY <1>3, <1>6
  <2>2. Queue!Newest(c) = c /\ Queue!Oldest(c) = c
    BY <1>1, <1>6 DEF Queue!Newest, Queue!Oldest
  <2>3. (w + 0) % Words = w
    BY <1>1
  <2> HIDE DEF s
  <2> QED BY <1>5, <1>6, <1>7, <2>1, <2>2, <2>3
<1>9. ASSUME NEW k \in 0..n, k < n, Done(k) PROVE Done(k + 1)
  <2>1. k + 1 \in 1..n /\ (k + 1) - 1 = k
    BY <1>9
  <2>2. data[k + 1] \in Items /\ h[k + 1] = Put(h[k], data[k + 1])
    BY <1>2, <1>5, <2>1
  <2>3. s(k) \in Seq(Items) /\ s(k + 1) = Append(s(k), data[k + 1])
    <3>1. SubSeq(data, 1, k) \in Seq(Items) /\ Len(SubSeq(data, 1, k)) = k
          /\ \A i \in 1..k : SubSeq(data, 1, k)[i] = data[i]
      BY <1>3, <2>1
    <3>2. SubSeq(data, 1, k + 1) = Append(SubSeq(data, 1, k), data[k + 1])
      BY <1>3, <2>1
    <3> QED BY <1>6, <2>2, <3>1, <3>2
  <2>4. CASE enable_overwrite
    <3>1. (((w + k) % Words) + 1) % Words = (w + (k + 1)) % Words
      <4>1. (((w + k) % Words) + 1) % Words = ((w + k) + 1) % Words
        <5>1. w + k \in Int /\ 1 \in Int
          OBVIOUS
        <5> QED BY <1>1, <5>1, ModSum
      <4>2. (w + k) + 1 = w + (k + 1)
        OBVIOUS
      <4> QED BY <4>1, <4>2
    <3> HIDE DEF s
    <3>2. RingOK(h[k]) /\ Kept(h[k]) = Queue!Newest(s(k)) /\ h[k].write = (w + k) % Words
      BY <1>7, <1>9, <2>4
    <3>3. /\ RingOK(h[k + 1])
          /\ Kept(h[k + 1]) = Queue!Newest(Append(s(k), data[k + 1]))
          /\ h[k + 1].write = (h[k].write + 1) % Words
      BY <2>2, <2>3, <2>4, <3>2, PutStep
    <3> QED BY <1>7, <2>3, <2>4, <3>1, <3>2, <3>3
  <2>5. CASE ~enable_overwrite
    <3> HIDE DEF s
    <3>2. RingOK(h[k]) /\ Kept(h[k]) = Queue!Oldest(s(k)) /\ h[k].read = r.read
      BY <1>9, <2>5
    <3>3. /\ RingOK(h[k + 1])
          /\ Kept(h[k + 1]) = Queue!Oldest(Append(s(k), data[k + 1]))
          /\ h[k + 1].read = h[k].read
      BY <2>2, <2>3, <2>5, <3>2, PutStep
    <3> QED BY <2>3, <2>5, <3>2, <3>3
  <2> QED BY <2>4, <2>5
<1>10. Done(n)
  <2> HIDE DEF Done
  <2> DEFINE T == {k \in Nat : k <= n => Done(k)}
  <2>1. 0 \in T
    BY <1>8
  <2>2. ASSUME NEW k \in Nat, k \in T PROVE k + 1 \in T
    BY <1>9, <2>2
  <2>3. T = Nat
    <3>1. T \subseteq Nat
      OBVIOUS
    <3> HIDE DEF T
    <3> QED BY <2>1, <2>2, <3>1, Induct
  <2> QED BY <2>3
<1> DEFINE f == h[n]
<1>11. s(n) = c \o data
  BY <1>3, <1>6
<1>12. enable_overwrite => (f.write - r.write) % Words = n
  <2> HIDE DEF s
  <2>1. (((w + n) % Words) - w) % Words = n
    BY <1>1, <1>2, Advance
  <2> QED BY <1>7, <1>10, <2>1
<1>13. ~enable_overwrite => (f.write - r.write) % Words = Len(Kept(f)) - Len(Kept(r))
  <2> SUFFICES ASSUME ~enable_overwrite
               PROVE  (f.write - r.write) % Words = Len(Kept(f)) - Len(Kept(r))
    OBVIOUS
  <2>1. PICK e \in 0..(N - 1) : e = Occupied(f) /\ Len(Kept(f)) = e
    BY <1>10, OccupiedIs, KeptIs
  <2>2. PICK d \in 0..(N - 1) : d = Occupied(r) /\ Len(c) = d
    BY <1>6, OccupiedIs
  <2>3. d <= e
    <3>1. Kept(f) = Queue!Oldest(c \o data)
      <4> HIDE DEF s
      <4> QED BY <1>10, <1>11
    <3>2. c \o data \in Seq(Items) /\ Len(c \o data) = d + n
      BY <1>3, <2>2, ConcatProperties
    <3>3. Len(Queue!Oldest(c \o data)) = IF d + n > N - 1 THEN N - 1 ELSE d + n
      <4> HIDE DEF s, f
      <4>1. PICK t \in Seq(Items) : t = c \o data
        BY <3>2
      <4>2. Len(t) = d + n
        BY <3>2, <4>1
      <4>3. Len(Queue!Oldest(t)) = IF d + n > N - 1 THEN N - 1 ELSE d + n
        BY <1>1, <4>2 DEF Queue!Oldest
      <4> QED BY <4>1, <4>3
    <3> QED BY <1>1, <2>1, <3>1, <3>3
  <2>4. w = (x + d) % Words /\ f.write = (x + e) % Words
    <3>1. f.read = x
      <4> HIDE DEF s
      <4> QED BY <1>7, <1>10
    <3> QED BY <1>7, <1>10, <2>1, <2>2, <3>1, OccupiedIs
  <2>5. (x + e) % Words = (w + (e - d)) % Words
    <3>1. x + d \in Int /\ e - d \in Int /\ (x + d) + (e - d) = x + e
      BY <1>1
    <3>2. (((x + d) % Words) + (e - d)) % Words = ((x + d) + (e - d)) % Words
      BY <1>1, <3>1, ModSum
    <3> QED BY <2>4, <3>1, <3>2
  <2>6. (((w + (e - d)) % Words) - w) % Words = e - d
    <3>1. e - d \in 0..(Words - 1)
      BY <1>1, <2>3
    <3> QED BY <3>1, Advance
  <2> QED BY <1>6, <1>7, <2>1, <2>2, <2>4, <2>5, <2>6
<1>14. RingOK(f) /\ (enable_overwrite => Kept(f) = Queue!Newest(c \o data))
       /\ (~enable_overwrite => Kept(f) = Queue!Oldest(c \o data))
  <2> HIDE DEF s
  <2> QED BY <1>10, <1>11
<1> QED BY <1>3, <1>5, <1>6, <1>12, <1>13, <1>14

\* A ring some items of which were read.
LEMMA ReadSome ==
  ASSUME NEW r, RingOK(r), NEW m \in 0..Occupied(r)
  PROVE  LET q == [r EXCEPT !.read = (r.read + m) % Words]
         IN  /\ RingOK(q)
             /\ Occupied(q) = Occupied(r) - m
             /\ Kept(q) = SubSeq(Kept(r), m + 1, Occupied(r))
<1>1. N \in Nat \ {0} /\ Words \in Nat \ {0}
  BY TurnsOfTheRing
<1>2. PICK b \in [0..(N - 1) -> Items], w \in 0..(Words - 1), x \in 0..(Words - 1) :
         b = r.buffer /\ w = r.write /\ x = r.read /\ r = [buffer |-> b, write |-> w, read |-> x]
  BY DEF RingOK, Rings
<1>3. PICK d \in 0..(N - 1) : d = Occupied(r)
  BY OccupiedIs
<1>4. w = (x + d) % Words
  BY <1>2, <1>3, OccupiedIs
<1>5. PICK y \in 0..(Words - 1) : y = (x + m) % Words
  <2>1. x + m \in Int
    BY <1>3
  <2> QED BY <2>1, Masked
<1>6. x \in Int /\ m \in Int /\ d \in Int /\ d - m \in 0..(N - 1) /\ d - m \in Int
  BY <1>1, <1>3
<1>7. w = (y + (d - m)) % Words
  <2>1. (((x + m) % Words) + (d - m)) % Words = ((x + m) + (d - m)) % Words
    <3>1. x + m \in Int
      BY <1>6
    <3> QED BY <1>1, <1>6, <3>1, ModSum
  <2>2. (x + m) + (d - m) = x + d
    BY <1>6
  <2> QED BY <1>4, <1>5, <2>1, <2>2
<1> DEFINE q == [r EXCEPT !.read = (r.read + m) % Words]
<1>8. q = [buffer |-> b, write |-> (y + (d - m)) % Words, read |-> y]
  BY <1>2, <1>5, <1>7
<1> HIDE DEF q
<1>9. RingOK(q) /\ Occupied(q) = d - m /\ q.read = y /\ q.buffer = b
  <2>1. RingOK(q) /\ Occupied(q) = d - m
    BY <1>6, <1>8, OccupiedBy
  <2> QED BY <1>8, <2>1
<1>10. /\ Kept(q) \in Seq(Items)
       /\ Len(Kept(q)) = d - m
       /\ \A i \in 1..(d - m) : Kept(q)[i] = b[(y + i - 1) % N]
  BY <1>9, KeptIs
<1>11. /\ Kept(r) \in Seq(Items)
       /\ Len(Kept(r)) = d
       /\ \A i \in 1..d : Kept(r)[i] = b[(x + i - 1) % N]
  BY <1>2, <1>3, KeptIs
<1> DEFINE s == SubSeq(Kept(r), m + 1, d)
<1>12. s \in Seq(Items) /\ Len(s) = d - m /\ \A i \in 1..(d - m) : s[i] = Kept(r)[m + i]
  BY <1>1, <1>3, <1>6, <1>11
<1> HIDE DEF s
<1>13. ASSUME NEW i \in 1..(d - m) PROVE Kept(q)[i] = s[i]
  <2>1. m + i \in 1..d /\ x + m \in Int /\ i - 1 \in Int
    BY <1>3, <1>6
  <2>2. (((x + m) % Words) + (i - 1)) % N = ((x + m) + (i - 1)) % N
    BY <2>1, MaskedSum
  <2>3. (x + m) + (i - 1) = x + (m + i) - 1 /\ y + (i - 1) = y + i - 1
    BY <1>6
  <2>4. (y + i - 1) % N = (x + (m + i) - 1) % N
    BY <1>5, <2>2, <2>3
  <2>5. Kept(r)[m + i] = b[(x + (m + i) - 1) % N]
    BY <1>11, <2>1
  <2> QED BY <1>10, <1>12, <2>4, <2>5
<1>14. Kept(q) = s
  BY <1>6, <1>10, <1>12, <1>13
<1> QED BY <1>3, <1>9, <1>14 DEF q, s

\* What Read leaves in the ring, and what it answers.
LEMMA ReadEffect ==
  ASSUME NEW r, RingOK(r), NEW btr \in Nat
  PROVE  LET got == FoldLeft(Take, [ring |-> r, data |-> <<>>], [i \in 1..btr |-> i])
             m == Queue!Smaller(btr, Len(Kept(r)))
         IN  /\ RingOK(got.ring)
             /\ got.data = SubSeq(Kept(r), 1, m)
             /\ Kept(got.ring) = SubSeq(Kept(r), m + 1, Len(Kept(r)))
<1> DEFINE R == {p \in Rings : RingOK(p)}
           S == [ring : R, data : Seq(Items)]
           turns == [i \in 1..btr |-> i]
<1>1. N \in Nat \ {0} /\ Words \in Nat \ {0}
  BY TurnsOfTheRing
<1>2. DOMAIN turns = 1..btr /\ [ring |-> r, data |-> <<>>] \in S
  BY DEF RingOK
<1>3. PICK c \in Seq(Items), d \in 0..(N - 1) : c = Kept(r) /\ d = Occupied(r) /\ Len(c) = d
  BY KeptIs, OccupiedIs
<1>4. d \in Nat
  BY <1>1
<1> DEFINE Left(m) == [r EXCEPT !.read = (r.read + m) % Words]
           Got(m) == [ring |-> Left(m), data |-> SubSeq(c, 1, m)]
<1>6. \A p \in S, i \in 1..btr : Take(p, turns[i]) \in S
  <2> TAKE p \in S, i \in 1..btr
  <2>1. CASE Empty(p.ring)
    BY <2>1 DEF Take
  <2>2. CASE ~Empty(p.ring)
    <3>1. RingOK(p.ring) /\ p.ring \in Rings
      OBVIOUS
    <3>2. PICK e \in 1..(N - 1) : e = Occupied(p.ring)
      BY <1>1, <2>2, <3>1, FullIs, OccupiedIs
    <3>3. RingOK([p.ring EXCEPT !.read = (p.ring.read + 1) % Words])
      <4>1. 1 \in 0..Occupied(p.ring)
        BY <3>2
      <4> QED BY <3>1, <4>1, ReadSome
    <3>4. Append(p.data, p.ring.buffer[p.ring.read % N]) \in Seq(Items)
      <4>1. PICK b \in [0..(N - 1) -> Items], x \in Int : b = p.ring.buffer /\ x = p.ring.read
        BY <3>1 DEF Rings
      <4>2. x % N \in 0..(N - 1)
        BY Masked
      <4>3. p.data \in Seq(Items)
        OBVIOUS
      <4>4. b[x % N] \in Items
        BY <4>2
      <4>5. PICK item \in Items : item = p.ring.buffer[p.ring.read % N]
        BY <4>1, <4>4
      <4> QED BY <4>3, <4>5
    <3> QED BY <2>2, <3>3, <3>4 DEF Take, After, RingOK
  <2> QED BY <2>1, <2>2
<1>7. PICK h :
        /\ h[0] = [ring |-> r, data |-> <<>>]
        /\ \A k \in 1..btr : h[k] = Take(h[k - 1], turns[k])
        /\ FoldLeft(Take, [ring |-> r, data |-> <<>>], turns) = h[btr]
  <2> DEFINE r0 == [ring |-> r, data |-> <<>>]
  <2> HIDE DEF S, turns, r0
  <2>1. r0 \in S
    BY <1>2 DEF r0
  <2>2. PICK h : TakeTurns(h, S, r0, turns, btr)
    BY <1>2, <1>6, <2>1, TakeFold
  <2> QED BY <2>2 DEF TakeTurns, r0
<1>8. ASSUME NEW m \in 0..d, NEW i PROVE Take(Got(m), i) = IF m = d THEN Got(m) ELSE Got(m + 1)
  <2> DEFINE q == Left(m)
  <2>1. RingOK(q) /\ Occupied(q) = d - m
    BY <1>3, ReadSome
  <2>2. Empty(q) <=> m = d
    <3> HIDE DEF q
    <3> QED BY <1>4, <2>1, FullIs
  <2>3. CASE m = d
    BY <2>2, <2>3 DEF Take
  <2>4. CASE m # d
    <3>1. PICK b \in [0..(N - 1) -> Items], w \in 0..(Words - 1), x \in 0..(Words - 1) :
             b = r.buffer /\ x = r.read /\ r = [buffer |-> b, write |-> w, read |-> x]
      BY DEF RingOK, Rings
    <3>2. q.buffer = b /\ q.read = (x + m) % Words
      BY <3>1
    <3>3. x \in Int /\ m \in Int /\ x + m \in Int /\ 1 \in Int /\ (x + m) + 1 = x + (m + 1)
      BY <1>4
    <3>4. After(q.read) = (x + (m + 1)) % Words
      <4>1. (((x + m) % Words) + 1) % Words = ((x + m) + 1) % Words
        BY <1>1, <3>3, ModSum
      <4> QED BY <3>2, <3>3, <4>1 DEF After
    <3>5. [q EXCEPT !.read = After(@)] = Left(m + 1)
      BY <3>1, <3>2, <3>4 DEF RingOK, Rings
    <3>6. m + 1 \in 1..d /\ x + (m + 1) - 1 = x + m
      BY <1>4, <2>4, <3>3
    <3>7. q.buffer[q.read % N] = c[m + 1]
      <4>1. ((x + m) % Words) % N = (x + m) % N
        BY <3>3, Masked
      <4>2. c[m + 1] = b[(x + m) % N]
        BY <1>3, <3>1, <3>6, KeptIs
      <4> QED BY <3>2, <4>1, <4>2
    <3>8. SubSeq(c, 1, m + 1) = Append(SubSeq(c, 1, m), c[m + 1])
      BY <1>3, <3>6
    <3> QED BY <2>2, <2>4, <3>5, <3>7, <3>8 DEF Take
  <2> QED BY <2>3, <2>4
<1> DEFINE M(k) == Queue!Smaller(k, d)
<1>9. \A k \in 0..btr : h[k] = Got(M(k))
  <2> DEFINE T == {k \in Nat : k <= btr => h[k] = Got(M(k))}
  <2>1. 0 \in T
    <3>1. M(0) = 0
      BY <1>4 DEF Queue!Smaller
    <3>2. Got(0) = [ring |-> r, data |-> <<>>]
      <4>1. SubSeq(c, 1, 0) = <<>>
        BY <1>3
      <4>2. PICK x \in 0..(Words - 1) : x = r.read
        BY DEF RingOK, Rings
      <4>3. (x + 0) % Words = x
        BY <1>1
      <4>4. Left(0) = r
        BY <4>2, <4>3 DEF RingOK, Rings
      <4> QED BY <4>1, <4>4
    <3> HIDE DEF Got, M
    <3> QED BY <1>7, <3>1, <3>2
  <2>2. ASSUME NEW k \in Nat, k \in T PROVE k + 1 \in T
    <3>1. CASE k + 1 <= btr
      <4>1. k + 1 \in 1..btr /\ (k + 1) - 1 = k /\ h[k] = Got(M(k))
        BY <2>2, <3>1
      <4>2. M(k) \in 0..d /\ M(k + 1) = IF M(k) = d THEN M(k) ELSE M(k) + 1
        BY <1>4 DEF Queue!Smaller
      <4> HIDE DEF Got, M
      <4>3. h[k + 1] = Take(Got(M(k)), turns[k + 1])
        BY <1>7, <4>1
      <4>4. h[k + 1] = Got(M(k + 1))
        BY <1>8, <4>2, <4>3
      <4> QED BY <4>4
    <3>2. CASE ~(k + 1 <= btr)
      BY <3>2
    <3> QED BY <3>1, <3>2
  <2>3. T = Nat
    <3>1. T \subseteq Nat
      OBVIOUS
    <3> HIDE DEF T
    <3> QED BY <2>1, <2>2, <3>1, Induct
  <2> HIDE DEF Got, M
  <2> QED BY <2>3
<1>10. M(btr) \in 0..d
  BY <1>4 DEF Queue!Smaller
<1>11. h[btr] = Got(M(btr))
  <2> HIDE DEF Got, M
  <2> QED BY <1>9
<1>12. RingOK(Left(M(btr))) /\ Kept(Left(M(btr))) = SubSeq(c, M(btr) + 1, d)
  <2> HIDE DEF M
  <2> QED BY <1>3, <1>10, ReadSome
<1> HIDE DEF M, Left
<1>13. Got(M(btr)).ring = Left(M(btr)) /\ Got(M(btr)).data = SubSeq(c, 1, M(btr))
  OBVIOUS
<1> QED BY <1>3, <1>7, <1>11, <1>12, <1>13 DEF M

LEMMA UnreadIs == Unread = Kept(ring) /\ (IndicesAgree <=> RingOK(ring))
BY DEF Unread, Kept, IndicesAgree, RingOK

\* What makes the ring's properties inductive.
RingInv == IndicesAgree /\ enable_overwrite \in BOOLEAN

LEMMA NothingYet ==
  ASSUME NEW b \in [0..(N - 1) -> Items], NEW r, r = [buffer |-> b, write |-> 0, read |-> 0]
  PROVE  RingOK(r) /\ Kept(r) = <<>>
<1>1. N \in Nat \ {0} /\ Words \in Nat \ {0} /\ 0 \in 0..(N - 1) /\ 0 \in 0..(Words - 1)
  BY TurnsOfTheRing
<1>2. (0 + 0) % Words = 0
  BY <1>1
<1>3. r = [buffer |-> b, write |-> (0 + 0) % Words, read |-> 0]
  BY <1>2
<1>4. RingOK(r) /\ Occupied(r) = 0
  BY <1>1, <1>3, OccupiedBy
<1>5. Kept(r) \in Seq(Items) /\ Len(Kept(r)) = 0
  BY <1>4, KeptIs
<1> QED BY <1>4, <1>5

LEMMA RingInitially == MCInit => RingInv /\ Queue!QueueInit
<1> SUFFICES ASSUME MCInit PROVE RingInv /\ Queue!QueueInit
  OBVIOUS
<1>1. PICK b \in [0..(N - 1) -> Items] : ring = [buffer |-> b, write |-> 0, read |-> 0]
  <2>1. CASE which = "port"
    <3>1. \E b : b \in [0..(N - 1) -> Items]
      <4>1. PICK item : item \in Items
        BY RingBufferAssumption
      <4>2. [i \in 0..(N - 1) |-> item] \in [0..(N - 1) -> Items]
        BY <4>1
      <4> QED BY <4>2
    <3>2. (CHOOSE b \in [0..(N - 1) -> Items] : TRUE) \in [0..(N - 1) -> Items]
      BY <3>1
    <3> QED BY <2>1, <3>2 DEF MCInit
  <2>2. CASE which = "ring"
    BY <2>2 DEF MCInit, RingInit
  <2> QED BY <2>1, <2>2 DEF MCInit
<1>2. enable_overwrite \in BOOLEAN /\ answer = <<>>
  BY DEF MCInit, RingInit
<1> QED BY <1>1, <1>2, NothingYet, UnreadIs DEF RingInv, Queue!QueueInit

LEMMA RingStep ==
  ASSUME RingInv, RingNext
  PROVE  RingInv' /\ Queue!QueueNext
<1>1. RingOK(ring) /\ enable_overwrite \in BOOLEAN /\ enable_overwrite' = enable_overwrite
  BY UnreadIs DEF RingInv, RingNext
<1>2. Unread' = Kept(ring') /\ (IndicesAgree' <=> RingOK(ring'))
  BY DEF Unread, Kept, IndicesAgree, RingOK
<1>3. Unread \in Seq(Items) /\ Len(Unread) = Occupied(ring)
      /\ \A i \in 1..Occupied(ring) : Unread[i] = ring.buffer[(ring.read + i - 1) % N]
  BY <1>1, KeptIs, UnreadIs
<1>4. PICK d \in Nat : d = Occupied(ring) /\ d <= N - 1
  BY <1>1, OccupiedIs, TurnsOfTheRing
<1>5. PICK b \in [0..(N - 1) -> Items], w \in 0..(Words - 1), x \in 0..(Words - 1) :
         b = ring.buffer /\ x = ring.read /\ ring = [buffer |-> b, write |-> w, read |-> x]
  BY <1>1 DEF RingOK, Rings
<1>6. Bursts = Queue!Bursts
  BY DEF Bursts, Queue!Bursts
<1>7. ASSUME NEW data \in Bursts, Write(data)
      PROVE  RingOK(ring') /\ Queue!QWrite(data)
  <2> DEFINE f == FoldLeft(Put, ring, data)
  <2>1. ring' = f /\ answer' = <<(f.write - ring.write) % Words>>
    BY <1>7 DEF Write
  <2>2. /\ RingOK(f)
        /\ enable_overwrite => Kept(f) = Queue!Newest(Kept(ring) \o data)
        /\ enable_overwrite => (f.write - ring.write) % Words = Len(data)
        /\ ~enable_overwrite => Kept(f) = Queue!Oldest(Kept(ring) \o data)
        /\ ~enable_overwrite => (f.write - ring.write) % Words = Len(Kept(f)) - Len(Kept(ring))
    BY <1>1, WriteEffect
  <2> HIDE DEF f
  <2>3. Unread' = Kept(f) /\ Unread = Kept(ring)
    BY <1>2, <2>1, UnreadIs
  <2> QED BY <1>1, <2>1, <2>2, <2>3 DEF Queue!QWrite
<1>8. ASSUME NEW n \in 0..MaxBurst, Read(n)
      PROVE  RingOK(ring') /\ Queue!QRead(n)
  <2> DEFINE got == FoldLeft(Take, [ring |-> ring, data |-> <<>>], [i \in 1..n |-> i])
             m == Queue!Smaller(n, Len(Kept(ring)))
  <2>1. ring' = got.ring /\ answer' = got.data
    BY <1>8 DEF Read
  <2>2. /\ RingOK(got.ring)
        /\ got.data = SubSeq(Kept(ring), 1, m)
        /\ Kept(got.ring) = SubSeq(Kept(ring), m + 1, Len(Kept(ring)))
    <3>1. n \in Nat
      BY RingBufferAssumption
    <3> QED BY <1>1, <3>1, ReadEffect
  <2> HIDE DEF got
  <2> QED BY <1>2, <2>1, <2>2, UnreadIs DEF Queue!QRead
<1>9. ASSUME NEW n \in 0..MaxBurst, Peek(n)
      PROVE  RingOK(ring') /\ Queue!QPeek(n)
  <2> DEFINE m == IF n < d THEN n ELSE d
             s == [i \in 1..m |-> b[((x + i - 1) % Words) % N]]
  <2>1. m \in 0..d /\ n \in Nat
    BY <1>4, RingBufferAssumption
  <2>2. ring' = ring /\ answer' = s
    BY <1>4, <1>5, <1>9 DEF Peek
  <2>3. \A i \in 1..m : s[i] = Unread[i]
    <3> TAKE i \in 1..m
    <3>1. i \in 1..d /\ x + i - 1 \in Int
      BY <1>4, <2>1
    <3>2. ((x + i - 1) % Words) % N = (x + i - 1) % N
      BY <3>1, Masked
    <3> QED BY <1>3, <1>4, <1>5, <3>1, <3>2
  <2>4. DOMAIN s = 1..m
    OBVIOUS
  <2>5. SubSeq(Unread, 1, m) = [i \in 1..m |-> Unread[i]]
    BY <1>3, <1>4, <2>1
  <2>6. s = [i \in 1..m |-> Unread[i]]
    BY <2>3
  <2>7. Queue!Smaller(n, Len(Unread)) = m
    BY <1>3, <1>4 DEF Queue!Smaller
  <2> HIDE DEF s, m
  <2>8. Unread' = Unread
    BY <1>2, <2>2, UnreadIs
  <2> QED BY <1>1, <2>2, <2>5, <2>6, <2>7, <2>8 DEF Queue!QPeek
<1>10. ASSUME NEW n \in 0..MaxBurst, PeekAt(n)
       PROVE  RingOK(ring') /\ Queue!QPeekAt(n)
  <2>1. n \in Nat /\ ring' = ring
    BY <1>10, RingBufferAssumption DEF PeekAt
  <2>2. Unread' = Unread
    BY <1>2, <2>1, UnreadIs
  <2>3. CASE n >= d
    <3>1. answer' = <<>>
      BY <1>4, <1>10, <2>3 DEF PeekAt
    <3>2. ~(n < Len(Unread))
      BY <1>3, <1>4, <2>1, <2>3
    <3> QED BY <1>1, <2>1, <2>2, <3>1, <3>2 DEF Queue!QPeekAt
  <2>4. CASE ~(n >= d)
    <3>1. answer' = <<b[((x + n) % Words) % N]>>
      BY <1>4, <1>5, <1>10, <2>4 DEF PeekAt
    <3>2. x + n \in Int /\ n + 1 \in 1..d /\ x + (n + 1) - 1 = x + n
      BY <2>1, <2>4
    <3>3. ((x + n) % Words) % N = (x + n) % N
      BY <3>2, Masked
    <3>4. Unread[n + 1] = b[(x + n) % N]
      BY <1>3, <1>4, <1>5, <3>2
    <3>5. n < Len(Unread)
      BY <1>3, <1>4, <2>1, <2>4
    <3> QED BY <1>1, <2>1, <2>2, <3>1, <3>3, <3>4, <3>5 DEF Queue!QPeekAt
  <2> QED BY <2>3, <2>4
<1>11. ASSUME Sizes PROVE RingOK(ring') /\ Queue!QSizes
  <2>1. ring' = ring /\ answer' = <<Occupied(ring), FreeSize(ring), Empty(ring), Full(ring)>>
    BY <1>11 DEF Sizes
  <2>2. Unread' = Unread
    BY <1>2, <2>1, UnreadIs
  <2>3. FreeSize(ring) = N - 1 - Len(Unread)
    BY <1>3 DEF FreeSize
  <2>4. Empty(ring) = (Unread = <<>>) /\ Full(ring) = (Len(Unread) = N - 1)
    <3>1. (Full(ring) <=> Occupied(ring) = N - 1) /\ (Empty(ring) <=> Occupied(ring) = 0)
      BY <1>1, FullIs
    <3>2. Len(Unread) = 0 <=> Unread = <<>>
      BY <1>3
    <3>3. Empty(ring) \in BOOLEAN /\ Full(ring) \in BOOLEAN
      BY DEF Empty, Full
    <3> QED BY <1>3, <3>1, <3>2, <3>3
  <2> QED BY <1>1, <1>3, <2>1, <2>2, <2>3, <2>4 DEF Queue!QSizes
<1>12. ASSUME Reset PROVE RingOK(ring') /\ Queue!QReset
  <2>1. ring' = [buffer |-> b, write |-> 0, read |-> 0] /\ answer' = answer
    BY <1>5, <1>12 DEF Reset
  <2> QED BY <1>2, <2>1, NothingYet DEF Queue!QReset
<1>13. RingOK(ring') /\ Queue!QueueNext
  BY <1>1, <1>6, <1>7, <1>8, <1>9, <1>10, <1>11, <1>12 DEF RingNext, Queue!QueueNext
<1> QED BY <1>1, <1>2, <1>13 DEF RingInv

(* Beside a resting ring the port of MCAsyncSerial is the one of AsyncSerial,
   so every theorem about Spec is one about MCSpec.                          *)
THEOREM PortBesideRing == MCSpec => Spec
<1>1. MCInit => Init
  BY DEF MCInit
<1>2. [MCNext]_<<vars, which, ringVars>> => [Next]_vars
  BY DEF MCNext
<1> QED BY <1>1, <1>2, PTL DEF MCSpec, Spec

(* PortTypeOK: types, and the indices of the ring (ring_buffer.hpp), free-running
   and wrapping with the machine's word, never drift further apart than the
   masked difference can tell.                                               *)
THEOREM PortTyping == MCSpec => []PortTypeOK
<1>1. MCInit => RingInv
  BY RingInitially
<1>2. RingInv /\ [MCNext]_<<vars, which, ringVars>> => RingInv'
  <2> SUFFICES ASSUME RingInv, [MCNext]_<<vars, which, ringVars>> PROVE RingInv'
    OBVIOUS
  <2>1. CASE RingNext
    BY <2>1, RingStep
  <2>2. CASE UNCHANGED ringVars
    BY <2>2 DEF RingInv, IndicesAgree, ringVars
  <2> QED BY <2>1, <2>2 DEF MCNext
<1>3. MCSpec => []RingInv
  BY <1>1, <1>2, PTL DEF MCSpec
<1>4. MCSpec => []TypeOK
  BY PortBesideRing, SerialTyping, PTL
<1>5. RingInv /\ TypeOK => PortTypeOK
  BY DEF RingInv, PortTypeOK
<1> QED BY <1>3, <1>4, <1>5, PTL

(* RingIsQueue, ImplementsQueue of RingBuffer: through every wrap of the array
   and of the indices the ring is a first-in first-out queue of N - 1 items that
   drops its oldest items or refuses the newest ones, as it was told, and what
   Write, Read, Peek, PeekAt and the sizes answer is what that queue answers.  *)
THEOREM RingImplementsQueue == MCSpec => RingIsQueue
<1>1. MCInit => RingInv /\ Queue!QueueInit
  BY RingInitially
<1>2. RingInv /\ [MCNext]_<<vars, which, ringVars>> =>
        RingInv' /\ [which = "port" \/ Queue!QueueNext]_(Queue!queueVars)
  <2> SUFFICES ASSUME RingInv, [MCNext]_<<vars, which, ringVars>>
               PROVE  RingInv' /\ [which = "port" \/ Queue!QueueNext]_(Queue!queueVars)
    OBVIOUS
  <2>1. CASE RingNext
    BY <2>1, RingStep
  <2>2. CASE UNCHANGED ringVars
    BY <2>2 DEF RingInv, IndicesAgree, ringVars, Queue!queueVars, Unread, Occupied
  <2> QED BY <2>1, <2>2 DEF MCNext
<1> QED BY <1>1, <1>2, PTL DEF MCSpec, RingIsQueue

(* The ring alone, RingSpec of RingBuffer, by the same steps.                  *)
THEOREM RingOnItsOwn == RingSpec => []IndicesAgree /\ ImplementsQueue
<1>1. RingInit => RingInv /\ Queue!QueueInit
  <2> SUFFICES ASSUME RingInit PROVE RingInv /\ Queue!QueueInit
    OBVIOUS
  <2>1. PICK b \in [0..(N - 1) -> Items] : ring = [buffer |-> b, write |-> 0, read |-> 0]
    BY DEF RingInit
  <2> QED BY <2>1, NothingYet, UnreadIs DEF RingInit, RingInv, Queue!QueueInit
<1>2. RingInv /\ [RingNext]_ringVars => RingInv' /\ [Queue!QueueNext]_(Queue!queueVars)
  <2> SUFFICES ASSUME RingInv, [RingNext]_ringVars
               PROVE  RingInv' /\ [Queue!QueueNext]_(Queue!queueVars)
    OBVIOUS
  <2>1. CASE RingNext
    BY <2>1, RingStep
  <2>2. CASE UNCHANGED ringVars
    BY <2>2 DEF RingInv, IndicesAgree, ringVars, Queue!queueVars, Unread, Occupied
  <2> QED BY <2>1, <2>2
<1>3. RingInv => IndicesAgree
  BY DEF RingInv
<1> QED BY <1>1, <1>2, <1>3, PTL DEF RingSpec, ImplementsQueue, Queue!QueueSpec
=============================================================================
