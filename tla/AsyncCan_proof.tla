--------------------------- MODULE AsyncCan_proof ---------------------------
(***************************************************************************)
(* Proofs about AsyncCan, for every set of callers, queue bound, number of *)
(* sends and number of sessions.                                           *)
(***************************************************************************)
EXTENDS AsyncCan, Basics_proof

(* The completions a closing stream queues for its cancelled writes.         *)
LEMMA AbortedType ==
  ASSUME NEW q \in Seq(Handlers), NEW n \in Nat
  PROVE  /\ [i \in 1..n |-> "writeAborted"] \in Seq(Handlers)
         /\ q \o [i \in 1..n |-> "writeAborted"] \in Seq(Handlers)
<1>1. [i \in 1..n |-> "writeAborted"] \in Seq(Handlers)
  BY DEF Handlers
<1> QED BY <1>1, ConcatProperties

(* HandleError's first half, which three handlers share.                     *)
LEMMA HandleErrorCloseType ==
  ASSUME TypeOK, NEW h, Runs(h), NEW kind \in {"fault", "close"},
         HandleErrorClose(kind), tx_in_progress' \in BOOLEAN
  PROVE  TypeOK'
<1>1. Tail(ioq) \in Seq(Handlers)
  BY HeadTailProperties DEF TypeOK, Runs
<1>2. ioq' \in Seq(Handlers)
  BY <1>1, AbortedType DEF TypeOK, HandleErrorClose
<1>3. fate' \in [1..MaxOpens -> Fates]
  BY DEF TypeOK, HandleErrorClose, Ended, Fates
<1>4. /\ stream' \in Nat /\ reads' \in Nat /\ writes' \in Nat
      /\ port_opened' \in BOOLEAN
  BY DEF HandleErrorClose
<1>5. teardown' \in {"none", "close", "silent", "report"}
  BY DEF HandleErrorClose
<1> QED
  BY <1>2, <1>3, <1>4, <1>5 DEF TypeOK, HandleErrorClose, sendVars

(* One attempt to start a write, which two handlers share.                   *)
LEMMA StartWriteType ==
  ASSUME TypeOK, NEW busy \in BOOLEAN, ioq # <<>>, StartWrite(busy, Tail(ioq)),
         UNCHANGED <<wire, sendVars, lifeVars, reads, teardown, owner>>
  PROVE  TypeOK'
<1>1. "writeFail" \in Handlers
  BY DEF Handlers
<1>2. ioq' \in Seq(Handlers)
  BY <1>1, QueueOps DEF TypeOK, StartWrite, ArmWrite
<1>3. tx_queue' \in Seq(Nat) /\ tx_frame' \in Nat
  BY QueueOps DEF TypeOK, StartWrite
<1>4. writes' \in Nat
  BY DEF TypeOK, StartWrite, ArmWrite
<1>5. tx_in_progress' \in BOOLEAN
  BY DEF StartWrite
<1> QED
  BY <1>2, <1>3, <1>4, <1>5 DEF TypeOK, sendVars, lifeVars

LEMMA InitType == Init => TypeOK
<1> SUFFICES ASSUME Init PROVE TypeOK
  OBVIOUS
<1>1. tx_queue \in Seq(Nat) /\ ioq \in Seq(Handlers) /\ wire \in Seq(Nat)
  BY EmptySeq DEF Init
<1>2. fate \in [1..MaxOpens -> Fates]
  BY DEF Init, Fates
<1>3. broken \in SUBSET Nat
  BY DEF Init
<1> QED
  BY <1>1, <1>2, <1>3 DEF Init, TypeOK

LEMMA NextType == TypeOK /\ [Next]_vars => TypeOK'
<1> SUFFICES ASSUME TypeOK, [Next]_vars PROVE TypeOK'
  OBVIOUS
<1>1. {"read", "readDone", "readFail", "startWrite", "writeDone", "writeFail",
       "writeAborted", "close"} = Handlers
  BY DEF Handlers
<1>2. ASSUME NEW c \in Callers, SendCheck(c) \/ SendQueueFull(c) PROVE TypeOK'
  BY <1>2 DEF SendCheck, SendQueueFull, TypeOK, txVars, lifeVars
<1>3. ASSUME NEW c \in Callers, SendEnqueue(c) PROVE TypeOK'
  <2>1. accepted' \in Nat /\ tx_queue' \in Seq(Nat)
    BY <1>3, QueueOps DEF SendEnqueue, TypeOK
  <2> QED
    BY <1>3, <2>1 DEF SendEnqueue, TypeOK, lifeVars
<1>4. ASSUME NEW c \in Callers, SendPost(c) PROVE TypeOK'
  <2>1. ioq' \in Seq(Handlers)
    BY <1>1, <1>4, QueueOps DEF SendPost, TypeOK
  <2> QED
    BY <1>4, <2>1 DEF SendPost, TypeOK, txVars, lifeVars
<1>5. CASE Open
  <2>1. ioq' \in Seq(Handlers)
    BY <1>1, <1>5, QueueOps DEF Open, TypeOK
  <2> QED
    BY <1>5, <2>1 DEF Open, TypeOK, txVars, sendVars
<1>6. CASE CloseIdle
  BY <1>6 DEF CloseIdle, TypeOK, txVars, sendVars
<1>7. CASE CloseCall
  <2>1. ioq' \in Seq(Handlers)
    BY <1>1, <1>7, QueueOps DEF CloseCall, TypeOK
  <2> QED
    BY <1>7, <2>1 DEF CloseCall, TypeOK, txVars, sendVars, lifeVars
<1>8. CASE RunRead
  <2>1. ioq' \in Seq(Handlers)
    BY <1>1, <1>8, QueueOps DEF RunRead, ArmRead, Runs, TypeOK
  <2>2. reads' \in Nat
    BY <1>8 DEF RunRead, ArmRead, TypeOK
  <2> QED
    BY <1>8, <2>1, <2>2 DEF RunRead, TypeOK, txVars, sendVars, lifeVars
<1>9. CASE RunReadFail
  BY <1>9, HandleErrorCloseType DEF RunReadFail, TypeOK
<1>10. CASE RunStartWrite
  BY <1>10, StartWriteType DEF RunStartWrite, Runs, TypeOK
<1>11. CASE RunWriteDone
  BY <1>11, StartWriteType DEF RunWriteDone, Runs
<1>12. CASE RunWriteFail
  BY <1>12, HandleErrorCloseType DEF RunWriteFail
<1>13. CASE RunWriteAborted
  <2>1. ioq' \in Seq(Handlers)
    BY <1>1, <1>13, HeadTailProperties DEF RunWriteAborted, Runs, TypeOK
  <2> QED
    BY <1>13, <2>1 DEF RunWriteAborted, TypeOK, sendVars, lifeVars
<1>14. CASE RunClose
  BY <1>14, HandleErrorCloseType DEF RunClose, TypeOK
<1>15. CASE HandleErrorClear
  <2>1. tx_queue' \in Seq(Nat)
    BY <1>15, EmptySeq DEF HandleErrorClear
  <2>2. fate' \in [1..MaxOpens -> Fates]
    BY <1>15 DEF HandleErrorClear, TypeOK, Fates
  <2>3. owner' \in {"idle", "closing"}
    BY <1>15 DEF HandleErrorClear, TypeOK
  <2> QED
    BY <1>15, <2>1, <2>2, <2>3 DEF HandleErrorClear, TypeOK, sendVars
<1>16. CASE ReadReady \/ ReadFails
  <2>1. ioq' \in Seq(Handlers)
    BY <1>1, <1>16, QueueOps DEF ReadReady, ReadFails, Complete, TypeOK
  <2>2. reads' \in Nat
    BY <1>16 DEF ReadReady, ReadFails, TypeOK
  <2>3. broken' \in SUBSET Nat
    BY <1>16 DEF ReadReady, ReadFails, TypeOK, lifeVars
  <2> QED
    BY <1>16, <2>1, <2>2, <2>3 DEF ReadReady, ReadFails, TypeOK, txVars, sendVars, lifeVars
<1>17. CASE WriteReady \/ WriteFails
  <2>1. ioq' \in Seq(Handlers)
    BY <1>1, <1>17, QueueOps DEF WriteReady, WriteFails, Complete, TypeOK
  <2>2. writes' \in Nat
    BY <1>17 DEF WriteReady, WriteFails, TypeOK
  <2>3. broken' \in SUBSET Nat
    BY <1>17 DEF WriteReady, WriteFails, TypeOK, lifeVars
  <2>4. wire' \in Seq(Nat)
    BY <1>17, QueueOps DEF WriteReady, WriteFails, TypeOK
  <2> QED
    BY <1>17, <2>1, <2>2, <2>3, <2>4
    DEF WriteReady, WriteFails, TypeOK, txVars, sendVars, lifeVars
<1>18. CASE UNCHANGED vars
  BY <1>18 DEF vars, TypeOK
<1> QED
  BY <1>2, <1>3, <1>4, <1>5, <1>6, <1>7, <1>8, <1>9, <1>10, <1>11, <1>12, <1>13,
     <1>14, <1>15, <1>16, <1>17, <1>18
  DEF Next, SendFrame, IoThread, Bus

(* Every step keeps each variable in the type the code declares for it.      *)
THEOREM Typing == Spec => []TypeOK
BY InitType, NextType, PTL DEF Spec

-----------------------------------------------------------------------------
(* What holds however early the owner reopens the port.                      *)

LEMMA InitAnyReopen == Init => AnyReopenInv
<1> SUFFICES ASSUME Init PROVE AnyReopenInv
  OBVIOUS
<1>1. StreamInv
  BY AsyncCanAssumption DEF Init, StreamInv
<1>2. BusyInv /\ FateInv /\ NoStall
  BY DEF Init, BusyInv, FateInv, NoStall
<1> QED
  BY <1>1, <1>2, InitType DEF AnyReopenInv

LEMMA NextStream == TypeOK /\ StreamInv /\ [Next]_vars => StreamInv'
<1> SUFFICES ASSUME TypeOK, StreamInv, [Next]_vars PROVE StreamInv'
  OBVIOUS
<1> USE AsyncCanAssumption DEF StreamInv, TypeOK
<1>1. ASSUME NEW c \in Callers, SendFrame(c) PROVE StreamInv'
  BY <1>1 DEF SendFrame, SendCheck, SendQueueFull, SendEnqueue, SendPost, txVars, lifeVars
<1>2. CASE Open
  BY <1>2 DEF Open, txVars
<1>3. CASE CloseIdle \/ CloseCall
  BY <1>3 DEF CloseIdle, CloseCall, txVars, lifeVars
<1>4. CASE RunRead
  BY <1>4 DEF RunRead, ArmRead, txVars, lifeVars
<1>5. CASE RunReadFail \/ RunWriteFail \/ RunClose
  BY <1>5 DEF RunReadFail, RunWriteFail, RunClose, HandleErrorClose
<1>6. CASE RunStartWrite \/ RunWriteDone
  BY <1>6 DEF RunStartWrite, RunWriteDone, StartWrite, ArmWrite, lifeVars
<1>7. CASE RunWriteAborted \/ HandleErrorClear
  BY <1>7 DEF RunWriteAborted, HandleErrorClear, lifeVars
<1>8. CASE Bus
  BY <1>8 DEF Bus, ReadReady, ReadFails, WriteReady, WriteFails, txVars, lifeVars
<1>9. CASE UNCHANGED vars
  BY <1>9 DEF vars
<1> QED
  BY <1>1, <1>2, <1>3, <1>4, <1>5, <1>6, <1>7, <1>8, <1>9 DEF Next, IoThread

LEMMA NextFate == TypeOK /\ StreamInv /\ FateInv /\ [Next]_vars => FateInv'
<1> SUFFICES ASSUME TypeOK, StreamInv, FateInv, [Next]_vars PROVE FateInv'
  OBVIOUS
<1> USE AsyncCanAssumption DEF StreamInv, TypeOK, FateInv
<1>1. ASSUME NEW c \in Callers, SendFrame(c) PROVE FateInv'
  BY <1>1 DEF SendFrame, SendCheck, SendQueueFull, SendEnqueue, SendPost, lifeVars
<1>2. CASE Open
  BY <1>2 DEF Open
<1>3. CASE CloseIdle \/ CloseCall
  BY <1>3 DEF CloseIdle, CloseCall, lifeVars
<1>4. CASE RunRead \/ RunStartWrite \/ RunWriteDone \/ RunWriteAborted
  BY <1>4 DEF RunRead, RunStartWrite, RunWriteDone, RunWriteAborted, lifeVars
<1>5. ASSUME NEW kind \in {"fault", "close"}, HandleErrorClose(kind), teardown = "none"
      PROVE  FateInv'
  BY <1>5 DEF HandleErrorClose, Ended
<1>6. CASE RunReadFail \/ RunWriteFail \/ RunClose
  BY <1>5, <1>6 DEF RunReadFail, RunWriteFail, RunClose, Runs
<1>7. CASE HandleErrorClear
  BY <1>7 DEF HandleErrorClear
<1>8. CASE Bus
  BY <1>8 DEF Bus, ReadReady, ReadFails, WriteReady, WriteFails, lifeVars
<1>9. CASE UNCHANGED vars
  BY <1>9 DEF vars
<1> QED
  BY <1>1, <1>2, <1>3, <1>4, <1>6, <1>7, <1>8, <1>9 DEF Next, IoThread

(* The handlers in the queue after a step that appends one, or runs the head. *)
LEMMA QueuedAppend ==
  ASSUME TypeOK, NEW x \in Handlers, ioq' = Append(ioq, x), NEW h
  PROVE  Queued(h)' <=> Queued(h) \/ h = x
BY NoneAppend DEF Queued, TypeOK

LEMMA QueuedTail ==
  ASSUME TypeOK, NEW k, Runs(k), ioq' = Tail(ioq), NEW h
  PROVE  Queued(h) <=> Queued(h)' \/ h = k
BY NoneTail DEF Queued, TypeOK, Runs

LEMMA QueuedTailAppend ==
  ASSUME TypeOK, NEW k, Runs(k), NEW x \in Handlers, ioq' = Append(Tail(ioq), x), NEW h
  PROVE  /\ Queued(h) => Queued(h)' \/ h = k
         /\ Queued(h)' => Queued(h) \/ h = x
<1>1. Tail(ioq) \in Seq(Handlers)
  BY TailElements DEF TypeOK, Runs
<1>2. NoneOf(ioq', {h}) <=> NoneOf(Tail(ioq), {h}) /\ x \notin {h}
  BY <1>1, NoneAppend
<1>3. NoneOf(ioq, {h}) <=> k \notin {h} /\ NoneOf(Tail(ioq), {h})
  BY NoneTail DEF TypeOK, Runs
<1> QED BY <1>2, <1>3 DEF Queued

LEMMA NextWake ==
  TypeOK /\ StreamInv /\ BusyInv /\ NoStall /\ [Next]_vars => BusyInv' /\ NoStall'
<1> SUFFICES ASSUME TypeOK, StreamInv, BusyInv, NoStall, [Next]_vars
             PROVE  BusyInv' /\ NoStall'
  OBVIOUS
<1> USE DEF BusyInv, NoStall
<1>1. ASSUME NEW c \in Callers, SendCheck(c) \/ SendQueueFull(c) PROVE BusyInv' /\ NoStall'
  BY <1>1 DEF SendCheck, SendQueueFull, Queued, txVars, TypeOK
<1>2. ASSUME NEW c \in Callers, SendEnqueue(c) PROVE BusyInv' /\ NoStall'
  BY <1>2 DEF SendEnqueue, Queued, TypeOK
<1>3. ASSUME NEW c \in Callers, SendPost(c) PROVE BusyInv' /\ NoStall'
  BY <1>3, QueuedAppend DEF SendPost, Handlers, txVars
<1>4. CASE Open
  <2>1. \A h : Queued(h) => Queued(h)'
    BY <1>4, QueuedAppend DEF Open, Handlers
  <2> QED BY <1>4, <2>1 DEF Open, txVars, sendVars
<1>5. CASE CloseIdle
  BY <1>5 DEF CloseIdle, Queued, txVars, sendVars
<1>6. CASE CloseCall
  <2>1. \A h : Queued(h) => Queued(h)'
    BY <1>6, QueuedAppend DEF CloseCall, Handlers
  <2> QED BY <1>6, <2>1 DEF CloseCall, txVars, sendVars
<1>7. CASE RunRead
  <2>1. \A h \in {"startWrite", "writeDone", "writeFail"} : Queued(h) => Queued(h)'
    BY <1>7, QueuedTail, QueuedTailAppend DEF RunRead, ArmRead, Handlers
  <2> QED BY <1>7, <2>1 DEF RunRead, txVars, sendVars
<1>8. CASE RunReadFail \/ RunWriteFail \/ RunClose
  <2>1. teardown' # "none"
    BY <1>8 DEF RunReadFail, RunWriteFail, RunClose, HandleErrorClose
  <2> QED BY <2>1
<1>9. CASE RunStartWrite \/ RunWriteDone
  <2>1. teardown = "none" /\ teardown' = "none" /\ UNCHANGED caller
    BY <1>9 DEF RunStartWrite, RunWriteDone, Runs, sendVars
  <2>2. CASE tx_in_progress' /\ (writes' > 0 \/ Queued("writeFail")')
    BY <2>1, <2>2
  <2>3. CASE ~tx_in_progress' /\ tx_queue' = <<>>
    BY <2>3
  <2>4. CASE RunStartWrite /\ tx_in_progress /\ ioq' = Tail(ioq) /\ UNCHANGED <<tx_in_progress, tx_queue, writes>>
    <3>1. \A h \in {"writeDone", "writeFail"} : Queued(h) => Queued(h)'
      BY <2>4, QueuedTail DEF RunStartWrite
    <3> QED BY <2>1, <2>4, <3>1
  <2>5. tx_in_progress' \/ tx_queue' = <<>>
    BY <1>9 DEF RunStartWrite, RunWriteDone, StartWrite
  <2>6. ASSUME NEW busy, StartWrite(busy, Tail(ioq)), ~busy, tx_queue # <<>>
        PROVE  tx_in_progress' /\ (writes' > 0 \/ Queued("writeFail")')
    <3>1. CASE stream # 0
      BY <2>6, <3>1 DEF StartWrite, ArmWrite, TypeOK
    <3>2. CASE stream = 0
      <4>1. ioq' = Append(Tail(ioq), "writeFail")
        BY <2>6, <3>2 DEF StartWrite, ArmWrite
      <4>2. Tail(ioq) \in Seq(Handlers)
        BY <1>9, TailElements DEF TypeOK, RunStartWrite, RunWriteDone, Runs
      <4>3. "writeFail" \in Handlers
        BY DEF Handlers
      <4>4. ~NoneOf(ioq', {"writeFail"})
        BY <4>1, <4>2, <4>3, NoneAppend
      <4> QED BY <2>6, <4>4 DEF StartWrite, Queued
    <3> QED BY <3>1, <3>2
  <2>7. CASE RunWriteDone
    <3>1. CASE tx_queue = <<>>
      BY <2>3, <2>7, <3>1 DEF RunWriteDone, StartWrite
    <3>2. CASE tx_queue # <<>>
      BY <2>2, <2>6, <2>7, <3>2 DEF RunWriteDone
    <3> QED BY <3>1, <3>2
  <2>8. CASE RunStartWrite
    <3>1. CASE tx_in_progress
      BY <2>4, <2>8, <3>1 DEF RunStartWrite, StartWrite
    <3>2. CASE ~tx_in_progress /\ tx_queue = <<>>
      BY <2>3, <2>8, <3>2 DEF RunStartWrite, StartWrite
    <3>3. CASE ~tx_in_progress /\ tx_queue # <<>>
      BY <2>2, <2>6, <2>8, <3>3 DEF RunStartWrite
    <3> QED BY <3>1, <3>2, <3>3
  <2> QED BY <1>9, <2>7, <2>8
<1>10. CASE RunWriteAborted
  <2>1. \A h \in {"startWrite", "writeDone", "writeFail"} : Queued(h) => Queued(h)'
    BY <1>10, QueuedTail DEF RunWriteAborted
  <2> QED BY <1>10, <2>1 DEF RunWriteAborted, sendVars
<1>11. CASE HandleErrorClear
  BY <1>11 DEF HandleErrorClear
<1>12. CASE Bus
  <2>1. /\ \A h \in {"startWrite", "writeDone", "writeFail"} : Queued(h) => Queued(h)'
        /\ UNCHANGED <<tx_queue, tx_in_progress, caller, teardown>>
    BY <1>12, QueuedAppend DEF Bus, ReadReady, ReadFails, WriteReady, WriteFails,
       Complete, Handlers, txVars, sendVars
  <2>2. writes' = writes \/ Queued("writeDone")' \/ Queued("writeFail")'
    BY <1>12, QueuedAppend DEF Bus, ReadReady, ReadFails, WriteReady, WriteFails,
       Complete, Handlers, txVars
  <2> QED BY <2>1, <2>2
<1>13. CASE UNCHANGED vars
  BY <1>13 DEF vars, Queued
<1> QED
  BY <1>1, <1>2, <1>3, <1>4, <1>5, <1>6, <1>7, <1>8, <1>9, <1>10, <1>11, <1>12, <1>13
  DEF Next, SendFrame, IoThread

(* Whenever a frame is queued, something is still going to look at the queue,
   and a port that is not open was closed by its owner or reported its fault. *)
THEOREM AnyReopen == Spec => []AnyReopenInv
<1>1. AnyReopenInv /\ [Next]_vars => AnyReopenInv'
  BY NextType, NextStream, NextFate, NextWake DEF AnyReopenInv
<1> QED BY <1>1, InitAnyReopen, PTL DEF Spec

THEOREM QueuedFramesMove == Spec => []NoStall
<1>1. AnyReopenInv => NoStall
  BY DEF AnyReopenInv
<1> QED BY <1>1, AnyReopen, PTL

THEOREM FaultsAreTold == Spec => []NoSilentDeath
<1>1. AnyReopenInv => NoSilentDeath
  BY DEF AnyReopenInv, FateInv, NoSilentDeath
<1> QED BY <1>1, AnyReopen, PTL
-----------------------------------------------------------------------------
(* What holds when the owner reopens only after the context has drained.     *)

LEMMA InitQuietReopen == Init => QuietReopenInv
<1> SUFFICES ASSUME Init PROVE QuietReopenInv
  OBVIOUS
<1>1. stream = 0 /\ teardown = "none" /\ \A s \in 1..MaxOpens : fate[s] = "live"
  BY DEF Init
<1> QED
  BY <1>1, InitAnyReopen
  DEF QuietReopenInv, OneReadLoop, OneWriteInv, BrokenInv, NoPhantomFault

(* While the stream is open a teardown is over: only a drained port opens.   *)
LEMMA NextTeardown ==
  ASSUME EagerReopen = FALSE, TypeOK, StreamInv, [Next]_vars,
         teardown # "none" => stream = 0
  PROVE  (teardown # "none" => stream = 0)'
<1>1. ASSUME NEW c \in Callers, SendFrame(c) PROVE UNCHANGED <<teardown, stream>>
  BY <1>1 DEF SendFrame, SendCheck, SendQueueFull, SendEnqueue, SendPost, lifeVars
<1>2. CASE Open
  BY <1>2 DEF Open, Drained
<1>3. CASE CloseIdle \/ CloseCall
  BY <1>3 DEF CloseIdle, CloseCall, lifeVars
<1>4. CASE RunRead \/ RunStartWrite \/ RunWriteDone \/ RunWriteAborted
  BY <1>4 DEF RunRead, RunStartWrite, RunWriteDone, RunWriteAborted, lifeVars
<1>5. CASE RunReadFail \/ RunWriteFail \/ RunClose
  BY <1>5 DEF RunReadFail, RunWriteFail, RunClose, HandleErrorClose
<1>6. CASE HandleErrorClear
  BY <1>6 DEF HandleErrorClear
<1>7. CASE Bus
  BY <1>7 DEF Bus, ReadReady, ReadFails, WriteReady, WriteFails, lifeVars
<1>8. CASE UNCHANGED vars
  BY <1>8 DEF vars
<1> QED
  BY <1>1, <1>2, <1>3, <1>4, <1>5, <1>6, <1>7, <1>8 DEF Next, IoThread

(* A handler of no interest to a count leaves it alone, appended or run.     *)
LEMMA CountAppend ==
  ASSUME TypeOK, NEW x \in Handlers, ioq' = Append(ioq, x), NEW K, x \notin K
  PROVE  /\ NoneOf(ioq, K) <=> NoneOf(ioq', K)
         /\ OneOf(ioq, K) => OneOf(ioq', K)
BY NoneAppend, OneAppend DEF TypeOK

LEMMA CountTail ==
  ASSUME TypeOK, NEW k, Runs(k), ioq' = Tail(ioq), NEW K, k \notin K
  PROVE  /\ NoneOf(ioq, K) <=> NoneOf(ioq', K)
         /\ OneOf(ioq, K) => OneOf(ioq', K)
BY NoneTail, OneTail DEF TypeOK, Runs

LEMMA NextReadLoop ==
  ASSUME TypeOK, StreamInv, OneReadLoop, [Next]_vars,
         EagerReopen = FALSE
  PROVE  OneReadLoop'
<1> USE DEF OneReadLoop
<1>0. stream' = 0 => OneReadLoop'
  OBVIOUS
<1>1. ASSUME NEW c \in Callers, SendCheck(c) \/ SendQueueFull(c) \/ SendEnqueue(c)
      PROVE  OneReadLoop'
  BY <1>1 DEF SendCheck, SendQueueFull, SendEnqueue, lifeVars
<1>2. ASSUME NEW x \in Handlers, x \notin Reading, ioq' = Append(ioq, x),
             UNCHANGED <<reads, stream>>
      PROVE  OneReadLoop'
  BY <1>2, CountAppend
<1>3. ASSUME NEW k, k \notin Reading, Runs(k), ioq' = Tail(ioq), UNCHANGED <<reads, stream>>
      PROVE  OneReadLoop'
  BY <1>3, CountTail
<1>4. CASE (\E c \in Callers : SendPost(c)) \/ CloseCall
  <2>1. {"startWrite", "close"} \subseteq Handlers /\ "startWrite" \notin Reading
        /\ "close" \notin Reading
    BY DEF Handlers, Reading
  <2> QED BY <1>2, <1>4, <2>1 DEF SendPost, CloseCall, lifeVars
<1>5. CASE Open
  <2>1. NoneOf(ioq, Reading) /\ reads = 0
    BY <1>5 DEF Open, Drained, NoneOf, StreamInv
  <2>2. "read" \in Handlers /\ "read" \in Reading
    BY DEF Handlers, Reading
  <2>3. OneOf(ioq', Reading)
    BY <1>5, <2>1, <2>2, OneAppend DEF Open, TypeOK
  <2> QED BY <1>5, <2>1, <2>3 DEF Open
<1>6. CASE CloseIdle
  BY <1>6 DEF CloseIdle
<1>7. CASE RunRead
  <2>1. CASE stream # 0
    <3>1. Head(ioq) \in Reading /\ ioq # <<>>
      BY <1>7 DEF RunRead, Runs, Reading
    <3>2. OneOf(ioq, Reading) /\ reads = 0
      BY <2>1, <3>1, NoneTail DEF TypeOK
    <3>3. NoneOf(Tail(ioq), Reading)
      BY <3>1, <3>2, OneTail DEF TypeOK
    <3>4. reads' = 1 /\ ioq' = Tail(ioq)
      BY <1>7, <2>1, <3>2 DEF RunRead, ArmRead
    <3>5. NoneOf(ioq', Reading)
      BY <3>3, <3>4
    <3> QED BY <3>4, <3>5
  <2> QED BY <1>0, <1>7, <2>1 DEF RunRead, lifeVars
<1>8. CASE RunReadFail \/ RunWriteFail \/ RunClose
  BY <1>0, <1>8 DEF RunReadFail, RunWriteFail, RunClose, HandleErrorClose
<1>9. CASE RunWriteAborted
  BY <1>3, <1>9 DEF RunWriteAborted, lifeVars, Reading
<1>10. CASE RunStartWrite \/ RunWriteDone
  <2>1. CASE stream # 0
    <3>1. ioq' = Tail(ioq) /\ UNCHANGED <<reads, stream>>
      BY <1>10, <2>1 DEF RunStartWrite, RunWriteDone, StartWrite, ArmWrite, lifeVars
    <3>2. PICK k \in {"startWrite", "writeDone"} : Runs(k)
      BY <1>10 DEF RunStartWrite, RunWriteDone
    <3>3. k \notin Reading
      BY <3>2 DEF Reading
    <3> QED BY <1>3, <3>1, <3>2, <3>3
  <2> QED BY <1>0, <1>10, <2>1 DEF RunStartWrite, RunWriteDone, lifeVars
<1>11. CASE HandleErrorClear
  BY <1>11 DEF HandleErrorClear
<1>12. CASE ReadReady \/ ReadFails
  <2>1. PICK x \in {"readDone", "readFail"} : ioq' = Append(ioq, x)
    BY <1>12 DEF ReadReady, ReadFails, Complete
  <2>2. stream # 0 /\ stream' = stream /\ reads = 1 /\ reads' = 0 /\ NoneOf(ioq, Reading)
    BY <1>12 DEF ReadReady, ReadFails, lifeVars, StreamInv, TypeOK
  <2>3. x \in Handlers /\ x \in Reading
    BY <2>1 DEF Handlers, Reading
  <2>4. OneOf(ioq', Reading)
    BY <2>1, <2>2, <2>3, OneAppend DEF TypeOK
  <2> QED BY <2>2, <2>4
<1>13. CASE WriteReady \/ WriteFails
  BY <1>2, <1>13 DEF WriteReady, WriteFails, Complete, lifeVars, Handlers, Reading
<1>14. CASE UNCHANGED vars
  BY <1>14 DEF vars
<1> QED
  BY <1>1, <1>4, <1>5, <1>6, <1>7, <1>8, <1>9, <1>10, <1>11, <1>12, <1>13, <1>14
  DEF Next, SendFrame, IoThread, Bus

LEMMA NextOneWrite ==
  ASSUME TypeOK, StreamInv, OneWriteInv, [Next]_vars, teardown # "none" => stream = 0,
         EagerReopen = FALSE
  PROVE  OneWriteInv'
<1> USE DEF OneWriteInv
<1> DEFINE Aborted == {"writeAborted"}
<1>0. stream' = 0 => OneWriteInv'
  OBVIOUS
<1>1. Aborted \subseteq Writing
  BY DEF Writing
<1>2. ASSUME NEW c \in Callers, SendCheck(c) \/ SendQueueFull(c) \/ SendEnqueue(c)
      PROVE  OneWriteInv'
  BY <1>2 DEF SendCheck, SendQueueFull, SendEnqueue, lifeVars, txVars, Queued
<1>3. ASSUME NEW x \in Handlers, x \notin Writing, ioq' = Append(ioq, x),
             UNCHANGED <<writes, stream, tx_in_progress>>
      PROVE  OneWriteInv'
  BY <1>1, <1>3, CountAppend DEF Queued
<1>4. ASSUME NEW k, k \notin Writing, Runs(k), ioq' = Tail(ioq),
             UNCHANGED <<writes, stream, tx_in_progress>>
      PROVE  OneWriteInv'
  BY <1>1, <1>4, CountTail DEF Queued
<1>5. CASE (\E c \in Callers : SendPost(c)) \/ CloseCall
  <2>1. {"startWrite", "close"} \subseteq Handlers /\ "startWrite" \notin Writing
        /\ "close" \notin Writing
    BY DEF Handlers, Writing
  <2> QED BY <1>3, <1>5, <2>1 DEF SendPost, CloseCall, lifeVars, txVars
<1>6. CASE Open
  <2>1. NoneOf(ioq, Writing) /\ NoneOf(ioq, Aborted) /\ writes = 0
    BY <1>6 DEF Open, Drained, NoneOf, StreamInv
  <2>2. "read" \in Handlers /\ "read" \notin Writing /\ "read" \notin Aborted
    BY DEF Handlers, Writing
  <2>3. NoneOf(ioq', Writing) /\ NoneOf(ioq', Aborted)
    BY <1>6, <2>1, <2>2, CountAppend DEF Open
  <2> QED BY <1>6, <2>1, <2>3 DEF Open, txVars, Queued
<1>7. CASE CloseIdle
  BY <1>7 DEF CloseIdle, txVars, Queued
<1>8. CASE RunRead
  <2>1. CASE stream # 0
    <3>1. PICK k \in {"read", "readDone"} : Runs(k)
      BY <1>8 DEF RunRead
    <3>2. k \notin Writing
      BY <3>1 DEF Writing
    <3> QED BY <1>4, <1>8, <2>1, <3>1, <3>2 DEF RunRead, ArmRead, txVars, lifeVars
  <2> QED BY <1>0, <1>8, <2>1 DEF RunRead, lifeVars
<1>9. CASE RunReadFail \/ RunWriteFail \/ RunClose
  BY <1>0, <1>9 DEF RunReadFail, RunWriteFail, RunClose, HandleErrorClose
<1>10. CASE RunWriteAborted
  <2>1. CASE stream # 0
    <3>1. Queued("writeAborted")
      BY <1>10, NoneTail DEF RunWriteAborted, Runs, Queued, TypeOK
    <3> QED BY <2>1, <3>1
  <2> QED BY <1>0, <1>10, <2>1 DEF RunWriteAborted, lifeVars
<1>11. CASE RunStartWrite \/ RunWriteDone
  <2>0. stream' = stream
    BY <1>11 DEF RunStartWrite, RunWriteDone, lifeVars
  <2>1. CASE stream = 0
    BY <1>0, <2>0, <2>1
  <2>2. CASE stream # 0
    <3>1. ioq # <<>> /\ ioq' = Tail(ioq)
      BY <1>11, <2>2 DEF RunStartWrite, RunWriteDone, Runs, StartWrite, ArmWrite
    <3>2. NoneOf(ioq, Aborted) /\ NoneOf(ioq', Aborted)
      BY <2>2, <3>1, NoneTail DEF Queued, TypeOK
    <3>3. CASE RunStartWrite /\ tx_in_progress
      <4>1. "startWrite" \notin Writing
        BY DEF Writing
      <4> QED
        BY <1>4, <3>3, <3>1, <2>0, <4>1 DEF RunStartWrite, StartWrite
    <3>4. CASE RunStartWrite /\ ~tx_in_progress
      <4>1. writes = 0 /\ NoneOf(ioq, Writing)
        BY <2>2, <3>4
      <4>2. NoneOf(ioq', Writing)
        BY <3>1, <4>1, NoneTail DEF TypeOK
      <4>3. writes' = 0 \/ (writes' = 1 /\ tx_in_progress')
        BY <2>2, <3>4, <4>1 DEF RunStartWrite, StartWrite, ArmWrite
      <4> QED BY <3>2, <4>2, <4>3 DEF Queued
    <3>5. CASE RunWriteDone
      <4>1. Head(ioq) \in Writing
        BY <3>5 DEF RunWriteDone, Runs, Writing
      <4>2. writes = 0 /\ OneOf(ioq, Writing)
        BY <2>2, <3>1, <4>1, NoneTail DEF TypeOK
      <4>3. NoneOf(ioq', Writing)
        BY <3>1, <4>1, <4>2, OneTail DEF TypeOK
      <4>4. writes' = 0 \/ (writes' = 1 /\ tx_in_progress')
        BY <2>2, <3>5, <4>2 DEF RunWriteDone, StartWrite, ArmWrite
      <4> QED BY <3>2, <4>3, <4>4 DEF Queued
    <3> QED BY <1>11, <3>3, <3>4, <3>5
  <2> QED BY <2>1, <2>2
<1>12. CASE HandleErrorClear
  BY <1>12 DEF HandleErrorClear
<1>13. CASE ReadReady \/ ReadFails
  BY <1>3, <1>13 DEF ReadReady, ReadFails, Complete, lifeVars, txVars, Handlers, Writing
<1>14. CASE WriteReady \/ WriteFails
  <2>1. PICK x \in {"writeDone", "writeFail"} : ioq' = Append(ioq, x)
    BY <1>14 DEF WriteReady, WriteFails, Complete
  <2>2. /\ stream # 0 /\ writes = 1 /\ writes' = 0 /\ NoneOf(ioq, Writing)
        /\ tx_in_progress /\ tx_in_progress'
    BY <1>14 DEF WriteReady, WriteFails, StreamInv, TypeOK
  <2>3. x \in Handlers /\ x \in Writing /\ x \notin Aborted
    BY <2>1 DEF Handlers, Writing
  <2>4. OneOf(ioq', Writing)
    BY <2>1, <2>2, <2>3, OneAppend DEF TypeOK
  <2>5. NoneOf(ioq', Aborted)
    BY <2>1, <2>2, <2>3, NoneAppend DEF TypeOK, Queued
  <2> QED BY <2>2, <2>4, <2>5 DEF Queued
<1>15. CASE UNCHANGED vars
  BY <1>15 DEF vars, Queued
<1> QED
  BY <1>2, <1>5, <1>6, <1>7, <1>8, <1>9, <1>10, <1>11, <1>12, <1>13, <1>14, <1>15
  DEF Next, SendFrame, IoThread, Bus

LEMMA NextBroken ==
  ASSUME TypeOK, StreamInv, BrokenInv, [Next]_vars, EagerReopen = FALSE
  PROVE  BrokenInv'
<1> USE DEF BrokenInv
<1> DEFINE Failures == {"readFail", "writeFail"}
<1>0. stream' = 0 => BrokenInv'
  OBVIOUS
<1>1. ASSUME NEW c \in Callers, SendCheck(c) \/ SendQueueFull(c) \/ SendEnqueue(c)
      PROVE  BrokenInv'
  BY <1>1 DEF SendCheck, SendQueueFull, SendEnqueue, lifeVars, Queued
<1>2. ASSUME NEW x \in Handlers, x \notin Failures, ioq' = Append(ioq, x),
             UNCHANGED <<stream, broken>>
      PROVE  BrokenInv'
  <2>1. \A h \in Failures : Queued(h)' => Queued(h)
    BY <1>2, QueuedAppend
  <2> QED BY <1>2, <2>1
<1>3. ASSUME NEW k, Runs(k), ioq' = Tail(ioq), UNCHANGED <<stream, broken>>
      PROVE  BrokenInv'
  <2>1. \A h \in Failures : Queued(h)' => Queued(h)
    BY <1>3, QueuedTail
  <2> QED BY <1>3, <2>1
<1>4. CASE (\E c \in Callers : SendPost(c)) \/ CloseCall
  <2>1. {"startWrite", "close"} \subseteq Handlers
    BY DEF Handlers
  <2> QED BY <1>2, <1>4, <2>1 DEF SendPost, CloseCall, lifeVars
<1>5. CASE Open
  <2>1. "read" \in Handlers
    BY DEF Handlers
  <2>2. \A h \in Failures : ~Queued(h)
    BY <1>5 DEF Open, Drained, Queued, NoneOf
  <2>3. \A h \in Failures : ~Queued(h)'
    BY <1>5, <2>1, <2>2, QueuedAppend DEF Open
  <2> QED BY <2>3
<1>6. CASE CloseIdle
  BY <1>6 DEF CloseIdle, Queued
<1>7. CASE RunRead
  <2>1. CASE stream # 0
    <3>1. PICK k : Runs(k)
      BY <1>7 DEF RunRead
    <3> QED BY <1>3, <1>7, <2>1, <3>1 DEF RunRead, ArmRead, lifeVars
  <2> QED BY <1>0, <1>7, <2>1 DEF RunRead, lifeVars
<1>8. CASE RunReadFail \/ RunWriteFail \/ RunClose
  BY <1>0, <1>8 DEF RunReadFail, RunWriteFail, RunClose, HandleErrorClose
<1>9. CASE RunWriteAborted
  BY <1>3, <1>9 DEF RunWriteAborted, lifeVars
<1>10. CASE RunStartWrite \/ RunWriteDone
  <2>1. CASE stream # 0
    <3>1. PICK k : Runs(k)
      BY <1>10 DEF RunStartWrite, RunWriteDone
    <3>2. ioq' = Tail(ioq) /\ UNCHANGED <<stream, broken>>
      BY <1>10, <2>1 DEF RunStartWrite, RunWriteDone, StartWrite, ArmWrite, lifeVars
    <3> QED BY <1>3, <3>1, <3>2
  <2> QED BY <1>0, <1>10, <2>1 DEF RunStartWrite, RunWriteDone, lifeVars
<1>11. CASE HandleErrorClear
  BY <1>11 DEF HandleErrorClear, Queued
<1>12. CASE ReadReady \/ WriteReady
  <2>1. {"readDone", "writeDone"} \subseteq Handlers
    BY DEF Handlers
  <2> QED BY <1>2, <1>12, <2>1 DEF ReadReady, WriteReady, Complete, lifeVars
<1>13. CASE ReadFails \/ WriteFails
  BY <1>13 DEF ReadFails, WriteFails
<1>14. CASE UNCHANGED vars
  BY <1>14 DEF vars, Queued
<1> QED
  BY <1>1, <1>4, <1>5, <1>6, <1>7, <1>8, <1>9, <1>10, <1>11, <1>12, <1>13, <1>14
  DEF Next, SendFrame, IoThread, Bus

(* A handler that reports a fault on an open port is the session's own.      *)
LEMMA NextPhantom ==
  ASSUME TypeOK, StreamInv, BrokenInv, NoPhantomFault, [Next]_vars
  PROVE  NoPhantomFault'
<1> USE DEF NoPhantomFault
<1>1. ASSUME fate' = fate, broken \subseteq broken' PROVE NoPhantomFault'
  BY <1>1
<1>2. ASSUME NEW c \in Callers, SendFrame(c) PROVE NoPhantomFault'
  BY <1>1, <1>2 DEF SendFrame, SendCheck, SendQueueFull, SendEnqueue, SendPost, lifeVars
<1>3. CASE Open \/ CloseIdle \/ CloseCall
  BY <1>1, <1>3 DEF Open, CloseIdle, CloseCall, lifeVars
<1>4. CASE RunRead \/ RunStartWrite \/ RunWriteDone \/ RunWriteAborted
  BY <1>1, <1>4 DEF RunRead, RunStartWrite, RunWriteDone, RunWriteAborted, lifeVars
<1>5. CASE RunReadFail \/ RunWriteFail
  <2>1. PICK h \in {"readFail", "writeFail"} : Runs(h) /\ HandleErrorClose("fault")
    BY <1>5 DEF RunReadFail, RunWriteFail
  <2>2. Queued(h)
    BY <2>1, NoneTail DEF Runs, Queued, TypeOK
  <2>3. port_opened => session \in broken
    BY <2>2, <2>1 DEF BrokenInv, StreamInv, TypeOK
  <2>4. fate' = IF port_opened THEN [fate EXCEPT ![session] = "faulted"] ELSE fate
    BY <2>1 DEF HandleErrorClose, Ended
  <2>5. broken' = broken
    BY <2>1 DEF HandleErrorClose
  <2>6. fate \in [1..MaxOpens -> Fates]
    BY DEF TypeOK
  <2> QED BY <2>3, <2>4, <2>5, <2>6
<1>6. CASE RunClose
  <2>1. fate' = IF port_opened THEN [fate EXCEPT ![session] = "closed"] ELSE fate
    BY <1>6 DEF RunClose, HandleErrorClose, Ended
  <2>2. broken' = broken /\ fate \in [1..MaxOpens -> Fates]
    BY <1>6 DEF RunClose, HandleErrorClose, TypeOK
  <2> QED BY <2>1, <2>2
<1>7. CASE HandleErrorClear
  BY <1>7 DEF HandleErrorClear, TypeOK
<1>8. CASE Bus
  BY <1>1, <1>8 DEF Bus, ReadReady, ReadFails, WriteReady, WriteFails, lifeVars
<1>9. CASE UNCHANGED vars
  BY <1>1, <1>9 DEF vars
<1> QED
  BY <1>2, <1>3, <1>4, <1>5, <1>6, <1>7, <1>8, <1>9 DEF Next, IoThread

(* The owner that reopens only a drained port keeps the whole invariant.     *)
THEOREM QuietReopen == EagerReopen = FALSE => (Spec => []QuietReopenInv)
<1> SUFFICES ASSUME EagerReopen = FALSE PROVE Spec => []QuietReopenInv
  OBVIOUS
<1>1. QuietReopenInv /\ [Next]_vars => QuietReopenInv'
  <2> SUFFICES ASSUME QuietReopenInv, [Next]_vars PROVE QuietReopenInv'
    OBVIOUS
  <2>1. TypeOK /\ StreamInv /\ AnyReopenInv
    BY DEF QuietReopenInv, AnyReopenInv
  <2>2. AnyReopenInv'
    BY <2>1, NextType, NextStream, NextFate, NextWake DEF AnyReopenInv
  <2>3. (teardown # "none" => stream = 0)'
    BY <2>1, NextTeardown DEF QuietReopenInv
  <2>4. OneReadLoop' /\ OneWriteInv'
    BY <2>1, NextReadLoop, NextOneWrite DEF QuietReopenInv
  <2>5. BrokenInv' /\ NoPhantomFault'
    BY <2>1, NextBroken, NextPhantom DEF QuietReopenInv
  <2> QED BY <2>2, <2>3, <2>4, <2>5 DEF QuietReopenInv
<1> QED BY <1>1, InitQuietReopen, PTL DEF Spec

(* Two writes are never armed at once, so the frame the kernel copies out of
   tx_frame_ is the one its write was started for.                           *)
THEOREM OneWrite == EagerReopen = FALSE => (Spec => []OneWriteInFlight)
<1> SUFFICES ASSUME EagerReopen = FALSE PROVE Spec => []OneWriteInFlight
  OBVIOUS
<1>1. QuietReopenInv => OneWriteInFlight
  BY DEF QuietReopenInv, AnyReopenInv, StreamInv, OneWriteInv, OneWriteInFlight
<1> QED BY <1>1, QuietReopen, PTL

(* An open port keeps exactly one read loop.                                 *)
THEOREM OneReader == EagerReopen = FALSE => (Spec => []OneReadLoop)
<1> SUFFICES ASSUME EagerReopen = FALSE PROVE Spec => []OneReadLoop
  OBVIOUS
<1>1. QuietReopenInv => OneReadLoop
  BY DEF QuietReopenInv
<1> QED BY <1>1, QuietReopen, PTL

(* A fault that is reported happened in the session it ends.                 *)
THEOREM FaultsAreReal == EagerReopen = FALSE => (Spec => []NoPhantomFault)
<1> SUFFICES ASSUME EagerReopen = FALSE PROVE Spec => []NoPhantomFault
  OBVIOUS
<1>1. QuietReopenInv => NoPhantomFault
  BY DEF QuietReopenInv
<1> QED BY <1>1, QuietReopen, PTL

(* There is always one read loop, and never a second write.                  *)
THEOREM OneReadOneWrite == EagerReopen = FALSE => (Spec => []OneOfEach)
<1> SUFFICES ASSUME EagerReopen = FALSE PROVE Spec => []OneOfEach
  OBVIOUS
<1>1. OneWriteInFlight /\ OneReadLoop => OneOfEach
  BY DEF OneOfEach
<1> QED BY <1>1, OneWrite, OneReader, PTL

(* A dead session is always accounted for, and a reported one really broke.  *)
THEOREM FaultsAreSound == EagerReopen = FALSE => (Spec => []FaultsAreTrue)
<1> SUFFICES ASSUME EagerReopen = FALSE PROVE Spec => []FaultsAreTrue
  OBVIOUS
<1>1. NoSilentDeath /\ NoPhantomFault => FaultsAreTrue
  BY DEF FaultsAreTrue
<1> QED BY <1>1, FaultsAreTold, FaultsAreReal, PTL

-----------------------------------------------------------------------------
(* The port implements the abstract link.                                    *)

(* How the link's backlog follows the port's queue and the write in flight.  *)
LEMMA BacklogOps ==
  ASSUME NEW q \in Seq(Nat), NEW f \in Nat, NEW n \in Nat
  PROVE  /\ <<f>> \o q \in Seq(Nat)
         /\ <<f>> \o q # <<>>
         /\ Len(<<f>> \o q) = Len(q) + 1
         /\ Head(<<f>> \o q) = f
         /\ Tail(<<f>> \o q) = q
         /\ Append(<<f>> \o q, n) = <<f>> \o Append(q, n)
         /\ q # <<>> => <<Head(q)>> \o Tail(q) = q
<1>1. <<f>> \in Seq(Nat) /\ Len(<<f>>) = 1 /\ <<f>>[1] = f
  OBVIOUS
<1>2. <<f>> \o q \in Seq(Nat) /\ Len(<<f>> \o q) = Len(q) + 1 /\ <<f>> \o q # <<>>
  BY <1>1, ConcatProperties, LenProperties
<1>3. Head(<<f>> \o q) = f
  BY <1>1, <1>2, ConcatProperties, HeadTailProperties, LenProperties
<1>4. Tail(<<f>> \o q) = q
  BY <1>1, <1>2
<1>5. Append(<<f>> \o q, n) = <<f>> \o Append(q, n)
  BY <1>1, <1>2
<1>6. q # <<>> => <<Head(q)>> \o Tail(q) = q
  OBVIOUS
<1> QED BY <1>2, <1>3, <1>4, <1>5, <1>6

LEMMA BacklogSeq == TypeOK => LinkBacklog \in Seq(Nat)
BY BacklogOps DEF TypeOK, LinkBacklog

(* What a step of the port is to the link, by what it does to the backlog.   *)
LEMMA LinkStutters ==
  ASSUME UNCHANGED <<port_opened, accepted, wire, tx_queue, tx_frame>>, Unsent' <=> Unsent
  PROVE  [Link!LinkNext]_(Link!linkVars)
BY DEF LinkBacklog, Link!linkVars

LEMMA LinkHangup ==
  ASSUME TypeOK, port_opened, ~port_opened', ~Unsent',
         UNCHANGED <<accepted, wire, tx_queue, tx_frame>>, port_opened' \in BOOLEAN
  PROVE  Link!LinkNext
<1>1. LinkBacklog' = LinkBacklog \/ (LinkBacklog # <<>> /\ LinkBacklog' = Tail(LinkBacklog))
  BY BacklogOps DEF LinkBacklog, TypeOK
<1> QED BY <1>1 DEF Link!LinkNext, Link!Hangup

LEMMA LinkDiscard ==
  ASSUME TypeOK, ~port_opened, UNCHANGED <<port_opened, accepted, wire>>, ~Unsent, ~Unsent',
         tx_queue' = <<>> \/ tx_queue' = Tail(tx_queue) \/ tx_queue' = tx_queue, tx_queue # <<>>
  PROVE  [Link!LinkNext]_(Link!linkVars)
BY DEF LinkBacklog, Link!LinkNext, Link!Discard, Link!linkVars

(* StartWrite on an idle, open port only moves a frame from the queue's head
   into tx_frame_: to the link nothing happens.                              *)
LEMMA LinkStartWrite ==
  ASSUME TypeOK, stream # 0, writes = 0, ~Unsent, NoneOf(Tail(ioq), {"writeFail"}),
         StartWrite(FALSE, Tail(ioq)),
         UNCHANGED <<port_opened, accepted, wire, stream>>
  PROVE  [Link!LinkNext]_(Link!linkVars)
<1>1. CASE tx_queue = <<>>
  <2>1. ~Unsent' /\ tx_queue' = tx_queue
    BY <1>1 DEF StartWrite, Unsent, Queued
  <2> QED BY <2>1 DEF LinkBacklog, Link!linkVars
<1>2. CASE tx_queue # <<>>
  <2>1. Unsent' /\ tx_queue' = Tail(tx_queue) /\ tx_frame' = Head(tx_queue)
    BY <1>2 DEF StartWrite, ArmWrite, Unsent
  <2>2. LinkBacklog' = tx_queue /\ LinkBacklog = tx_queue
    BY <1>2, <2>1, BacklogOps DEF LinkBacklog, TypeOK
  <2> QED BY <2>2 DEF Link!linkVars
<1> QED BY <1>1, <1>2

(* StartWrite on a closed port takes a frame from the queue and loses it.     *)
LEMMA ClosedStartWrite ==
  ASSUME TypeOK, StreamInv, stream = 0, NEW busy, StartWrite(busy, Tail(ioq)),
         UNCHANGED <<port_opened, accepted, wire, stream>>
  PROVE  [Link!LinkNext]_(Link!linkVars)
<1>1. ~Unsent /\ ~Unsent' /\ ~port_opened
  BY DEF StreamInv, Unsent, StartWrite, ArmWrite, TypeOK
<1>2. CASE tx_queue' = tx_queue
  BY <1>1, <1>2 DEF LinkBacklog, Link!linkVars
<1>3. CASE tx_queue # <<>> /\ tx_queue' = Tail(tx_queue)
  BY <1>1, <1>3, LinkDiscard
<1> QED BY <1>2, <1>3 DEF StartWrite

LEMMA StepImplementsLink ==
  ASSUME QuietReopenInv, [Next]_vars, EagerReopen = FALSE
  PROVE  [Link!LinkNext]_(Link!linkVars)
<1> DEFINE Step == [Link!LinkNext]_(Link!linkVars)
<1>0. /\ TypeOK /\ StreamInv /\ OneWriteInv
      /\ port_opened <=> stream # 0
      /\ stream = 0 => ~Unsent /\ writes = 0
      /\ teardown # "none" => stream = 0
  BY DEF QuietReopenInv, AnyReopenInv, StreamInv, Unsent, TypeOK
<1>1. ASSUME NEW x \in Handlers, x # "writeFail", ioq' = Append(ioq, x),
             UNCHANGED <<stream, writes>>
      PROVE  Unsent' <=> Unsent
  BY <1>0, <1>1, QueuedAppend DEF Unsent
<1>2. ASSUME NEW k, k # "writeFail", Runs(k), ioq' = Tail(ioq), UNCHANGED <<stream, writes>>
      PROVE  Unsent' <=> Unsent
  BY <1>0, <1>2, QueuedTail DEF Unsent
<1>3. ASSUME NEW c \in Callers, SendCheck(c) \/ SendQueueFull(c) PROVE Step
  <2>1. UNCHANGED <<port_opened, accepted, wire, tx_queue, tx_frame, stream, writes, ioq>>
    BY <1>3 DEF SendCheck, SendQueueFull, txVars, lifeVars
  <2> QED BY <2>1, LinkStutters DEF Unsent, Queued
<1>4. ASSUME NEW c \in Callers, SendEnqueue(c) PROVE Step
  <2>1. Unsent' <=> Unsent
    BY <1>4 DEF SendEnqueue, lifeVars, Unsent, Queued
  <2>2. accepted' = accepted + 1 /\ accepted' \in Nat
    BY <1>0, <1>4 DEF SendEnqueue, TypeOK
  <2>3. Len(LinkBacklog) < kMaxTxQueue + 1
    BY <1>0, <1>4, BacklogOps, AsyncCanAssumption, LenProperties
    DEF SendEnqueue, LinkBacklog, TypeOK
  <2>4. LinkBacklog' = Append(LinkBacklog, accepted')
    BY <1>0, <1>4, <2>1, <2>2, BacklogOps DEF SendEnqueue, LinkBacklog, TypeOK
  <2>5. UNCHANGED <<port_opened, wire>>
    BY <1>4 DEF SendEnqueue, lifeVars
  <2> QED BY <2>2, <2>3, <2>4, <2>5 DEF Link!LinkNext, Link!Accept
<1>5. ASSUME NEW c \in Callers, SendPost(c) PROVE Step
  <2>1. UNCHANGED <<port_opened, accepted, wire, tx_queue, tx_frame, stream, writes>>
        /\ ioq' = Append(ioq, "startWrite")
    BY <1>5 DEF SendPost, txVars, lifeVars
  <2>2. "startWrite" \in Handlers
    BY DEF Handlers
  <2> QED BY <1>1, <2>1, <2>2, LinkStutters
<1>6. CASE Open
  <2>1. "read" \in Handlers
    BY DEF Handlers
  <2>2. ~Queued("writeFail")
    BY <1>6 DEF Open, Drained, Queued, NoneOf
  <2>3. ~Queued("writeFail")'
    BY <1>0, <1>6, <2>1, <2>2, QueuedAppend DEF Open
  <2>4. ~Unsent /\ ~Unsent'
    BY <1>0, <1>6, <2>3 DEF Open, Unsent, txVars, TypeOK
  <2>5. UNCHANGED <<LinkBacklog, accepted, wire>> /\ ~port_opened /\ port_opened' = TRUE
    BY <1>6, <2>4 DEF Open, LinkBacklog, txVars, sendVars
  <2> QED BY <2>5 DEF Link!LinkNext, Link!Connect
<1>7. CASE CloseIdle
  <2>1. UNCHANGED <<accepted, wire, tx_queue, tx_frame, stream, writes, ioq>>
        /\ port_opened' = port_opened
    BY <1>0, <1>7 DEF CloseIdle, txVars, sendVars, TypeOK
  <2> QED BY <2>1, LinkStutters DEF Unsent, Queued
<1>8. CASE CloseCall
  <2>1. UNCHANGED <<port_opened, accepted, wire, tx_queue, tx_frame, stream, writes>>
        /\ ioq' = Append(ioq, "close")
    BY <1>8 DEF CloseCall, txVars, sendVars, lifeVars
  <2>2. "close" \in Handlers
    BY DEF Handlers
  <2> QED BY <1>1, <2>1, <2>2, LinkStutters
<1>9. CASE RunRead
  <2>1. UNCHANGED <<port_opened, accepted, wire, tx_queue, tx_frame, stream, writes>>
    BY <1>9 DEF RunRead, txVars, sendVars, lifeVars
  <2>2. PICK k \in {"read", "readDone"} : Runs(k)
    BY <1>9 DEF RunRead
  <2>3. stream # 0 => ioq' = Tail(ioq)
    BY <1>9 DEF RunRead, ArmRead
  <2>4. Unsent' <=> Unsent
    <3>1. CASE stream = 0
      BY <1>0, <2>1, <3>1 DEF Unsent
    <3> QED BY <1>2, <2>1, <2>2, <2>3, <3>1
  <2> QED BY <2>1, <2>4, LinkStutters
<1>10. CASE RunReadFail \/ RunWriteFail \/ RunClose
  <2>1. /\ UNCHANGED <<accepted, wire, tx_queue, tx_frame>>
        /\ ~Unsent' /\ port_opened' = FALSE
    BY <1>10 DEF RunReadFail, RunWriteFail, RunClose, HandleErrorClose, sendVars, Unsent
  <2>2. CASE port_opened
    BY <1>0, <2>1, <2>2, LinkHangup
  <2>3. CASE ~port_opened
    BY <1>0, <2>1, <2>3, LinkStutters DEF TypeOK
  <2> QED BY <2>2, <2>3
<1>11. CASE RunStartWrite
  <2>1. UNCHANGED <<port_opened, accepted, wire, stream>>
    BY <1>11 DEF RunStartWrite, sendVars, lifeVars
  <2>2. CASE tx_in_progress
    <3>1. UNCHANGED <<tx_queue, tx_frame, writes>> /\ ioq' = Tail(ioq) /\ Runs("startWrite")
      BY <1>11, <2>2 DEF RunStartWrite, StartWrite
    <3> QED BY <1>2, <2>1, <3>1, LinkStutters
  <2>3. CASE ~tx_in_progress /\ stream # 0
    <3>1. writes = 0 /\ NoneOf(ioq, Writing)
      BY <1>0, <2>3 DEF OneWriteInv
    <3>2. NoneOf(Tail(ioq), {"writeFail"}) /\ ~Unsent
      BY <1>0, <1>11, <3>1, NoneTail DEF Writing, NoneOf, RunStartWrite, Runs, Unsent, Queued, TypeOK
    <3>3. StartWrite(FALSE, Tail(ioq))
      BY <1>11, <2>3 DEF RunStartWrite, StartWrite
    <3> QED BY <1>0, <2>1, <2>3, <3>1, <3>2, <3>3, LinkStartWrite
  <2>4. CASE stream = 0
    BY <1>0, <1>11, <2>1, <2>4, ClosedStartWrite DEF RunStartWrite
  <2> QED BY <2>2, <2>3, <2>4
<1>12. CASE RunWriteDone
  <2>1. UNCHANGED <<port_opened, accepted, wire, stream>>
    BY <1>12 DEF RunWriteDone, sendVars, lifeVars
  <2>2. CASE stream # 0
    <3>1. Head(ioq) = "writeDone" /\ ioq # <<>> /\ "writeDone" \in Writing
      BY <1>12 DEF RunWriteDone, Runs, Writing
    <3>2. writes = 0 /\ OneOf(ioq, Writing)
      BY <1>0, <2>2, <3>1, NoneTail DEF OneWriteInv, TypeOK
    <3>3. NoneOf(Tail(ioq), Writing)
      BY <1>0, <3>1, <3>2, OneTail DEF TypeOK
    <3>4. NoneOf(Tail(ioq), {"writeFail"})
      BY <3>3 DEF Writing, NoneOf
    <3>5. ~Unsent
      BY <1>0, <3>1, <3>2, <3>4, NoneTail DEF Unsent, Queued, TypeOK
    <3> QED BY <1>0, <1>12, <2>1, <2>2, <3>2, <3>4, <3>5, LinkStartWrite DEF RunWriteDone
  <2>3. CASE stream = 0
    BY <1>0, <1>12, <2>1, <2>3, ClosedStartWrite DEF RunWriteDone
  <2> QED BY <2>2, <2>3
<1>13. CASE RunWriteAborted
  <2>1. /\ UNCHANGED <<port_opened, accepted, wire, tx_queue, tx_frame, stream, writes>>
        /\ ioq' = Tail(ioq) /\ Runs("writeAborted")
    BY <1>13 DEF RunWriteAborted, sendVars, lifeVars
  <2> QED BY <1>2, <2>1, LinkStutters
<1>14. CASE HandleErrorClear
  <2>1. stream = 0 /\ ~port_opened /\ ~Unsent
    BY <1>0, <1>14 DEF HandleErrorClear
  <2>2. UNCHANGED <<port_opened, accepted, wire, stream, writes, tx_frame>> /\ tx_queue' = <<>>
    BY <1>14 DEF HandleErrorClear, sendVars
  <2>3. ~Unsent'
    BY <1>0, <2>1, <2>2 DEF Unsent
  <2>4. CASE tx_queue = <<>>
    BY <2>1, <2>2, <2>3, <2>4, LinkStutters
  <2> QED BY <1>0, <2>1, <2>2, <2>3, <2>4, LinkDiscard
<1>15. CASE ReadReady \/ ReadFails
  <2>1. UNCHANGED <<port_opened, accepted, wire, tx_queue, tx_frame, stream, writes>>
    BY <1>15 DEF ReadReady, ReadFails, txVars, sendVars, lifeVars
  <2>2. PICK x \in {"readDone", "readFail"} : ioq' = Append(ioq, x)
    BY <1>15 DEF ReadReady, ReadFails, Complete
  <2>3. x \in Handlers /\ x # "writeFail"
    BY <2>2 DEF Handlers
  <2> QED BY <1>1, <2>1, <2>2, <2>3, LinkStutters
<1>16. CASE WriteReady
  <2>1. /\ stream # 0 /\ port_opened /\ Unsent /\ writes = 1 /\ writes' = 0
        /\ NoneOf(ioq, Writing)
    BY <1>0, <1>16 DEF WriteReady, OneWriteInv, Unsent, TypeOK
  <2>2. "writeDone" \in Handlers
    BY DEF Handlers
  <2>3. ~Queued("writeFail")
    BY <2>1 DEF Queued, NoneOf, Writing
  <2>4. ~Queued("writeFail")'
    BY <1>0, <1>16, <2>2, <2>3, QueuedAppend DEF WriteReady, Complete
  <2>5. ~Unsent' /\ UNCHANGED <<tx_queue, tx_frame, port_opened, accepted>>
    BY <1>16, <2>1, <2>4 DEF WriteReady, Unsent, sendVars, lifeVars
  <2>6. LinkBacklog # <<>> /\ Head(LinkBacklog) = tx_frame /\ LinkBacklog' = Tail(LinkBacklog)
    BY <1>0, <2>1, <2>5, BacklogOps DEF LinkBacklog, TypeOK
  <2> QED BY <1>16, <2>1, <2>5, <2>6 DEF WriteReady, Link!LinkNext, Link!Transmit
<1>17. CASE WriteFails
  <2>1. "writeFail" \in Handlers
    BY DEF Handlers
  <2>2. Queued("writeFail")'
    BY <1>0, <1>17, <2>1, QueuedAppend DEF WriteFails, Complete
  <2>3. Unsent /\ stream # 0
    BY <1>0, <1>17 DEF WriteFails, Unsent
  <2>4. Unsent' /\ UNCHANGED <<port_opened, accepted, wire, tx_queue, tx_frame>>
    BY <1>17, <2>2, <2>3 DEF WriteFails, Unsent, sendVars
  <2> QED BY <2>3, <2>4, LinkStutters
<1>18. CASE UNCHANGED vars
  BY <1>18, LinkStutters DEF vars, Unsent, Queued
<1> QED
  BY <1>3, <1>4, <1>5, <1>6, <1>7, <1>8, <1>9, <1>10, <1>11, <1>12, <1>13, <1>14,
     <1>15, <1>16, <1>17, <1>18
  DEF Next, SendFrame, IoThread, Bus

(* Every behaviour of a port whose owner reopens only when it has drained is
   a behaviour of the link.                                                  *)
THEOREM PortImplementsLink == EagerReopen = FALSE => (Spec => ImplementsLink)
<1> SUFFICES ASSUME EagerReopen = FALSE PROVE Spec => ImplementsLink
  OBVIOUS
<1>1. Init => Link!LinkInit
  BY DEF Init, Link!LinkInit, LinkBacklog, Unsent
<1>2. QuietReopenInv /\ [Next]_vars => [Link!LinkNext]_(Link!linkVars)
  BY StepImplementsLink
<1> QED BY <1>1, <1>2, QuietReopen, PTL DEF Spec, ImplementsLink, Link!LinkSpec

LinkFacts == INSTANCE CanLink_proof WITH
               Capacity <- kMaxTxQueue + 1,
               open <- port_opened,
               backlog <- LinkBacklog

(* So frames reach the bus in the order SendFrame accepted them, none twice. *)
THEOREM FramesInOrder == EagerReopen = FALSE => (Spec => []Link!WireInOrder)
<1> SUFFICES ASSUME EagerReopen = FALSE PROVE Spec => []Link!WireInOrder
  OBVIOUS
<1>1. Link!LinkSpec => LinkFacts!LinkSpec
  BY DEF Link!LinkSpec, LinkFacts!LinkSpec, Link!LinkInit, LinkFacts!LinkInit,
     Link!LinkNext, LinkFacts!LinkNext, Link!linkVars, LinkFacts!linkVars,
     Link!Connect, LinkFacts!Connect, Link!Accept, LinkFacts!Accept,
     Link!Transmit, LinkFacts!Transmit, Link!Hangup, LinkFacts!Hangup,
     Link!Discard, LinkFacts!Discard
<1>2. LinkFacts!WireInOrder <=> Link!WireInOrder
  BY DEF Link!WireInOrder, LinkFacts!WireInOrder, Link!Increasing, LinkFacts!Increasing
<1> QED BY <1>1, <1>2, PortImplementsLink, LinkFacts!InOrder, PTL DEF ImplementsLink
=============================================================================
