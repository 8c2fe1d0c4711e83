------------------------------ MODULE AsyncCan ------------------------------
(***************************************************************************)
(* The SocketCAN port of transport/async_port: async_can.{hpp,cpp} on the  *)
(* shared io_context of io_service.hpp.                                    *)
(*                                                                         *)
(* Threads: callers run SendFrame, one owner runs Open and Close, and one  *)
(* I/O thread runs handlers from a FIFO queue.  asio's reactor (external)  *)
(* completes the armed reads and writes by queueing their handler.         *)
(*                                                                         *)
(* A frame is the number of its acceptance.  A failing Open() leaves every *)
(* field as it was and a frame with dlc > 8 is refused before it touches   *)
(* any: both are stuttering steps here.  The completion of an aborted read *)
(* does nothing and is not queued.                                         *)
(***************************************************************************)
EXTENDS HandlerQueue

CONSTANTS
  Callers,      \* threads that call SendFrame
  kMaxTxQueue,  \* bound on the TX backlog (256 in the code)
  EagerReopen,  \* TRUE: the owner may Open() while handlers of the closed
                \* session are still queued; FALSE: it waits until they ran
  MaxOpens,     \* model bound: successful Open() calls
  MaxSends      \* model bound: SendFrame() calls that begin after this many
                \* acceptances are not explored

ASSUME AsyncCanAssumption ==
  /\ kMaxTxQueue \in Nat \ {0}
  /\ EagerReopen \in BOOLEAN
  /\ MaxOpens \in Nat
  /\ MaxSends \in Nat

VARIABLES
  port_opened,     \* port_opened_, the atomic flag callers read
  stream,          \* socketcan_stream_: 0 closed, else the session it serves
  session,         \* how many times the port was opened
  tx_queue,        \* tx_queue_
  tx_in_progress,  \* tx_in_progress_
  tx_frame,        \* tx_frame_, the buffer every armed write sends from
  reads,           \* async_read_some operations armed in the reactor
  writes,          \* async_write_some operations armed in the reactor
  ioq,             \* handlers queued on the io_context
  teardown,        \* I/O thread inside HandleError: stream closed, queue not yet
  caller,          \* [Callers -> step of SendFrame]
  owner,           \* "closing" while Close() waits on its promise
  accepted,        \* history: frames SendFrame answered with kOk
  wire,            \* history: frames written to the bus, in order
  fate,            \* history: how each session ended
  broken           \* history: sessions in which a read or write really failed

txVars == <<tx_queue, tx_in_progress, tx_frame, writes, wire>>
sendVars == <<caller, accepted>>
lifeVars == <<port_opened, stream, session, fate, broken>>
vars == <<port_opened, stream, session, tx_queue, tx_in_progress, tx_frame,
          reads, writes, ioq, teardown, caller, owner, accepted, wire, fate, broken>>

Handlers == {"read", "readDone", "readFail", "startWrite", "writeDone",
             "writeFail", "writeAborted", "close"}
Fates == {"live", "closed", "faulted", "told"}

TypeOK ==
  /\ port_opened \in BOOLEAN
  /\ stream \in Nat
  /\ session \in Nat
  /\ tx_queue \in Seq(Nat)
  /\ tx_in_progress \in BOOLEAN
  /\ tx_frame \in Nat
  /\ reads \in Nat
  /\ writes \in Nat
  /\ ioq \in Seq(Handlers)
  /\ teardown \in {"none", "close", "silent", "report"}
  /\ caller \in [Callers -> {"idle", "checked", "enqueued"}]
  /\ owner \in {"idle", "closing"}
  /\ accepted \in Nat
  /\ wire \in Seq(Nat)
  /\ fate \in [1..MaxOpens -> Fates]
  /\ broken \in SUBSET Nat

Init ==
  /\ port_opened = FALSE
  /\ stream = 0
  /\ session = 0
  /\ tx_queue = <<>>
  /\ tx_in_progress = FALSE
  /\ tx_frame = 0
  /\ reads = 0
  /\ writes = 0
  /\ ioq = <<>>
  /\ teardown = "none"
  /\ caller = [c \in Callers |-> "idle"]
  /\ owner = "idle"
  /\ accepted = 0
  /\ wire = <<>>
  /\ fate = [s \in 1..MaxOpens |-> "live"]
  /\ broken = {}

-----------------------------------------------------------------------------
(* SendFrame, on a caller thread: the port is checked outside the lock, the  *)
(* frame is queued under it, and the drain is posted after it is released.   *)

\* Not open: kNotOpen.  Nothing but the caller's own step changes.
SendCheck(c) ==
  /\ caller[c] = "idle"
  /\ accepted < MaxSends
  /\ port_opened
  /\ caller' = [caller EXCEPT ![c] = "checked"]
  /\ UNCHANGED <<accepted, txVars, lifeVars, reads, ioq, teardown, owner>>

SendQueueFull(c) ==
  /\ caller[c] = "checked"
  /\ Len(tx_queue) >= kMaxTxQueue
  /\ caller' = [caller EXCEPT ![c] = "idle"]
  /\ UNCHANGED <<accepted, txVars, lifeVars, reads, ioq, teardown, owner>>

\* Mistake: the limit compared with > instead of >=.
SendEnqueueOneMore(c) ==
  /\ caller[c] = "checked"
  /\ Len(tx_queue) <= kMaxTxQueue
  /\ accepted' = accepted + 1
  /\ tx_queue' = Append(tx_queue, accepted')
  /\ caller' = [caller EXCEPT ![c] = "enqueued"]
  /\ UNCHANGED <<tx_in_progress, tx_frame, writes, wire, lifeVars, reads, ioq,
                 teardown, owner>>

SendEnqueue(c) ==
  /\ caller[c] = "checked"
  /\ Len(tx_queue) < kMaxTxQueue
  /\ accepted' = accepted + 1
  /\ tx_queue' = Append(tx_queue, accepted')
  /\ caller' = [caller EXCEPT ![c] = "enqueued"]
  /\ UNCHANGED <<tx_in_progress, tx_frame, writes, wire, lifeVars, reads, ioq,
                 teardown, owner>>

SendPost(c) ==
  /\ caller[c] = "enqueued"
  /\ ioq' = Append(ioq, "startWrite")
  /\ caller' = [caller EXCEPT ![c] = "idle"]
  /\ UNCHANGED <<accepted, txVars, lifeVars, reads, teardown, owner>>

SendFrame(c) == SendCheck(c) \/ SendQueueFull(c) \/ SendEnqueue(c) \/ SendPost(c)

-----------------------------------------------------------------------------
(* Open and Close, on the owner's thread.                                    *)

\* Nothing of the closed session is left to run.
Drained == ioq = <<>> /\ teardown = "none"

Open ==
  /\ owner = "idle"
  /\ ~port_opened
  /\ stream = 0
  /\ session < MaxOpens
  /\ EagerReopen \/ Drained
  /\ session' = session + 1
  /\ stream' = session'
  /\ port_opened' = TRUE
  /\ ioq' = Append(ioq, "read")
  /\ UNCHANGED <<txVars, sendVars, fate, broken, reads, teardown, owner>>

CloseIdle ==
  /\ owner = "idle"
  /\ stream = 0
  /\ port_opened' = FALSE
  /\ UNCHANGED <<stream, session, fate, broken, txVars, sendVars, reads, ioq,
                 teardown, owner>>

CloseCall ==
  /\ owner = "idle"
  /\ stream # 0
  /\ ioq' = Append(ioq, "close")
  /\ owner' = "closing"
  /\ UNCHANGED <<txVars, sendVars, lifeVars, reads, teardown>>

-----------------------------------------------------------------------------
(* Handlers, on the I/O thread.                                              *)

Runs(h) == teardown = "none" /\ ioq # <<>> /\ Head(ioq) = h

\* async_read_some: on a closed descriptor it completes at once with an error.
ArmRead(q) ==
  \/ /\ stream # 0
     /\ reads' = reads + 1
     /\ ioq' = q
  \/ /\ stream = 0
     /\ ioq' = Append(q, "readFail")
     /\ UNCHANGED reads

ArmWrite(q) ==
  \/ /\ stream # 0
     /\ writes' = writes + 1
     /\ ioq' = q
  \/ /\ stream = 0
     /\ ioq' = Append(q, "writeFail")
     /\ UNCHANGED writes

\* Mistake: tx_in_progress_ is not looked at.
StartWriteBusy(busy, q) ==
  \/ /\ tx_queue = <<>>
     /\ tx_in_progress' = busy
     /\ ioq' = q
     /\ UNCHANGED <<tx_queue, tx_frame, writes>>
  \/ /\ tx_queue # <<>>
     /\ tx_in_progress' = TRUE
     /\ tx_frame' = Head(tx_queue)
     /\ tx_queue' = Tail(tx_queue)
     /\ ArmWrite(q)

StartWrite(busy, q) ==
  \/ /\ busy \/ tx_queue = <<>>
     /\ tx_in_progress' = busy
     /\ ioq' = q
     /\ UNCHANGED <<tx_queue, tx_frame, writes>>
  \/ /\ ~busy
     /\ tx_queue # <<>>
     /\ tx_in_progress' = TRUE
     /\ tx_frame' = Head(tx_queue)
     /\ tx_queue' = Tail(tx_queue)
     /\ ArmWrite(q)

\* How the session that HandleError ends will be remembered.
Ended(how) ==
  fate' = IF port_opened THEN [fate EXCEPT ![session] = how] ELSE fate

\* Mistake: the open flag is cleared before it is read.
HandleErrorCloseSwapped(kind) ==
  /\ ioq' = Tail(ioq) \o [i \in 1..writes |-> "writeAborted"]
  /\ stream' = 0
  /\ reads' = 0
  /\ writes' = 0
  /\ port_opened' = FALSE
  /\ teardown' = IF kind = "fault" THEN "silent" ELSE "close"
  /\ Ended(IF kind = "fault" THEN "faulted" ELSE "closed")
  /\ UNCHANGED <<session, broken, tx_queue, tx_frame, wire, sendVars, owner>>

\* First half of HandleError: cancel and close the stream, clear the open flag.
\* The cancelled writes complete with operation_aborted.
HandleErrorClose(kind) ==
  /\ ioq' = Tail(ioq) \o [i \in 1..writes |-> "writeAborted"]
  /\ stream' = 0
  /\ reads' = 0
  /\ writes' = 0
  /\ port_opened' = FALSE
  /\ teardown' = IF kind = "fault" THEN IF port_opened THEN "report" ELSE "silent"
                 ELSE "close"
  /\ Ended(IF kind = "fault" THEN "faulted" ELSE "closed")
  /\ UNCHANGED <<session, broken, tx_queue, tx_frame, wire, sendVars, owner>>

\* Mistake: the queue of the closed port is kept.
HandleErrorClearKeeps ==
  /\ teardown # "none"
  /\ tx_in_progress' = FALSE
  /\ teardown' = "none"
  /\ owner' = IF teardown = "close" THEN "idle" ELSE owner
  /\ fate' = [s \in 1..MaxOpens |->
                IF teardown = "report" /\ fate[s] = "faulted" THEN "told" ELSE fate[s]]
  /\ UNCHANGED <<port_opened, stream, session, broken, tx_frame, reads, writes,
                 wire, ioq, tx_queue, sendVars>>

\* Second half: clear the queue under the lock, then report the fault through
\* err_cb_, or fulfil the promise Close() waits on.
HandleErrorClear ==
  /\ teardown # "none"
  /\ tx_queue' = <<>>
  /\ tx_in_progress' = FALSE
  /\ teardown' = "none"
  /\ owner' = IF teardown = "close" THEN "idle" ELSE owner
  /\ fate' = [s \in 1..MaxOpens |->
                IF teardown = "report" /\ fate[s] = "faulted" THEN "told" ELSE fate[s]]
  /\ UNCHANGED <<port_opened, stream, session, broken, tx_frame, reads, writes,
                 wire, ioq, sendVars>>

RunRead ==
  /\ Runs("read") \/ Runs("readDone")    \* a completed read calls rcv_cb_ first
  /\ ArmRead(Tail(ioq))
  /\ UNCHANGED <<txVars, sendVars, lifeVars, teardown, owner>>

RunReadFail ==
  /\ Runs("readFail")
  /\ HandleErrorClose("fault")
  /\ UNCHANGED tx_in_progress

RunStartWrite ==
  /\ Runs("startWrite")
  /\ StartWrite(tx_in_progress, Tail(ioq))
  /\ UNCHANGED <<wire, sendVars, lifeVars, reads, teardown, owner>>

\* Mistake: a completed write does not look for the next frame.
RunWriteDoneStops ==
  /\ Runs("writeDone")
  /\ tx_in_progress' = FALSE
  /\ ioq' = Tail(ioq)
  /\ UNCHANGED <<tx_queue, tx_frame, writes, wire, sendVars, lifeVars, reads,
                 teardown, owner>>

RunWriteDone ==
  /\ Runs("writeDone")
  /\ StartWrite(FALSE, Tail(ioq))
  /\ UNCHANGED <<wire, sendVars, lifeVars, reads, teardown, owner>>

RunWriteFail ==
  /\ Runs("writeFail")
  /\ tx_in_progress' = FALSE
  /\ HandleErrorClose("fault")

RunWriteAborted ==
  /\ Runs("writeAborted")
  /\ tx_in_progress' = FALSE
  /\ ioq' = Tail(ioq)
  /\ UNCHANGED <<tx_queue, tx_frame, writes, wire, sendVars, lifeVars, reads,
                 teardown, owner>>

\* Mistake: the posted Close() returns early when a fault closed the port first.
RunCloseIfOpen ==
  /\ Runs("close")
  /\ IF port_opened
       THEN HandleErrorClose("close") /\ UNCHANGED tx_in_progress
       ELSE /\ ioq' = Tail(ioq)
            /\ UNCHANGED <<txVars, sendVars, lifeVars, reads, teardown, owner>>

RunClose ==
  /\ Runs("close")
  /\ HandleErrorClose("close")
  /\ UNCHANGED tx_in_progress

IoThread ==
  \/ RunRead \/ RunReadFail
  \/ RunStartWrite \/ RunWriteDone \/ RunWriteFail \/ RunWriteAborted
  \/ RunClose \/ HandleErrorClear

-----------------------------------------------------------------------------
(* The reactor: an armed operation completes between two handlers.           *)

Complete(h) == teardown = "none" /\ ioq' = Append(ioq, h)

\* Mistake: the completion of one read is delivered twice.
ReadReadyTwice ==
  /\ reads' = reads - 1
  /\ Complete("readDone")
  /\ UNCHANGED <<txVars, sendVars, lifeVars, teardown, owner>>

ReadReady ==
  /\ reads > 0
  /\ reads' = reads - 1
  /\ Complete("readDone")
  /\ UNCHANGED <<txVars, sendVars, lifeVars, teardown, owner>>

ReadFails ==
  /\ reads > 0
  /\ reads' = reads - 1
  /\ Complete("readFail")
  /\ broken' = broken \cup {stream}
  /\ UNCHANGED <<txVars, sendVars, port_opened, stream, session, fate, teardown, owner>>

\* The kernel copies whatever tx_frame_ holds at this moment.
WriteReady ==
  /\ writes > 0
  /\ writes' = writes - 1
  /\ wire' = Append(wire, tx_frame)
  /\ Complete("writeDone")
  /\ UNCHANGED <<tx_queue, tx_in_progress, tx_frame, sendVars, lifeVars, reads,
                 teardown, owner>>

WriteFails ==
  /\ writes > 0
  /\ writes' = writes - 1
  /\ Complete("writeFail")
  /\ broken' = broken \cup {stream}
  /\ UNCHANGED <<tx_queue, tx_in_progress, tx_frame, wire, sendVars, port_opened,
                 stream, session, fate, reads, teardown, owner>>

Bus == ReadReady \/ ReadFails \/ WriteReady \/ WriteFails

-----------------------------------------------------------------------------
Next ==
  \/ \E c \in Callers : SendFrame(c)
  \/ Open \/ CloseIdle \/ CloseCall
  \/ IoThread
  \/ Bus

Spec == Init /\ [][Next]_vars

\* The I/O thread runs what is queued, a caller inside SendFrame finishes it,
\* and a live bus completes a write.  Nobody has to send, open or close.
FairSpec ==
  /\ Spec
  /\ WF_vars(IoThread)
  /\ \A c \in Callers : WF_vars(SendQueueFull(c) \/ SendEnqueue(c) \/ SendPost(c))
  /\ WF_vars(WriteReady \/ WriteFails)

-----------------------------------------------------------------------------
(* Properties.                                                               *)

Reading == {"read", "readDone", "readFail"}
Writing == {"writeDone", "writeFail", "writeAborted"}
Queued(h) == ~NoneOf(ioq, {h})

\* async_can.cpp:184: "One write in flight; tx_frame_ owns the bytes for the
\* write": no second write is armed while the reactor still holds the first.
OneWriteInFlight == writes <= 1

\* An open port has exactly one read loop: either the read is armed or the one
\* handler that will arm it again is queued.  None, and the port is deaf; two,
\* and both fill the same rcv_frame_.
OneReadLoop ==
  stream # 0 => \/ reads = 1 /\ NoneOf(ioq, Reading)
                \/ reads = 0 /\ OneOf(ioq, Reading)

\* Never two writes on tx_frame_, never two reads or none on rcv_frame_.
OneOfEach == OneWriteInFlight /\ OneReadLoop

\* No lost wakeup: whenever the TX queue holds a frame, some handler, armed
\* write or sender is still going to look at the queue.
NoStall ==
  tx_queue # <<>> =>
    \/ Queued("startWrite") \/ Queued("writeDone") \/ Queued("writeFail")
    \/ writes > 0
    \/ teardown # "none"
    \/ \E c \in Callers : caller[c] = "enqueued"

\* ADR 0003: "never a silent dead port".  Once HandleError has finished, the
\* last session of a port that is not open was closed by its owner or its fault
\* was reported through err_cb_.
NoSilentDeath ==
  (session > 0 /\ ~port_opened /\ teardown = "none") =>
    fate[session] \in {"closed", "told"}

\* A session is reported faulted only if one of its own reads or writes failed,
\* never because of an operation left over from an earlier session.
NoPhantomFault ==
  \A s \in 1..MaxOpens : fate[s] \in {"faulted", "told"} => s \in broken

\* A fault is reported when there was one, and only then.
FaultsAreTrue == NoSilentDeath /\ NoPhantomFault

(* What makes these inductive, in two parts: what holds however early the      *)
(* owner reopens, and what holds when it waits until the context has drained.  *)

StreamInv ==
  /\ port_opened <=> stream # 0
  /\ stream # 0 => stream = session
  /\ stream = 0 => reads = 0 /\ writes = 0
  /\ session \in 0..MaxOpens

\* tx_in_progress_ never outlives the write that will clear it.
BusyInv ==
  (tx_in_progress /\ teardown = "none") =>
    writes > 0 \/ Queued("writeDone") \/ Queued("writeFail")

FateInv ==
  (session > 0 /\ ~port_opened) =>
    \/ fate[session] \in {"closed", "told"}
    \/ teardown = "report" /\ fate[session] = "faulted"

AnyReopenInv == TypeOK /\ StreamInv /\ BusyInv /\ FateInv /\ NoStall

\* Only the write of the open session is armed or queued, and the flag says so.
OneWriteInv ==
  stream # 0 =>
    /\ \/ writes = 0 /\ NoneOf(ioq, Writing)
       \/ tx_in_progress /\ writes = 1 /\ NoneOf(ioq, Writing)
       \/ tx_in_progress /\ writes = 0 /\ OneOf(ioq, Writing)
    /\ ~Queued("writeAborted")

BrokenInv ==
  stream # 0 /\ (Queued("readFail") \/ Queued("writeFail")) => stream \in broken

QuietReopenInv ==
  /\ AnyReopenInv
  /\ teardown # "none" => stream = 0
  /\ OneReadLoop
  /\ OneWriteInv
  /\ BrokenInv
  /\ NoPhantomFault

\* The write in flight has not reached the bus: it is armed, or it failed and
\* its handler has not hung up yet.
Unsent == writes > 0 \/ (stream # 0 /\ Queued("writeFail"))

LinkBacklog == IF Unsent THEN <<tx_frame>> \o tx_queue ELSE tx_queue

\* The port implements the abstract link: what is in flight and what is queued
\* is its backlog.
Link == INSTANCE CanLink WITH
          Capacity <- kMaxTxQueue + 1,
          open <- port_opened,
          backlog <- LinkBacklog
ImplementsLink == Link!LinkSpec

\* A frame leaves the TX queue in the end: it is transmitted, or its session
\* ends.
FrameLeaves ==
  \A n \in 1..MaxSends :
    ~NoneOf(tx_queue, {n}) ~> NoneOf(tx_queue, {n})

\* Close() returns: its promise is kept whatever is queued before it.
CloseReturns == owner = "closing" ~> owner = "idle"
=============================================================================
