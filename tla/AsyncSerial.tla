----------------------------- MODULE AsyncSerial -----------------------------
(***************************************************************************)
(* The serial port of transport/async_port: async_serial.{hpp,cpp} on the  *)
(* shared io_context, over the ring buffer of ring_buffer.hpp.             *)
(*                                                                         *)
(* The threads are those of AsyncCan: callers run SendBytes, one owner     *)
(* runs Open and Close, one I/O thread runs handlers, and the reactor      *)
(* (external) completes the armed operations.  The owner opens the port    *)
(* again only when nothing of the last session is left to run.             *)
(*                                                                         *)
(* A byte is the number of its acceptance and the ring is the sequence of  *)
(* its unread bytes (RingBuffer shows that it is one).  SendBytes of no    *)
(* bytes or of more than the ring holds touches nothing: both are          *)
(* stuttering steps here, as is an Open() that fails before the            *)
(* descriptor is open.  The completion of an aborted read does nothing and *)
(* is not queued.                                                          *)
(***************************************************************************)
EXTENDS HandlerQueue

CONSTANTS
  Callers,     \* threads that call SendBytes
  Capacity,    \* bytes the ring holds: rxtx_buffer_size - 1
  MaxLen,      \* model bound: longest SendBytes call
  MaxOpens,    \* model bound: Open() calls that open the descriptor
  MaxBytes     \* model bound: SendBytes calls that begin after this many
               \* accepted bytes are not explored

ASSUME AsyncSerialAssumption ==
  /\ Capacity \in Nat \ {0}
  /\ MaxLen \in 1..Capacity
  /\ MaxOpens \in Nat
  /\ MaxBytes \in Nat

VARIABLES
  port_opened,     \* port_opened_
  stream,          \* serial_port_: 0 closed, else the session it serves
  session,         \* how many times the descriptor was opened
  tx_rbuf,         \* tx_rbuf_, its unread bytes
  tx_in_progress,  \* tx_in_progress_
  tx_buf,          \* tx_buf_, the bytes of the last write started
  reads,           \* async_read_some operations armed
  writes,          \* async_write_some operations armed
  ioq,             \* handlers queued on the io_context
  teardown,        \* I/O thread inside HandleError: port closed, ring not reset
  caller,          \* [Callers -> step of SendBytes]
  owner,           \* "closing" while Close() waits on its promise
  accepted,        \* history: bytes SendBytes answered with kOk
  wire,            \* history: bytes written to the device, in order
  fate,            \* history: how each session ended
  orphaned         \* history: Close() aborted a write and no HandleError has
                   \* run since

txVars == <<tx_rbuf, tx_in_progress, tx_buf, writes, wire>>
sendVars == <<caller, accepted>>
lifeVars == <<port_opened, stream, session, fate>>
vars == <<port_opened, stream, session, tx_rbuf, tx_in_progress, tx_buf, reads, writes,
          ioq, teardown, caller, owner, accepted, wire, fate, orphaned>>

Handlers == {"read", "readDone", "readFail", "write", "writeDone", "writeFail",
             "writeAborted", "close"}
Fates == {"live", "refused", "closed", "faulted", "told"}

TypeOK ==
  /\ port_opened \in BOOLEAN
  /\ stream \in Nat
  /\ session \in Nat
  /\ tx_rbuf \in Seq(Nat)
  /\ tx_in_progress \in BOOLEAN
  /\ tx_buf \in Seq(Nat)
  /\ reads \in Nat
  /\ writes \in Nat
  /\ ioq \in Seq(Handlers)
  /\ teardown \in {"none", "silent", "report"}
  /\ caller \in [Callers -> {"idle", "checked"}]
  /\ owner \in {"idle", "closing"}
  /\ accepted \in Nat
  /\ wire \in Seq(Nat)
  /\ fate \in [1..MaxOpens -> Fates]
  /\ orphaned \in BOOLEAN

Init ==
  /\ port_opened = FALSE
  /\ stream = 0
  /\ session = 0
  /\ tx_rbuf = <<>>
  /\ tx_in_progress = FALSE
  /\ tx_buf = <<>>
  /\ reads = 0
  /\ writes = 0
  /\ ioq = <<>>
  /\ teardown = "none"
  /\ caller = [c \in Callers |-> "idle"]
  /\ owner = "idle"
  /\ accepted = 0
  /\ wire = <<>>
  /\ fate = [s \in 1..MaxOpens |-> "live"]
  /\ orphaned = FALSE

-----------------------------------------------------------------------------
(* SendBytes, on a caller thread: the port is checked outside the lock; the  *)
(* ring is written and the drain posted under it.                            *)

SendCheck(c) ==
  /\ caller[c] = "idle"
  /\ accepted < MaxBytes
  /\ port_opened
  /\ caller' = [caller EXCEPT ![c] = "checked"]
  /\ UNCHANGED <<accepted, txVars, lifeVars, reads, ioq, teardown, owner, orphaned>>

Free == Capacity - Len(tx_rbuf)

SendQueueFull(c) ==
  /\ caller[c] = "checked"
  /\ \E length \in 1..MaxLen : Free < length
  /\ caller' = [caller EXCEPT ![c] = "idle"]
  /\ UNCHANGED <<accepted, txVars, lifeVars, reads, ioq, teardown, owner, orphaned>>

\* RingBuffer::Write: with overwriting enabled, a full ring drops its oldest byte.
RingWrite(bytes) ==
  LET all == tx_rbuf \o bytes
  IN  IF Len(all) > Capacity THEN SubSeq(all, Len(all) - Capacity + 1, Len(all)) ELSE all

SendWrite(c) ==
  /\ caller[c] = "checked"
  /\ \E length \in 1..MaxLen :
       /\ Free >= length
       /\ accepted' = accepted + length
       /\ tx_rbuf' = RingWrite([i \in 1..length |-> accepted + i])
  /\ ioq' = Append(ioq, "write")
  /\ caller' = [caller EXCEPT ![c] = "idle"]
  /\ UNCHANGED <<tx_in_progress, tx_buf, writes, wire, lifeVars, reads, teardown,
                 owner, orphaned>>

SendBytes(c) == SendCheck(c) \/ SendQueueFull(c) \/ SendWrite(c)

-----------------------------------------------------------------------------
(* Open and Close, on the owner's thread.                                    *)

CanOpen ==
  /\ owner = "idle"
  /\ stream = 0                             \* serial_port_.open() throws otherwise
  /\ session < MaxOpens
  /\ ioq = <<>> /\ teardown = "none"
  /\ session' = session + 1
  /\ stream' = session'

Open ==
  /\ CanOpen
  /\ port_opened' = TRUE
  /\ ioq' = Append(ioq, "read")
  /\ UNCHANGED <<txVars, sendVars, fate, reads, teardown, owner, orphaned>>

\* A set_option() throws: Open() answers false and leaves the descriptor open.
OpenRefused ==
  /\ CanOpen
  /\ fate' = [fate EXCEPT ![session'] = "refused"]
  /\ UNCHANGED <<port_opened, txVars, sendVars, reads, ioq, teardown, owner, orphaned>>

CloseIdle ==
  /\ owner = "idle"
  /\ stream = 0
  /\ port_opened' = FALSE
  /\ UNCHANGED <<stream, session, fate, txVars, sendVars, reads, ioq, teardown, owner,
                 orphaned>>

CloseCall ==
  /\ owner = "idle"
  /\ stream # 0
  /\ ioq' = Append(ioq, "close")
  /\ owner' = "closing"
  /\ UNCHANGED <<txVars, sendVars, lifeVars, reads, teardown, orphaned>>

-----------------------------------------------------------------------------
(* Handlers, on the I/O thread.                                              *)

Runs(h) == teardown = "none" /\ ioq # <<>> /\ Head(ioq) = h

\* On a closed descriptor an operation completes at once with an error.
ArmRead(q) ==
  \/ /\ stream # 0
     /\ reads' = reads + 1
     /\ ioq' = q
  \/ /\ stream = 0
     /\ ioq' = Append(q, "readFail")
     /\ UNCHANGED reads

ArmWrite(q) ==
  \/ /\ stream # 0
     /\ writes' = writes + 1
     /\ ioq' = q
  \/ /\ stream = 0
     /\ ioq' = Append(q, "writeFail")
     /\ UNCHANGED writes

\* Mistake: the ring is copied out and not consumed.
WriteRingPeek(q) ==
  /\ tx_rbuf # <<>>
  /\ tx_in_progress' = TRUE
  /\ tx_buf' = tx_rbuf
  /\ UNCHANGED tx_rbuf
  /\ ArmWrite(q)

\* WriteToPort once it is past its in-flight check, the ring not empty: the
\* whole ring moves into tx_buf_ and one write of it is started.
WriteRing(q) ==
  /\ tx_rbuf # <<>>
  /\ tx_in_progress' = TRUE
  /\ tx_buf' = tx_rbuf
  /\ tx_rbuf' = <<>>
  /\ ArmWrite(q)

\* Cancel and close the descriptor; its writes complete with operation_aborted.
CloseStream ==
  /\ ioq' = Tail(ioq) \o [i \in 1..writes |-> "writeAborted"]
  /\ stream' = 0
  /\ reads' = 0
  /\ writes' = 0
  /\ port_opened' = FALSE

Ended(how) ==
  fate' = IF port_opened THEN [fate EXCEPT ![session] = how] ELSE fate

\* Mistake: the open flag is cleared before it is read.
HandleErrorCloseSwapped ==
  /\ CloseStream
  /\ Ended("faulted")
  /\ teardown' = "silent"
  /\ UNCHANGED <<session, tx_rbuf, tx_in_progress, tx_buf, wire, sendVars, owner,
                 orphaned>>

\* HandleError up to the lock, and from it: the ring is reset, then the fault
\* reported through err_cb_.
HandleErrorClose ==
  /\ CloseStream
  /\ Ended("faulted")
  /\ teardown' = IF port_opened THEN "report" ELSE "silent"
  /\ UNCHANGED <<session, tx_rbuf, tx_in_progress, tx_buf, wire, sendVars, owner,
                 orphaned>>

HandleErrorReset ==
  /\ teardown # "none"
  /\ tx_rbuf' = <<>>
  /\ tx_in_progress' = FALSE
  /\ orphaned' = FALSE
  /\ teardown' = "none"
  /\ fate' = [s \in 1..MaxOpens |->
                IF teardown = "report" /\ fate[s] = "faulted" THEN "told" ELSE fate[s]]
  /\ UNCHANGED <<port_opened, stream, session, tx_buf, reads, writes, wire, ioq,
                 sendVars, owner>>

RunRead ==
  /\ Runs("read") \/ Runs("readDone")    \* a completed read calls rcv_cb_ first
  /\ ArmRead(Tail(ioq))
  /\ UNCHANGED <<txVars, sendVars, lifeVars, teardown, owner, orphaned>>

RunFail ==
  /\ Runs("readFail") \/ Runs("writeFail")
  /\ HandleErrorClose

\* Mistake: a posted drain does not look at tx_in_progress_.
RunWriteBusy ==
  /\ Runs("write")
  /\ \/ /\ tx_rbuf = <<>>
        /\ ioq' = Tail(ioq)
        /\ UNCHANGED <<tx_rbuf, tx_in_progress, tx_buf, writes>>
     \/ WriteRing(Tail(ioq))
  /\ UNCHANGED <<wire, sendVars, lifeVars, reads, teardown, owner, orphaned>>

\* WriteToPort(true), posted by SendBytes.
RunWrite ==
  /\ Runs("write")
  /\ \/ /\ tx_in_progress \/ tx_rbuf = <<>>
        /\ ioq' = Tail(ioq)
        /\ UNCHANGED <<tx_rbuf, tx_in_progress, tx_buf, writes>>
     \/ ~tx_in_progress /\ WriteRing(Tail(ioq))
  /\ UNCHANGED <<wire, sendVars, lifeVars, reads, teardown, owner, orphaned>>

\* Mistake: the write that empties the ring leaves tx_in_progress_ set.
RunWriteDoneBusy ==
  /\ Runs("writeDone")
  /\ \/ /\ tx_rbuf = <<>>
        /\ ioq' = Tail(ioq)
        /\ UNCHANGED <<tx_rbuf, tx_in_progress, tx_buf, writes>>
     \/ WriteRing(Tail(ioq))
  /\ UNCHANGED <<wire, sendVars, lifeVars, reads, teardown, owner, orphaned>>

\* The completion of a write: WriteToPort(false) if more has been queued.
RunWriteDone ==
  /\ Runs("writeDone")
  /\ \/ /\ tx_rbuf = <<>>
        /\ tx_in_progress' = FALSE
        /\ ioq' = Tail(ioq)
        /\ UNCHANGED <<tx_rbuf, tx_buf, writes>>
     \/ WriteRing(Tail(ioq))
  /\ UNCHANGED <<wire, sendVars, lifeVars, reads, teardown, owner, orphaned>>

\* An aborted write returns before it reaches tx_in_progress_.
RunWriteAborted ==
  /\ Runs("writeAborted")
  /\ ioq' = Tail(ioq)
  /\ UNCHANGED <<txVars, sendVars, lifeVars, reads, teardown, owner, orphaned>>

\* Mistake: the posted Close() returns early when a fault closed the port first.
RunCloseIfOpen ==
  /\ Runs("close")
  /\ IF port_opened
       THEN CloseStream /\ Ended("closed") /\ owner' = "idle"
            /\ orphaned' = (orphaned \/ writes > 0)
       ELSE ioq' = Tail(ioq) /\ UNCHANGED <<port_opened, stream, fate, reads, writes,
                                           owner, orphaned>>
  /\ UNCHANGED <<session, tx_rbuf, tx_in_progress, tx_buf, wire, sendVars, teardown>>

\* The handler Close() posts: unlike HandleError it leaves the ring and
\* tx_in_progress_ as they are.
RunClose ==
  /\ Runs("close")
  /\ CloseStream
  /\ Ended("closed")
  /\ owner' = "idle"
  /\ orphaned' = (orphaned \/ writes > 0)
  /\ UNCHANGED <<session, tx_rbuf, tx_in_progress, tx_buf, wire, sendVars, teardown>>

IoThread ==
  \/ RunRead \/ RunFail \/ RunWrite \/ RunWriteDone \/ RunWriteAborted \/ RunClose
  \/ HandleErrorReset

-----------------------------------------------------------------------------
(* The reactor: an armed operation completes between two handlers.           *)

Complete(h) == teardown = "none" /\ ioq' = Append(ioq, h)

\* Mistake: the completion of one read is delivered twice.
ReadEndsTwice ==
  /\ reads' = reads - 1
  /\ Complete("readDone") \/ Complete("readFail")
  /\ UNCHANGED <<txVars, sendVars, lifeVars, teardown, owner, orphaned>>

ReadEnds ==
  /\ reads > 0
  /\ reads' = reads - 1
  /\ Complete("readDone") \/ Complete("readFail")
  /\ UNCHANGED <<txVars, sendVars, lifeVars, teardown, owner, orphaned>>

\* async_write_some: the kernel takes at least one byte, not always all.
WriteReady ==
  /\ writes > 0
  /\ writes' = writes - 1
  /\ \E n \in 1..Len(tx_buf) : wire' = wire \o SubSeq(tx_buf, 1, n)
  /\ Complete("writeDone")
  /\ UNCHANGED <<tx_rbuf, tx_in_progress, tx_buf, sendVars, lifeVars, reads, teardown,
                 owner, orphaned>>

WriteFails ==
  /\ writes > 0
  /\ writes' = writes - 1
  /\ Complete("writeFail")
  /\ UNCHANGED <<tx_rbuf, tx_in_progress, tx_buf, wire, sendVars, lifeVars, reads,
                 teardown, owner, orphaned>>

Device == ReadEnds \/ WriteReady \/ WriteFails

-----------------------------------------------------------------------------
Next ==
  \/ \E c \in Callers : SendBytes(c)
  \/ Open \/ OpenRefused \/ CloseIdle \/ CloseCall
  \/ IoThread
  \/ Device

Spec == Init /\ [][Next]_vars

\* The I/O thread runs what is queued and a live device completes a write.
FairSpec ==
  /\ Spec
  /\ WF_vars(IoThread)
  /\ WF_vars(WriteReady \/ WriteFails)

-----------------------------------------------------------------------------
(* Properties.                                                               *)

Reading == {"read", "readDone", "readFail"}
Writing == {"writeDone", "writeFail", "writeAborted"}
Queued(h) == ~NoneOf(ioq, {h})

\* tx_buf_ belongs to one write at a time.
OneWriteInFlight == writes <= 1

\* An open port has exactly one read loop on rx_buf_.
OneReadLoop ==
  port_opened => \/ reads = 1 /\ NoneOf(ioq, Reading)
                 \/ reads = 0 /\ OneOf(ioq, Reading)

\* Never two writes on tx_buf_, never two reads or none on rx_buf_.
OneOfEach == OneWriteInFlight /\ OneReadLoop

\* What SendBytes accepted is going to be looked at again.
Moving ==
  \/ Queued("write") /\ ~tx_in_progress
  \/ Queued("writeDone") \/ Queued("writeFail")
  \/ writes > 0
  \/ teardown # "none"

\* serial_interface.hpp:40: kOk means "queued/sent ... never a silent void": an
\* open port that holds bytes is going to write them.
NoStall == port_opened /\ tx_rbuf # <<>> => Moving

\* The one way into a stall: Close() aborted a write, and no fault has reset the
\* port since.
StallsOnlyAfterAbort == port_opened /\ tx_rbuf # <<>> /\ ~Moving => orphaned

\* ADR 0003: "never a silent dead port": the last session of a port that is not
\* open was refused by Open(), closed by its owner or reported through err_cb_.
NoSilentDeath ==
  (session > 0 /\ ~port_opened /\ teardown = "none") =>
    fate[session] \in {"refused", "closed", "told"}

\* A Close() that waits on the I/O thread returns.
CloseReturns == owner = "closing" ~> owner = "idle"

\* The port implements a lossy but ordered pipe: the armed write and the ring
\* are its backlog.
Pipe == INSTANCE BytePipe WITH
          Capacity <- 2 * Capacity,
          backlog <- IF writes > 0 THEN tx_buf \o tx_rbuf ELSE tx_rbuf
ImplementsPipe == Pipe!PipeSpec
=============================================================================
