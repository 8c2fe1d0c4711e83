---------------------------- MODULE SbusReceiver ----------------------------
(***************************************************************************)
(* The SBUS receiver: sbus_receiver.{hpp,cpp} and the decoder of           *)
(* sbus_decoder.cpp.                                                       *)
(*                                                                         *)
(* Three threads meet: the owner inside Connect() and Disconnect(), the    *)
(* port's I/O thread that decodes bytes and publishes frames, and the      *)
(* watchdog that tells the consumer of a lost link.  A byte is HeadByte    *)
(* (0x0f), TailByte (0x00) or Other, and a decoded frame is only what its  *)
(* flags say.  The transmitter (external) never stops: bytes it sends to   *)
(* a closed port are lost.                                                 *)
(*                                                                         *)
(* connected_ stays set when the port faults, so Connect() then answers    *)
(* kOk and changes nothing: only Disconnect() leads out of a fault.        *)
(***************************************************************************)
EXTENDS Integers

CONSTANTS
  FrameLen,   \* SBUS_FRAME_LENGTH (25 in the code)
  Timeout     \* kLinkLossTimeout, in ticks of the clock

ASSUME SbusAssumption == FrameLen \in Nat /\ FrameLen >= 3 /\ Timeout \in Nat

HeadByte == "head"
TailByte == "tail"
Other == "other"
Symbol == {HeadByte, TailByte, Other}

VARIABLES
  owner,         \* how far Connect() or Disconnect() has come
  connected,     \* connected_
  keep_running,  \* keep_running_
  watchdog,      \* where the watchdog thread is, "none" if there is none
  open,          \* the port is open
  io,            \* what the I/O thread is about to do
  decode_state,  \* decode_buffer_.decode_state
  indexer,       \* decode_buffer_.indexer
  flags,         \* the byte at indexer, the flags once the payload is complete
  age,           \* age of the last frame, capped
  ever,          \* freshness_.EverUpdated()
  since,         \* time since connect_time_, capped
  told,          \* the frame the consumer's callback saw last
  pos,           \* external: position in its frame of the next byte on the wire
  whole,         \* history: this frame reached the decoder undamaged so far
  plain,         \* history: and none of its payload bytes is HeadByte
  synced         \* history: the frame before was whole and plain

linkVars == <<owner, connected, keep_running, watchdog, open>>
decoderVars == <<decode_state, indexer, flags>>
clockVars == <<age, ever, since>>
wireVars == <<pos, whole, plain, synced>>
vars == <<linkVars, io, decoderVars, clockVars, told, wireVars>>

TypeOK ==
  /\ owner \in {"off", "opening", "opened", "on", "joining", "closing", "closed"}
  /\ connected \in BOOLEAN /\ keep_running \in BOOLEAN /\ open \in BOOLEAN
  /\ ever \in BOOLEAN /\ whole \in BOOLEAN /\ plain \in BOOLEAN /\ synced \in BOOLEAN
  /\ watchdog \in {"none", "check", "emit"}
  /\ io \in {"free", "publish", "fire", "report"}
  /\ decode_state \in {"WAIT_FOR_SOF", "WAIT_FOR_PAYLOAD", "WAIT_FOR_EOF"}
  /\ indexer \in 0..(FrameLen - 1)
  /\ flags \in Symbol
  /\ age \in 0..(Timeout + 1) /\ since \in 0..(Timeout + 1)
  /\ told \in {"none", "live", "failsafe"}
  /\ pos \in 0..(FrameLen - 1)

Init ==
  /\ owner = "off" /\ connected = FALSE /\ keep_running = FALSE
  /\ watchdog = "none" /\ open = FALSE
  /\ io = "free"
  /\ decode_state = "WAIT_FOR_SOF" /\ indexer = 0 /\ flags = TailByte
  /\ age = Timeout + 1 /\ ever = FALSE /\ since = Timeout + 1
  /\ told = "none"
  /\ pos \in 0..(FrameLen - 1) /\ whole = FALSE /\ plain = FALSE /\ synced = FALSE

Fresh == ever /\ age <= Timeout

-----------------------------------------------------------------------------
(* The owner.                                                                *)

\* SbusDecoderInit() leaves the indexer; the next byte that is waited for resets it.
Connect ==
  /\ owner = "off"
  /\ owner' = "opening"
  /\ decode_state' = "WAIT_FOR_SOF"
  /\ ever' = FALSE
  /\ whole' = FALSE /\ synced' = FALSE
  /\ UNCHANGED <<connected, keep_running, watchdog, open, io, indexer, flags, age, since,
                 told, pos, plain>>

ConnectOpened ==
  /\ owner = "opening"
  /\ owner' = "opened" /\ open' = TRUE
  /\ UNCHANGED <<connected, keep_running, watchdog, io, decoderVars, clockVars, told,
                 wireVars>>

\* Open() fails.
ConnectFailed ==
  /\ owner = "opening"
  /\ owner' = "off"
  /\ UNCHANGED <<connected, keep_running, watchdog, open, io, decoderVars, clockVars, told,
                 wireVars>>

\* Close() of an open port waits for what the I/O thread is doing.
Closable == open => io = "free"

\* ChangeBaudRate() fails: the port is closed again.
ConnectRefused ==
  /\ owner = "opened" /\ Closable
  /\ owner' = "off" /\ open' = FALSE
  /\ UNCHANGED <<connected, keep_running, watchdog, io, decoderVars, clockVars, told,
                 wireVars>>

ConnectDone ==
  /\ owner = "opened"
  /\ owner' = "on"
  /\ since' = 0
  /\ connected' = TRUE /\ keep_running' = TRUE
  /\ watchdog' = "check"
  /\ UNCHANGED <<open, io, decoderVars, age, ever, told, wireVars>>

Disconnect ==
  /\ owner = "on"
  /\ owner' = "joining" /\ keep_running' = FALSE
  /\ UNCHANGED <<connected, watchdog, open, io, decoderVars, clockVars, told, wireVars>>

\* Mistake: the watchdog is told to stop, and not waited for.
JoinNot ==
  /\ owner = "joining"
  /\ owner' = "closing"
  /\ UNCHANGED <<connected, keep_running, watchdog, open, io, decoderVars, clockVars, told,
                 wireVars>>

\* watchdog_.join()
Join ==
  /\ owner = "joining" /\ watchdog = "none"
  /\ owner' = "closing"
  /\ UNCHANGED <<connected, keep_running, watchdog, open, io, decoderVars, clockVars, told,
                 wireVars>>

DisconnectClose ==
  /\ owner = "closing" /\ Closable
  /\ owner' = "closed" /\ open' = FALSE
  /\ UNCHANGED <<connected, keep_running, watchdog, io, decoderVars, clockVars, told,
                 wireVars>>

DisconnectDone ==
  /\ owner = "closed"
  /\ owner' = "off" /\ connected' = FALSE /\ ever' = FALSE
  /\ UNCHANGED <<keep_running, watchdog, open, io, decoderVars, age, since, told, wireVars>>

-----------------------------------------------------------------------------
(* The watchdog.                                                             *)

\* Mistake: a link that never came up is not a lost one.
LinkLostOnce == ever /\ ~Fresh

\* The link is lost: the last frame is too old, or the first one too late.
LinkLost == IF ever THEN ~Fresh ELSE since > Timeout

\* What it sees and what it does about it are two steps: a frame may come between.
WatchdogLooks ==
  /\ watchdog = "check"
  /\ \/ ~keep_running /\ watchdog' = "none"
     \/ keep_running /\ LinkLost /\ watchdog' = "emit"
  /\ UNCHANGED <<owner, connected, keep_running, open, io, decoderVars, clockVars, told,
                 wireVars>>

EmitFailsafe ==
  /\ watchdog = "emit"
  /\ watchdog' = "check"
  /\ told' = "failsafe"
  /\ UNCHANGED <<owner, connected, keep_running, open, io, decoderVars, clockVars, wireVars>>

-----------------------------------------------------------------------------
(* The I/O thread.                                                           *)

WaitForSof(b) ==
  /\ decode_state = "WAIT_FOR_SOF"
  /\ decode_state' = IF b = HeadByte THEN "WAIT_FOR_PAYLOAD" ELSE "WAIT_FOR_SOF"
  /\ indexer' = 0
  /\ flags' = IF b = HeadByte THEN b ELSE TailByte
  /\ UNCHANGED io

\* Mistake: one payload byte too many.
WaitForPayloadLong(b) ==
  /\ decode_state = "WAIT_FOR_PAYLOAD"
  /\ indexer' = indexer + 1 /\ flags' = b
  /\ decode_state' = IF indexer' = FrameLen THEN "WAIT_FOR_EOF" ELSE decode_state
  /\ UNCHANGED io

WaitForPayload(b) ==
  /\ decode_state = "WAIT_FOR_PAYLOAD"
  /\ indexer' = indexer + 1 /\ flags' = b
  /\ decode_state' = IF indexer' = FrameLen - 2 THEN "WAIT_FOR_EOF" ELSE decode_state
  /\ UNCHANGED io

\* Mistake: a byte that is no tail is taken for the head of the next frame.
WaitForEofBlind(b) ==
  /\ decode_state = "WAIT_FOR_EOF"
  /\ IF b = TailByte THEN indexer' = indexer + 1 /\ io' = "publish" /\ decode_state' = "WAIT_FOR_SOF"
     ELSE indexer' = 0 /\ decode_state' = "WAIT_FOR_PAYLOAD" /\ UNCHANGED io
  /\ UNCHANGED flags

\* A byte that is no tail is dropped, even if it is the head of the next frame.
WaitForEof(b) ==
  /\ decode_state = "WAIT_FOR_EOF"
  /\ decode_state' = "WAIT_FOR_SOF"
  /\ IF b = TailByte THEN indexer' = indexer + 1 /\ io' = "publish"
     ELSE UNCHANGED <<indexer, io>>
  /\ UNCHANGED flags

\* SbusDecodeMessage, on the next byte of a read.
Decode(b) == WaitForSof(b) \/ WaitForPayload(b) \/ WaitForEof(b)

\* Bytes the transmitter sends at this position of a frame.
Sent == IF pos = 0 THEN {HeadByte} ELSE IF pos = FrameLen - 1 THEN {TailByte} ELSE Symbol

\* The next byte of the wire is sent as b, and reaches the decoder intact or not.
Advance(b, intact) ==
  LET w == intact /\ (pos = 0 \/ whole)
      p == b # HeadByte \/ pos = 0
  IN  /\ pos' = IF pos = FrameLen - 1 THEN 0 ELSE pos + 1
      /\ whole' = w
      /\ plain' = (p /\ (pos = 0 \/ plain))
      /\ synced' = IF pos = FrameLen - 1 THEN w /\ p /\ plain ELSE synced

ByteArrives ==
  /\ open /\ io = "free"
  /\ \E b \in Sent, heard \in Symbol : Decode(heard) /\ Advance(b, heard = b)
  /\ UNCHANGED <<linkVars, clockVars, told>>

\* A byte is lost on the wire, or sent to a closed port.
ByteLost ==
  /\ \E b \in Sent : Advance(b, FALSE)
  /\ UNCHANGED <<linkVars, io, decoderVars, clockVars, told>>

\* last_frame_ is stored and freshness_ marked.
Publish ==
  /\ io = "publish"
  /\ io' = "fire"
  /\ age' = 0 /\ ever' = TRUE
  /\ UNCHANGED <<linkVars, decoderVars, since, told, wireVars>>

\* The callback sees the frame, with the failsafe its receiver reported.
FireCallback ==
  /\ io = "fire"
  /\ io' = "free"
  /\ told' = IF flags = Other THEN "failsafe" ELSE "live"
  /\ UNCHANGED <<linkVars, decoderVars, clockVars, wireVars>>

PortFaults ==
  /\ open /\ io = "free"
  /\ open' = FALSE /\ io' = "report"
  /\ UNCHANGED <<owner, connected, keep_running, watchdog, decoderVars, clockVars, told,
                 wireVars>>

\* The error callback; what it notes only shows in Health().
ErrorCallback ==
  /\ io = "report"
  /\ io' = "free"
  /\ UNCHANGED <<linkVars, decoderVars, clockVars, told, wireVars>>

-----------------------------------------------------------------------------
Older(t) == IF t > Timeout THEN t ELSE t + 1

Tick ==
  /\ age <= Timeout \/ since <= Timeout
  /\ age' = Older(age) /\ since' = Older(since)
  /\ UNCHANGED <<linkVars, io, decoderVars, ever, told, wireVars>>

Next ==
  \/ Connect \/ ConnectOpened \/ ConnectFailed \/ ConnectRefused \/ ConnectDone
  \/ Disconnect \/ Join \/ DisconnectClose \/ DisconnectDone
  \/ WatchdogLooks \/ EmitFailsafe
  \/ ByteArrives \/ ByteLost \/ Publish \/ FireCallback \/ PortFaults \/ ErrorCallback
  \/ Tick

Spec == Init /\ [][Next]_vars

\* The clock advances and the threads run.
FairSpec ==
  /\ Spec
  /\ WF_vars(Tick)
  /\ WF_vars(WatchdogLooks) /\ WF_vars(EmitFailsafe)
  /\ WF_vars(Publish) /\ WF_vars(FireCallback) /\ WF_vars(ErrorCallback)

-----------------------------------------------------------------------------
(* Properties.                                                               *)

\* "emit failsafe while no fresh frame arrives so a consumer stops acting on the
\* last stick/kill state" (sbus_receiver.cpp:78): whatever ended the link, a live
\* receiver brings its consumer to failsafe, unless frames come again.
LossReachesConsumer ==
  (keep_running /\ ~Fresh) ~> (told = "failsafe" \/ Fresh \/ ~keep_running)

\* After Disconnect() has returned no thread calls the consumer any more.
SilentWhenDisconnected == [][owner = "off" => told' = told]_vars

\* One frame received whole, without a head byte in its payload, puts the decoder
\* in step: the next whole frame is handed on, whatever happened before and whatever
\* is in it.
StepRegained ==
  [][(open /\ synced /\ pos = FrameLen - 1 /\ whole /\ whole' /\ pos' = 0)
       => io' = "publish"]_vars
=============================================================================
