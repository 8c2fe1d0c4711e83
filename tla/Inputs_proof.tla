---------------------------- MODULE Inputs_proof ----------------------------
(***************************************************************************)
(* The input drivers.  SbusReceiver keeps its type, is silent when         *)
(* disconnected, and regains step, for every frame length and timeout.     *)
(* An evdev device's state is the device's again once its events are       *)
(* drained, for every set of keys and every room for events.  The IMU      *)
(* hands out samples only of this session, each field as the last intact   *)
(* frame that carried it gave it.                                          *)
(***************************************************************************)
EXTENDS MCInputs, SequenceTheorems, TLAPS

-----------------------------------------------------------------------------
(* The SBUS receiver.                                                        *)

\* Which threads can be at work, by how far the owner has come.
LinkInv ==
  /\ watchdog # "none" => owner \in {"on", "joining"}
  /\ open => owner \in {"opened", "on", "joining", "closing"}
  /\ io \in {"publish", "fire"} => open

DecoderInv ==
  /\ decode_state = "WAIT_FOR_PAYLOAD" => indexer <= FrameLen - 3
  /\ decode_state = "WAIT_FOR_EOF" => indexer = FrameLen - 2

\* The decoder stands where the wire stands.
InStep ==
  /\ decode_state = IF pos = FrameLen - 1 THEN "WAIT_FOR_EOF" ELSE "WAIT_FOR_PAYLOAD"
  /\ indexer = pos - 1

\* While a plain frame arrives whole, a decoder out of step is still inside the
\* frame it began earlier, about to end it, or waiting for a head.
StepInv ==
  /\ synced /\ pos = 0 => decode_state = "WAIT_FOR_SOF"
  /\ synced /\ whole /\ pos > 0 => InStep
  /\ whole /\ plain /\ pos > 0 =>
       \/ InStep
       \/ decode_state \in {"WAIT_FOR_SOF", "WAIT_FOR_EOF"}
       \/ decode_state = "WAIT_FOR_PAYLOAD" /\ indexer >= pos

Inv == TypeOK /\ LinkInv /\ DecoderInv /\ StepInv

\* What a byte on the wire, arrived or not, makes of the history of the frame.
LEMMA Advancing ==
  ASSUME TypeOK, NEW b \in Sent, NEW intact \in BOOLEAN, Advance(b, intact)
  PROVE  /\ pos' \in 0..(FrameLen - 1) /\ whole' \in BOOLEAN
         /\ plain' \in BOOLEAN /\ synced' \in BOOLEAN
         /\ pos = FrameLen - 1 => pos' = 0
         /\ pos # FrameLen - 1 => pos' = pos + 1
         /\ pos # FrameLen - 1 /\ synced' => synced
         /\ whole' => intact /\ (pos = 0 \/ whole)
         /\ plain' => (b # HeadByte \/ pos = 0) /\ (pos = 0 \/ plain)
         /\ pos = FrameLen - 1 /\ synced' => whole' /\ plain /\ whole
<1> USE SbusAssumption
<1> DEFINE w == intact /\ (pos = 0 \/ whole)
           p == b # HeadByte \/ pos = 0
<1>1. /\ pos' = IF pos = FrameLen - 1 THEN 0 ELSE pos + 1
      /\ whole' = w
      /\ plain' = (p /\ (pos = 0 \/ plain))
      /\ synced' = IF pos = FrameLen - 1 THEN w /\ p /\ plain ELSE synced
  BY DEF Advance
<1>2. pos \in 0..(FrameLen - 1) /\ FrameLen \in Nat /\ FrameLen >= 3 /\ synced \in BOOLEAN
  BY DEF TypeOK
<1>3. /\ pos' \in 0..(FrameLen - 1)
      /\ pos = FrameLen - 1 => pos' = 0
      /\ pos # FrameLen - 1 => pos' = pos + 1
  BY <1>1, <1>2
<1>4. whole' \in BOOLEAN /\ plain' \in BOOLEAN /\ synced' \in BOOLEAN
  BY <1>1, <1>2, Zenon
<1>5. /\ pos # FrameLen - 1 /\ synced' => synced
      /\ whole' => intact /\ (pos = 0 \/ whole)
      /\ plain' => (b # HeadByte \/ pos = 0) /\ (pos = 0 \/ plain)
  BY <1>1, Zenon
<1>6. pos = FrameLen - 1 => pos # 0
  BY <1>2
<1>7. pos = FrameLen - 1 /\ synced' => whole' /\ plain /\ whole
  BY <1>1, <1>6, Zenon
<1> QED
  BY <1>3, <1>4, <1>5, <1>7

\* A byte that arrives keeps the decoder in step, or brings it there.
LEMMA Arriving ==
  ASSUME TypeOK, DecoderInv, StepInv, ByteArrives
  PROVE  DecoderInv' /\ StepInv'
<1> USE SbusAssumption
<1>1. PICK b \in Sent, heard \in Symbol : Decode(heard) /\ Advance(b, heard = b)
  BY DEF ByteArrives
<1>2. /\ pos' \in 0..(FrameLen - 1)
      /\ pos = FrameLen - 1 => pos' = 0
      /\ pos # FrameLen - 1 => pos' = pos + 1
      /\ pos # FrameLen - 1 /\ synced' => synced
      /\ whole' => heard = b /\ (pos = 0 \/ whole)
      /\ plain' => (b # HeadByte \/ pos = 0) /\ (pos = 0 \/ plain)
      /\ pos = FrameLen - 1 /\ synced' => whole' /\ plain /\ whole
  BY <1>1, Advancing
<1>3. /\ pos = 0 => b = HeadByte
      /\ pos = FrameLen - 1 => b = TailByte
  BY <1>1 DEF Sent
<1>4. CASE WaitForSof(heard)
  BY <1>2, <1>3, <1>4 DEF TypeOK, DecoderInv, StepInv, InStep, WaitForSof, HeadByte, TailByte
<1>5. CASE WaitForPayload(heard)
  <2>1. /\ decode_state = "WAIT_FOR_PAYLOAD" /\ indexer <= FrameLen - 3
        /\ indexer' = indexer + 1
        /\ indexer' = FrameLen - 2 => decode_state' = "WAIT_FOR_EOF"
        /\ indexer' # FrameLen - 2 => decode_state' = "WAIT_FOR_PAYLOAD"
    BY <1>5 DEF WaitForPayload, DecoderInv
  <2>2. /\ indexer \in 0..(FrameLen - 1) /\ pos \in 0..(FrameLen - 1)
        /\ FrameLen \in Nat /\ FrameLen >= 3
    BY DEF TypeOK
  <2>3. DecoderInv'
    BY <2>1, <2>2 DEF DecoderInv
  <2>4. InStep /\ pos > 0 /\ pos # FrameLen - 1 => InStep'
    BY <1>2, <2>1, <2>2 DEF InStep
  <2>5. ~(synced /\ pos = 0)
    BY <2>1 DEF StepInv
  <2>6. (synced /\ pos = 0 => decode_state = "WAIT_FOR_SOF")'
    <3> SUFFICES ASSUME synced', pos' = 0 PROVE FALSE
      OBVIOUS
    <3>1. pos = FrameLen - 1
      BY <1>2, <2>2
    <3>2. whole /\ plain
      BY <1>2, <3>1
    <3> QED
      BY <2>1, <2>2, <3>1, <3>2 DEF StepInv, InStep
  <2>7. (synced /\ whole /\ pos > 0 => InStep)'
    <3> SUFFICES ASSUME synced', whole', pos' > 0 PROVE InStep'
      OBVIOUS
    <3>1. pos # FrameLen - 1 /\ synced
      BY <1>2
    <3>2. whole /\ pos > 0
      BY <1>2, <2>2, <2>5, <3>1
    <3> QED
      BY <2>4, <3>1, <3>2 DEF StepInv
  <2>8. (whole /\ plain /\ pos > 0 =>
           \/ InStep
           \/ decode_state \in {"WAIT_FOR_SOF", "WAIT_FOR_EOF"}
           \/ decode_state = "WAIT_FOR_PAYLOAD" /\ indexer >= pos)'
    <3> SUFFICES ASSUME whole', plain', pos' > 0, ~InStep',
                        decode_state' = "WAIT_FOR_PAYLOAD"
                 PROVE  indexer' >= pos'
      BY <2>1
    <3>1. pos # FrameLen - 1 /\ pos' = pos + 1
      BY <1>2
    <3>2. pos = 0 \/ indexer >= pos
      BY <1>2, <2>1, <2>2, <2>4, <3>1 DEF StepInv
    <3> QED
      BY <2>1, <2>2, <3>1, <3>2
  <2> QED
    BY <2>3, <2>6, <2>7, <2>8 DEF StepInv
<1>6. CASE WaitForEof(heard)
  BY <1>2, <1>3, <1>6 DEF TypeOK, DecoderInv, StepInv, InStep, WaitForEof, HeadByte, TailByte
<1> QED
  BY <1>1, <1>4, <1>5, <1>6 DEF Decode

LEMMA ArrivingTyped ==
  ASSUME TypeOK, DecoderInv, ByteArrives
  PROVE  TypeOK'
<1> USE SbusAssumption
<1>1. PICK b \in Sent, heard \in Symbol : Decode(heard) /\ Advance(b, heard = b)
  BY DEF ByteArrives
<1>2. /\ pos' \in 0..(FrameLen - 1) /\ whole' \in BOOLEAN
      /\ plain' \in BOOLEAN /\ synced' \in BOOLEAN
  BY <1>1, Advancing
<1>3. /\ decode_state' \in {"WAIT_FOR_SOF", "WAIT_FOR_PAYLOAD", "WAIT_FOR_EOF"}
      /\ indexer' \in 0..(FrameLen - 1)
      /\ flags' \in Symbol
      /\ io' \in {"free", "publish"}
  BY <1>1 DEF TypeOK, DecoderInv, ByteArrives, Decode, WaitForSof, WaitForPayload, WaitForEof,
              Symbol, HeadByte, TailByte
<1> QED
  BY <1>2, <1>3 DEF TypeOK, ByteArrives, linkVars, clockVars

\* A lost byte leaves the decoder alone, and the frame is whole no more.
LEMMA Losing ==
  ASSUME TypeOK, DecoderInv, StepInv, ByteLost
  PROVE  TypeOK' /\ DecoderInv' /\ StepInv'
<1> USE SbusAssumption
<1>1. PICK b \in Sent : Advance(b, FALSE)
  BY DEF ByteLost
<1>2. /\ pos' \in 0..(FrameLen - 1) /\ plain' \in BOOLEAN /\ synced' \in BOOLEAN
      /\ whole' = FALSE
      /\ pos = FrameLen - 1 => pos' = 0 /\ synced' = FALSE
      /\ pos # FrameLen - 1 => pos' = pos + 1
  BY <1>1, Advancing DEF Advance, TypeOK
<1>6. whole' \in BOOLEAN
  BY <1>2, Zenon
<1>3. TypeOK'
  BY <1>2, <1>6 DEF TypeOK, ByteLost, linkVars, decoderVars, clockVars
<1>4. DecoderInv'
  BY DEF DecoderInv, ByteLost, decoderVars
<1>5. ~synced' \/ pos' # 0
  BY <1>2 DEF TypeOK
<1> QED
  BY <1>2, <1>3, <1>4, <1>5 DEF StepInv

\* What the other threads do leaves the decoder alone.
LEMMA Resting ==
  ASSUME DecoderInv, StepInv, UNCHANGED decoderVars, UNCHANGED wireVars
  PROVE  DecoderInv' /\ StepInv'
  BY DEF DecoderInv, StepInv, InStep, decoderVars, wireVars

\* The invariant is inductive.
LEMMA Step == Inv /\ [Next]_vars => Inv'
<1> SUFFICES ASSUME Inv, [Next]_vars PROVE Inv'
  OBVIOUS
<1> USE SbusAssumption DEF Inv
<1>1. CASE Connect
  BY <1>1 DEF Connect, TypeOK, LinkInv, DecoderInv, StepInv, InStep,
     linkVars, decoderVars, clockVars, wireVars
<1>2. CASE ConnectOpened
  <2>1. TypeOK'
    BY <1>2 DEF ConnectOpened, TypeOK, linkVars, decoderVars, clockVars, wireVars
  <2>2. LinkInv'
    BY <1>2 DEF ConnectOpened, LinkInv, linkVars
  <2> QED
    BY <1>2, <2>1, <2>2, Resting DEF ConnectOpened
<1>3. CASE ConnectFailed
  <2>1. TypeOK'
    BY <1>3 DEF ConnectFailed, TypeOK, linkVars, decoderVars, clockVars, wireVars
  <2>2. LinkInv'
    BY <1>3 DEF ConnectFailed, LinkInv, linkVars
  <2> QED
    BY <1>3, <2>1, <2>2, Resting DEF ConnectFailed
<1>4. CASE ConnectRefused
  <2>0. open' \in BOOLEAN
    BY <1>4, Zenon DEF ConnectRefused
  <2>1. TypeOK'
    BY <1>4, <2>0 DEF ConnectRefused, Closable, TypeOK, linkVars, decoderVars, clockVars, wireVars
  <2>2. LinkInv'
    BY <1>4 DEF ConnectRefused, Closable, LinkInv, linkVars
  <2> QED
    BY <1>4, <2>1, <2>2, Resting DEF ConnectRefused
<1>5. CASE ConnectDone
  <2>1. TypeOK'
    BY <1>5 DEF ConnectDone, TypeOK, linkVars, decoderVars, clockVars, wireVars
  <2>2. LinkInv'
    BY <1>5 DEF ConnectDone, LinkInv, linkVars
  <2> QED
    BY <1>5, <2>1, <2>2, Resting DEF ConnectDone
<1>6. CASE Disconnect
  <2>0. keep_running' \in BOOLEAN
    BY <1>6, Zenon DEF Disconnect
  <2>1. TypeOK'
    BY <1>6, <2>0 DEF Disconnect, TypeOK, linkVars, decoderVars, clockVars, wireVars
  <2>2. LinkInv'
    BY <1>6 DEF Disconnect, LinkInv, linkVars
  <2> QED
    BY <1>6, <2>1, <2>2, Resting DEF Disconnect
<1>7. CASE Join
  <2>1. TypeOK'
    BY <1>7 DEF Join, TypeOK, linkVars, decoderVars, clockVars, wireVars
  <2>2. LinkInv'
    BY <1>7 DEF Join, LinkInv, linkVars
  <2> QED
    BY <1>7, <2>1, <2>2, Resting DEF Join
<1>8. CASE DisconnectClose
  <2>0. open' \in BOOLEAN
    BY <1>8, Zenon DEF DisconnectClose
  <2>1. TypeOK'
    BY <1>8, <2>0 DEF DisconnectClose, Closable, TypeOK, linkVars, decoderVars, clockVars, wireVars
  <2>2. LinkInv'
    BY <1>8 DEF DisconnectClose, Closable, LinkInv, linkVars
  <2> QED
    BY <1>8, <2>1, <2>2, Resting DEF DisconnectClose
<1>9. CASE DisconnectDone
  <2>0. connected' \in BOOLEAN /\ ever' \in BOOLEAN
    BY <1>9, Zenon DEF DisconnectDone
  <2>1. TypeOK'
    BY <1>9, <2>0 DEF DisconnectDone, TypeOK, linkVars, decoderVars, clockVars, wireVars
  <2>2. LinkInv'
    BY <1>9 DEF DisconnectDone, LinkInv, linkVars
  <2> QED
    BY <1>9, <2>1, <2>2, Resting DEF DisconnectDone
<1>10. CASE WatchdogLooks
  <2>1. TypeOK'
    BY <1>10 DEF WatchdogLooks, TypeOK, linkVars, decoderVars, clockVars, wireVars
  <2>2. LinkInv'
    BY <1>10 DEF WatchdogLooks, LinkInv, linkVars
  <2> QED
    BY <1>10, <2>1, <2>2, Resting DEF WatchdogLooks
<1>11. CASE EmitFailsafe
  <2>1. TypeOK'
    BY <1>11 DEF EmitFailsafe, TypeOK, linkVars, decoderVars, clockVars, wireVars
  <2>2. LinkInv'
    BY <1>11 DEF EmitFailsafe, LinkInv, linkVars
  <2> QED
    BY <1>11, <2>1, <2>2, Resting DEF EmitFailsafe
<1>12. CASE Publish
  <2>1. TypeOK'
    BY <1>12 DEF Publish, TypeOK, linkVars, decoderVars, clockVars, wireVars
  <2>2. LinkInv'
    BY <1>12 DEF Publish, LinkInv, linkVars
  <2> QED
    BY <1>12, <2>1, <2>2, Resting DEF Publish
<1>13. CASE FireCallback
  <2>1. TypeOK'
    BY <1>13 DEF FireCallback, TypeOK, linkVars, decoderVars, clockVars, wireVars
  <2>2. LinkInv'
    BY <1>13 DEF FireCallback, LinkInv, linkVars
  <2> QED
    BY <1>13, <2>1, <2>2, Resting DEF FireCallback
<1>14. CASE PortFaults
  <2>0. open' \in BOOLEAN
    BY <1>14, Zenon DEF PortFaults
  <2>1. TypeOK'
    BY <1>14, <2>0 DEF PortFaults, TypeOK, linkVars, decoderVars, clockVars, wireVars
  <2>2. LinkInv'
    BY <1>14 DEF PortFaults, LinkInv, linkVars
  <2> QED
    BY <1>14, <2>1, <2>2, Resting DEF PortFaults
<1>15. CASE ErrorCallback
  <2>1. TypeOK'
    BY <1>15 DEF ErrorCallback, TypeOK, linkVars, decoderVars, clockVars, wireVars
  <2>2. LinkInv'
    BY <1>15 DEF ErrorCallback, LinkInv, linkVars
  <2> QED
    BY <1>15, <2>1, <2>2, Resting DEF ErrorCallback
<1>16. CASE Tick
  <2>1. TypeOK'
    BY <1>16 DEF Tick, Older, TypeOK, linkVars, decoderVars, clockVars, wireVars
  <2>2. LinkInv'
    BY <1>16 DEF Tick, Older, LinkInv, linkVars
  <2> QED
    BY <1>16, <2>1, <2>2, Resting DEF Tick
<1>17. CASE ByteArrives
  <2>1. LinkInv'
    BY <1>17 DEF ByteArrives, LinkInv, linkVars
  <2> QED
    BY <1>17, <2>1, Arriving, ArrivingTyped
<1>18. CASE ByteLost
  <2>1. LinkInv'
    BY <1>18 DEF ByteLost, LinkInv, linkVars
  <2> QED
    BY <1>18, <2>1, Losing
<1>19. CASE UNCHANGED vars
  BY <1>19 DEF vars, TypeOK, LinkInv, DecoderInv, StepInv, InStep,
     linkVars, decoderVars, clockVars, wireVars
<1> QED
  BY <1>1, <1>2, <1>3, <1>4, <1>5, <1>6, <1>7, <1>8, <1>9, <1>10, <1>11, <1>12, <1>13, <1>14, <1>15, <1>16, <1>17, <1>18, <1>19 DEF Next

LEMMA Start == Init => Inv
<1> SUFFICES ASSUME Init PROVE Inv
  OBVIOUS
<1>1. /\ connected \in BOOLEAN /\ keep_running \in BOOLEAN /\ open \in BOOLEAN
      /\ ever \in BOOLEAN /\ whole \in BOOLEAN /\ plain \in BOOLEAN /\ synced \in BOOLEAN
  BY Zenon DEF Init
<1>2. TypeOK
  BY <1>1, SbusAssumption DEF Init, TypeOK, Symbol
<1> QED
  BY <1>2 DEF Init, Inv, LinkInv, DecoderInv, StepInv

LEMMA Always == Spec => []Inv
  BY Start, Step, PTL DEF Spec

\* The receiver's state keeps its type: the decoder never writes beyond a frame.
THEOREM Typing == Spec => []TypeOK
  BY Always, PTL DEF Inv

\* After Disconnect() has returned no thread calls the consumer any more.
THEOREM Silence == Spec => SilentWhenDisconnected
<1>1. Inv /\ [Next]_vars => [owner = "off" => told' = told]_vars
  <2> SUFFICES ASSUME Inv, Next, owner = "off" PROVE told' = told
    BY DEF vars
  <2>1. watchdog = "none" /\ io \notin {"publish", "fire"}
    BY DEF Inv, LinkInv
  <2> QED
    BY <2>1 DEF Next, Connect, ConnectOpened, ConnectFailed, ConnectRefused, ConnectDone,
       Disconnect, Join, DisconnectClose, DisconnectDone, WatchdogLooks, EmitFailsafe,
       ByteArrives, ByteLost, Publish, FireCallback, PortFaults, ErrorCallback, Tick
<1> QED
  BY <1>1, Always, PTL DEF Spec, SilentWhenDisconnected

\* One plain frame received whole puts the decoder in step for the next one, for
\* every frame length.
THEOREM RegainsStep == Spec => StepRegained
<1>1. Inv /\ [Next]_vars =>
        [(open /\ synced /\ pos = FrameLen - 1 /\ whole /\ whole' /\ pos' = 0)
           => io' = "publish"]_vars
  <2> SUFFICES ASSUME Inv, Next, open, synced, pos = FrameLen - 1, whole, whole', pos' = 0
               PROVE  io' = "publish"
    BY DEF vars
  <2>1. decode_state = "WAIT_FOR_EOF"
    BY SbusAssumption DEF Inv, StepInv, InStep
  <2>2. pos' # pos
    BY SbusAssumption
  <2>3. ByteArrives
    BY <2>2 DEF Next, Connect, ConnectOpened, ConnectFailed, ConnectRefused, ConnectDone,
       Disconnect, Join, DisconnectClose, DisconnectDone, WatchdogLooks, EmitFailsafe,
       ByteLost, Advance, Publish, FireCallback, PortFaults, ErrorCallback, Tick, wireVars
  <2>4. PICK b \in Sent, heard \in Symbol : Decode(heard) /\ Advance(b, heard = b)
    BY <2>3 DEF ByteArrives
  <2>5. heard = b
    BY <2>4 DEF Advance
  <2>6. b = TailByte
    BY <2>4, SbusAssumption DEF Sent
  <2> QED
    BY <2>1, <2>4, <2>5, <2>6 DEF Decode, WaitForSof, WaitForPayload, WaitForEof
<1> QED
  BY <1>1, Always, PTL DEF Spec, StepRegained

-----------------------------------------------------------------------------
(* The joystick and the keyboard.                                            *)

\* The keys whose state is promised.
Tracked == IF joystick THEN Known ELSE handled

\* Where the types matter to the argument.
Typed ==
  /\ state \subseteq Known /\ handled \subseteq Known
  /\ down \subseteq Keys /\ seen \subseteq Keys
  /\ queue = Dropped \/ queue \in Seq(Events)

\* A descriptor lives in an opened reader only; nothing is kept without one.
OpenInv ==
  /\ reader = "none" => fd = "none" /\ handled = {}
  /\ hcall = "open" => reader = "none"
  /\ fd = "none" => queue = <<>>

\* The state lags behind the device no more than libevdev's picture does.
PictureInv == fd = "live" => \A k \in Tracked : k \in state <=> k \in seen

\* libevdev's picture lags behind by what is queued.
NoneQueued(k) == \A i \in DOMAIN queue : queue[i][1] # k
LastOfKey(i) == \A j \in DOMAIN queue : j > i => queue[j][1] # queue[i][1]

QueueInv ==
  fd = "live" /\ queue # Dropped =>
    /\ \A k \in Keys : NoneQueued(k) => (k \in seen <=> k \in down)
    /\ \A i \in DOMAIN queue : LastOfKey(i) => (queue[i][2] # 0 <=> queue[i][1] \in down)

HidInv == Typed /\ OpenInv /\ PictureInv /\ QueueInv

\* A queue of events is none that were dropped.
LEMMA EventsAreKnown == ASSUME NEW q \in Seq(Events) PROVE q # Dropped
<1> SUFFICES ASSUME q = Dropped PROVE FALSE
  OBVIOUS
<1>1. q[1] \in Events
  BY DEF Dropped
<1>2. q[1][1] \in Keys /\ q[1][1] = "SYN_DROPPED"
  BY <1>1 DEF Dropped, Events
<1> QED
  BY <1>2, HidAssumption

LEMMA HidStart == HidInit => HidInv
<1> SUFFICES ASSUME HidInit PROVE HidInv
  OBVIOUS
<1>1. down \subseteq Keys
  BY DEF HidInit
<1> QED
  BY <1>1 DEF HidInit, HidInv, Typed, OpenInv, PictureInv, QueueInv

\* What leaves the reader's view and the device alone.
LEMMA Elsewhere ==
  ASSUME HidInv, UNCHANGED <<joystick, viewVars, deviceVars>>, OpenInv'
  PROVE  HidInv'
  BY DEF HidInv, Typed, PictureInv, QueueInv, Tracked, NoneQueued, LastOfKey,
     viewVars, deviceVars

\* A descriptor that is none or dead asks for nothing.
LEMMA NotLive ==
  ASSUME Typed', OpenInv', fd' # "live"
  PROVE  HidInv'
  BY DEF HidInv, PictureInv, QueueInv

\* The events of the device, by what they leave in the queue.
LEMMA Queueing ==
  ASSUME HidInv, NEW k \in Keys, NEW v \in Values, Queued(<<k, v>>),
         UNCHANGED <<joystick, hcall, reader, viewVars, fd>>,
         down' \subseteq Keys,
         \A other \in Keys : other # k => (other \in down' <=> other \in down),
         v # 0 <=> k \in down'
  PROVE  HidInv'
<1>1. Typed' /\ OpenInv'
  BY DEF HidInv, Typed, OpenInv, Queued, viewVars, Events
<1>2. CASE fd # "live"
  BY <1>1, <1>2, NotLive
<1>3. CASE fd = "live" /\ queue' = Dropped
  BY <1>1, <1>3 DEF HidInv, PictureInv, QueueInv, Tracked, viewVars
<1>4. CASE fd = "live" /\ queue' # Dropped
  <2>1. queue \in Seq(Events) /\ queue # Dropped /\ queue' = Append(queue, <<k, v>>)
    BY <1>4 DEF Queued, HidInv, Typed
  <2> DEFINE n == Len(queue)
  <2>2. /\ DOMAIN queue = 1..n /\ n \in Nat /\ DOMAIN queue' = 1..(n + 1)
        /\ \A i \in 1..n : queue'[i] = queue[i]
        /\ queue'[n + 1] = <<k, v>>
    BY <2>1
  <2>3. \A key \in Keys : NoneQueued(key)' => key # k /\ NoneQueued(key)
    BY <2>2 DEF NoneQueued
  <2>4. ASSUME NEW key \in Keys, NoneQueued(key)' PROVE key \in seen' <=> key \in down'
    BY <2>1, <2>3, <2>4, <1>4 DEF HidInv, QueueInv, viewVars
  <2>5. ASSUME NEW i \in DOMAIN queue', LastOfKey(i)'
        PROVE  queue'[i][2] # 0 <=> queue'[i][1] \in down'
    <3>1. CASE i = n + 1
      BY <2>2, <3>1
    <3>2. CASE i \in 1..n
      <4>1. queue[i][1] # k
        BY <2>2, <2>5, <3>2 DEF LastOfKey
      <4>2. LastOfKey(i)
        BY <2>2, <2>5, <3>2 DEF LastOfKey
      <4>3. queue[i][1] \in Keys
        BY <2>1, <2>2, <3>2 DEF Events
      <4> QED
        BY <1>4, <2>1, <2>2, <3>2, <4>1, <4>2, <4>3 DEF HidInv, QueueInv
    <3> QED
      BY <2>2, <2>5, <3>1, <3>2
  <2> QED
    BY <1>1, <1>4, <2>4, <2>5 DEF HidInv, PictureInv, QueueInv, Tracked, viewVars
<1> QED
  BY <1>2, <1>3, <1>4

\* An event is taken from the queue into both pictures.
LEMMA Handling ==
  ASSUME HidInv, HidDrain, queue # <<>>, queue # Dropped
  PROVE  HidInv'
<1> DEFINE e == Head(queue)
           n == Len(queue)
<1>1. queue \in Seq(Events) /\ fd = "live" /\ e \in Events
  BY DEF HidInv, Typed, HidDrain
<1>2. /\ HandleEvent(e[1], e[2]) /\ queue' = Tail(queue)
      /\ seen' = (IF e[2] # 0 THEN seen \cup {e[1]} ELSE seen \ {e[1]})
      /\ UNCHANGED <<joystick, hcall, reader, fd, down>>
  BY DEF HidDrain
<1>3. e[1] \in Keys
  BY <1>1 DEF Events
<1>4. e[1] \in seen' <=> e[2] # 0
  BY <1>2
<1>5. \A k \in Keys : k # e[1] => (k \in seen' <=> k \in seen)
  BY <1>2
<1>6. ASSUME e[1] \in Known PROVE state' \subseteq Known /\ handled' \subseteq Known /\ PictureInv'
  <2>1. /\ handled' = handled \cup {e[1]}
        /\ state' = (IF e[2] # 0 THEN state \cup {e[1]} ELSE state \ {e[1]})
    BY <1>2, <1>6 DEF HandleEvent, Indexed, JoystickHandles, KeyboardHandles, Set
  <2>2. PictureInv'
    <3> SUFFICES ASSUME NEW k \in Tracked' PROVE k \in state' <=> k \in seen'
      BY DEF PictureInv
    <3>1. CASE k = e[1]
      BY <1>4, <2>1, <3>1
    <3>2. CASE k # e[1]
      <4>1. k \in Tracked /\ k \in Keys
        BY <1>2, <2>1, <3>2, HidAssumption DEF Tracked, HidInv, Typed
      <4> QED
        BY <1>1, <1>5, <2>1, <3>2, <4>1 DEF HidInv, PictureInv
    <3> QED
      BY <3>1, <3>2
  <2> QED
    BY <1>6, <2>1, <2>2 DEF HidInv, Typed
<1>7. ASSUME e[1] \notin Known PROVE state' \subseteq Known /\ handled' \subseteq Known /\ PictureInv'
  <2>1. UNCHANGED <<state, handled>>
    BY <1>2, <1>7 DEF HandleEvent, Indexed
  <2>2. ASSUME NEW k \in Tracked' PROVE k \in Tracked /\ k # e[1] /\ k \in Keys
    BY <1>2, <1>7, <2>1, <2>2, HidAssumption DEF Tracked, HidInv, Typed
  <2> QED
    BY <1>1, <1>5, <2>1, <2>2 DEF HidInv, PictureInv, Typed
<1>8. state' \subseteq Known /\ handled' \subseteq Known /\ PictureInv'
  BY <1>6, <1>7 DEF HidInv, Typed
<1>9. Typed' /\ OpenInv'
  BY <1>1, <1>2, <1>3, <1>8 DEF HidInv, Typed, OpenInv
<1>10. /\ n \in Nat /\ n > 0 /\ DOMAIN queue = 1..n /\ DOMAIN queue' = 1..(n - 1)
       /\ \A i \in 1..(n - 1) : queue'[i] = queue[i + 1]
       /\ queue[1] = e
  BY <1>1, <1>2
<1>11. /\ \A k \in Keys : NoneQueued(k) => (k \in seen <=> k \in down)
       /\ \A i \in 1..n : LastOfKey(i) => (queue[i][2] # 0 <=> queue[i][1] \in down)
  BY <1>1, <1>10 DEF HidInv, QueueInv
<1>12. ASSUME NEW k \in Keys, NoneQueued(k)' PROVE k \in seen' <=> k \in down'
  <2>1. \A i \in 2..n : queue[i][1] # k
    <3> SUFFICES ASSUME NEW i \in 2..n PROVE queue[i][1] # k
      OBVIOUS
    <3>1. i - 1 \in 1..(n - 1) /\ queue'[i - 1] = queue[(i - 1) + 1] /\ (i - 1) + 1 = i
      BY <1>10
    <3> QED
      BY <1>10, <1>12, <3>1 DEF NoneQueued
  <2>2. CASE k = e[1]
    <3>1. LastOfKey(1)
      BY <1>10, <2>1, <2>2 DEF LastOfKey
    <3> QED
      BY <1>2, <1>4, <1>10, <1>11, <2>2, <3>1
  <2>3. CASE k # e[1]
    <3>1. NoneQueued(k)
      BY <1>10, <2>1, <2>3 DEF NoneQueued
    <3> QED
      BY <1>2, <1>5, <1>11, <2>3, <3>1
  <2> QED
    BY <2>2, <2>3
<1>13. ASSUME NEW i \in 1..(n - 1), LastOfKey(i)'
       PROVE  queue'[i][2] # 0 <=> queue'[i][1] \in down'
  <2>1. ASSUME NEW j \in 1..n, j > i + 1 PROVE queue[j][1] # queue[i + 1][1]
    <3>1. j - 1 \in 1..(n - 1) /\ queue'[j - 1] = queue[(j - 1) + 1] /\ (j - 1) + 1 = j /\ j - 1 > i
      BY <1>10, <2>1
    <3> QED
      BY <1>10, <1>13, <3>1 DEF LastOfKey
  <2>2. LastOfKey(i + 1) /\ i + 1 \in 1..n
    BY <1>10, <2>1 DEF LastOfKey
  <2> QED
    BY <1>2, <1>10, <1>11, <2>2
<1> QED
  BY <1>8, <1>9, <1>10, <1>12, <1>13 DEF HidInv, QueueInv

\* Whatever was dropped, the replay makes up for it.
LEMMA Replaying ==
  ASSUME HidInv, HidDrain, queue = Dropped
  PROVE  HidInv'
<1> DEFINE changed == Known \cap ((seen \ down) \cup (down \ seen))
<1>1. Dropped # <<>>
  BY DEF Dropped
<1>2. /\ state' = (state \ changed) \cup (down \cap changed)
      /\ handled' = handled \cup changed
      /\ seen' = down /\ queue' = <<>> /\ fd = "live"
      /\ UNCHANGED <<joystick, hcall, reader, fd, down>>
  BY <1>1 DEF HidDrain, Replay
<1>3. Typed' /\ OpenInv'
  BY <1>2 DEF HidInv, Typed, OpenInv
<1>4. ASSUME NEW k \in Tracked' PROVE k \in state' <=> k \in seen'
  <2>1. k \in Known
    BY <1>2 DEF Tracked, HidInv, Typed
  <2>2. k \in changed \/ (k \in Tracked /\ (k \in seen <=> k \in down))
    BY <1>2, <2>1 DEF Tracked
  <2> QED
    BY <1>2, <2>2 DEF HidInv, PictureInv
<1> QED
  BY <1>2, <1>3, <1>4 DEF HidInv, PictureInv, QueueInv, NoneQueued

LEMMA HidStep == HidInv /\ [HidNext]_hidVars => HidInv'
<1> SUFFICES ASSUME HidInv, [HidNext]_hidVars PROVE HidInv'
  OBVIOUS
<1> USE DEF hidVars
<1>1. CASE HidConnect
  BY <1>1, Elsewhere DEF HidConnect, HidInv, OpenInv, viewVars, deviceVars
<1>2. CASE HidReplaced
  BY <1>2, NotLive DEF HidReplaced, Teardown, HidInv, OpenInv, Typed
<1>3. CASE HidOpen
  <2>1. CASE plugged
    <3>1. /\ queue = <<>> /\ handled = {} /\ queue' = queue /\ handled' = handled
          /\ down' = down /\ seen' = down /\ joystick' = joystick
          /\ reader' = "open" /\ hcall' = "store" /\ fd' = "live"
          /\ state' = (IF joystick THEN down \cap Known ELSE state)
      BY <1>3, <2>1 DEF HidOpen, Seed, Coded, HidInv, OpenInv
    <3>2. Typed' /\ OpenInv'
      BY <3>1 DEF HidInv, Typed, OpenInv
    <3>3. PictureInv' /\ QueueInv'
      BY <3>1 DEF PictureInv, Tracked, QueueInv
    <3> QED
      BY <3>2, <3>3 DEF HidInv
  <2>2. CASE ~plugged
    BY <1>3, <2>2, Elsewhere DEF HidOpen, HidInv, OpenInv, viewVars, deviceVars
  <2> QED
    BY <2>1, <2>2
<1>4. CASE HidStore
  BY <1>4, Elsewhere DEF HidStore, HidInv, OpenInv, viewVars, deviceVars
<1>5. CASE HidDisconnect
  BY <1>5, Elsewhere DEF HidDisconnect, HidInv, OpenInv, viewVars, deviceVars
<1>6. CASE HidDisconnected
  BY <1>6, NotLive DEF HidDisconnected, Teardown, HidInv, OpenInv, Typed
<1>7. CASE HidWait
  BY <1>7, Elsewhere DEF HidWait, HidInv, OpenInv, viewVars, deviceVars
<1>8. CASE HidDrain
  <2>1. CASE queue = <<>>
    <3>1. queue # Dropped
      BY <2>1 DEF Dropped
    <3>2. UNCHANGED <<joystick, viewVars, deviceVars, reader, hcall>>
      BY <1>8, <2>1, <3>1 DEF HidDrain, deviceVars
    <3> QED
      BY <3>2, Elsewhere DEF HidInv, OpenInv, viewVars, deviceVars
  <2> QED
    BY <1>8, <2>1, Replaying, Handling
<1>9. CASE HidGone
  BY <1>9, Elsewhere DEF HidGone, HidInv, OpenInv, viewVars, deviceVars
<1>10. CASE HidPark
  BY <1>10, Elsewhere DEF HidPark, HidInv, OpenInv, viewVars, deviceVars
<1>11. CASE HidLeave
  BY <1>11, Elsewhere DEF HidLeave, HidInv, OpenInv, viewVars, deviceVars
<1>12. CASE DevicePress
  <2>1. PICK k \in Keys : /\ down' = IF k \in down THEN down \ {k} ELSE down \cup {k}
                          /\ Queued(<<k, IF k \in down THEN 0 ELSE 1>>)
    BY <1>12 DEF DevicePress
  <2>2. UNCHANGED <<joystick, hcall, reader, viewVars, fd>>
    BY <1>12 DEF DevicePress, readerVars
  <2>3. down' \subseteq Keys /\ \A other \in Keys : other # k => (other \in down' <=> other \in down)
    BY <2>1 DEF HidInv, Typed
  <2>4. CASE k \in down
    <3>1. Queued(<<k, 0>>) /\ k \notin down' /\ 0 \in Values
      BY <2>1, <2>4 DEF Values
    <3> QED
      BY <2>2, <2>3, <3>1, Queueing
  <2>5. CASE k \notin down
    <3>1. Queued(<<k, 1>>) /\ k \in down' /\ 1 \in Values
      BY <2>1, <2>5 DEF Values
    <3> QED
      BY <2>2, <2>3, <3>1, Queueing
  <2> QED
    BY <2>4, <2>5
<1>13. CASE DeviceRepeat
  <2>1. PICK k \in down : Queued(<<k, 2>>)
    BY <1>13 DEF DeviceRepeat
  <2>2. UNCHANGED <<joystick, hcall, reader, viewVars, fd, down>>
    BY <1>13 DEF DeviceRepeat, readerVars
  <2>3. /\ down' \subseteq Keys /\ k \in Keys /\ k \in down' /\ 2 \in Values
        /\ \A other \in Keys : other # k => (other \in down' <=> other \in down)
    BY <2>2 DEF HidInv, Typed, Values
  <2> QED
    BY <2>1, <2>2, <2>3, Queueing
<1>14. CASE Unplug
  <2>1. Typed' /\ OpenInv' /\ fd' # "live"
    BY <1>14 DEF Unplug, HidInv, Typed, OpenInv, readerVars, viewVars
  <2> QED
    BY <2>1, NotLive
<1>15. CASE Replug
  BY <1>15, Elsewhere DEF Replug, HidInv, Typed, OpenInv, PictureInv, QueueInv, Tracked,
     NoneQueued, LastOfKey, readerVars, viewVars
<1>16. CASE UNCHANGED hidVars
  BY <1>16, Elsewhere DEF HidInv, OpenInv, readerVars, viewVars, deviceVars
<1> QED
  BY <1>1, <1>2, <1>3, <1>4, <1>5, <1>6, <1>7, <1>8, <1>9, <1>10, <1>11, <1>12, <1>13, <1>14,
     <1>15, <1>16 DEF HidNext, HidOwner, HidThread, HidDevice

LEMMA HidConverges == HidInv => StateIsTheDevices
<1> SUFFICES ASSUME HidInv, fd = "live", queue = <<>>,
                    NEW k \in IF joystick THEN Known ELSE handled
             PROVE  k \in state <=> k \in down
  BY DEF StateIsTheDevices
<1>1. queue # Dropped /\ NoneQueued(k)
  BY DEF Dropped, NoneQueued
<1>2. k \in Keys
  BY HidAssumption DEF HidInv, Typed
<1> QED
  BY <1>1, <1>2 DEF HidInv, PictureInv, QueueInv, Tracked

\* Once the thread has drained what there was, the joystick's state is the
\* device's, and the keyboard's is for every key it was told of in this session
\* (EvdevReader::DrainEvents, HandleEvent), for every set of keys, every length of
\* the kernel's queue and however many events were lost.
THEOREM StateConverges == HidSpec => []StateIsTheDevices
  BY HidConverges, HidStart, HidStep, PTL DEF HidSpec

-----------------------------------------------------------------------------
(* The IMU.                                                                  *)

\* The tokens of the frames the IMU has sent or will send, and what a damaged
\* length may read as.
Tokens ==
  {Junk, Sync1, Sync2}
  \cup {Token("len", l, <<>>) : l \in 0..MaxLen}
  \cup {Token("crc", n, items) : n \in 1..MaxFrames, items \in Payloads}
  \cup {Token("pay", n, <<x>>) : n \in 1..MaxFrames, x \in Fields \cup {Cut}}
Reads == {Token("read", n, <<>>) : n \in 0..(MaxLen + 1)}

Records == [Fields -> 0..MaxFrames]
Entries == [n : 1..MaxFrames, items : Payloads]

ImuTyped ==
  /\ iport \in BOOLEAN /\ ihalf \in BOOLEAN /\ ifault \in BOOLEAN /\ ireport \in BOOLEAN
  /\ iage \in 0..(ImuFresh + 1)
  /\ isent \in [frames : 0..MaxFrames, damage : 0..MaxDamage]
  /\ irec \in Records /\ isample.at \in Nat /\ isample.rec \in Records
  /\ ilog \in Seq(Entries)

\* What the decoder holds: a head, a length that may be too long only until the
\* header is complete, and less than the length announces.
RawInv ==
  /\ iraw \in Seq(Tokens \cup Reads) /\ iline \in Seq(Tokens)
  /\ iraw # <<>> => Len(iraw) >= 2 /\ iraw[1] = Sync1 /\ iraw[2] = Sync2
  /\ Len(iraw) > 2 => iraw[3].n \in 0..(MaxLen + 1)
  /\ Len(iraw) >= Header => iraw[3].n <= MaxLen /\ Len(iraw) < Header + iraw[3].n

\* The record is what the frames of this session left there.
RecordInv == \E rec, log : rec = irec /\ log = ilog /\ Says(rec, log, Len(log))

\* A sample waits to be stored only in an open session, and it is the newest; with
\* none waiting a fresh mark is that of the sample stored.
MarkInv ==
  /\ imarked = <<>> \/ \E s, log : /\ imarked = <<s>> /\ log = ilog /\ iport
                                  /\ s.at \in Nat /\ s.rec \in Records /\ Newest(s, log)
  /\ iport /\ iage <= ImuFresh /\ imarked = <<>> =>
       \E s, log : s = isample /\ log = ilog /\ Newest(s, log)

ImuInv == ImuTyped /\ RawInv /\ RecordInv /\ MarkInv

LEMMA ImuBounds ==
  /\ MaxLen \in Nat /\ ImuFresh \in Nat /\ MaxFrames \in Nat /\ MaxDamage \in Nat
  /\ \A items \in Payloads : items \in Seq(Fields \cup {Cut}) /\ Len(items) <= MaxLen
BY ImuAssumption

LEMMA FrameTokens ==
  ASSUME NEW n \in 1..MaxFrames, NEW items \in Payloads
  PROVE  Frame(n, items) \in Seq(Tokens)
<1> DEFINE head == <<Sync1, Sync2, Token("len", Len(items), <<>>), Token("crc", n, items)>>
           rest == [i \in 1..Len(items) |-> Token("pay", n, <<items[i]>>)]
<1>0. items \in Seq(Fields \cup {Cut}) /\ Len(items) \in 0..MaxLen
  BY ImuBounds, LenProperties
<1>1. head \in Seq(Tokens)
  <2>1. /\ Sync1 \in Tokens /\ Sync2 \in Tokens
        /\ Token("len", Len(items), <<>>) \in Tokens /\ Token("crc", n, items) \in Tokens
    BY <1>0 DEF Tokens
  <2> QED BY <2>1
<1>2. rest \in Seq(Tokens)
  <2>1. \A i \in 1..Len(items) : rest[i] \in Tokens
    BY <1>0 DEF Tokens
  <2> QED BY <2>1, <1>0
<1> HIDE DEF head, rest
<1>3. head \o rest \in Seq(Tokens)
  BY <1>1, <1>2, ConcatProperties
<1> QED BY <1>3 DEF Frame, head, rest

\* A frame the decoder accepts is one that was sent: its checksum is a token of the line.
LEMMA AcceptedWasSent ==
  ASSUME NEW raw \in Seq(Tokens \cup Reads), Len(raw) >= 4, Accepts(raw)
  PROVE  raw[4].n \in 1..MaxFrames /\ raw[4].of \in Payloads
<1>1. PICK t \in Tokens \cup Reads : t = raw[4]
  BY LenProperties
<1>2. t.is = "crc"
  BY <1>1 DEF Accepts
<1>3. t.n \in 1..MaxFrames /\ t.of \in Payloads
  BY <1>2 DEF Tokens, Reads, Token, Junk, Sync1, Sync2
<1> QED BY <1>1, <1>3

\* A later frame changes nothing of what the earlier ones left.
LEMMA SaysStill ==
  ASSUME NEW log \in Seq(Entries), NEW e \in Entries, NEW at \in 0..Len(log), NEW rec,
         NEW more, more = Append(log, e), Says(rec, log, at)
  PROVE  Says(rec, more, at)
<1>1. \A i \in 1..at : more[i] = log[i]
  BY LenProperties, AppendProperties
<1>2. \A f \in Fields :
        {i \in 1..at : f \in Written(more[i].items)} = {i \in 1..at : f \in Written(log[i].items)}
  BY <1>1
<1> QED BY <1>1, <1>2 DEF Says

\* A frame adds its own fields.
LEMMA SaysMore ==
  ASSUME NEW log \in Seq(Entries), NEW e \in Entries, NEW rec, Says(rec, log, Len(log)),
         NEW more, more = Append(log, e), NEW next,
         next = [f \in Fields |-> IF f \in Written(e.items) THEN e.n ELSE rec[f]]
  PROVE  Says(next, more, Len(log) + 1)
<1>1. /\ Len(log) \in Nat /\ more[Len(log) + 1] = e
      /\ \A i \in 1..Len(log) : more[i] = log[i]
  BY LenProperties, AppendProperties
<1>2. PICK k \in Nat : k = Len(log)
  BY <1>1
<1>3. ASSUME NEW f \in Fields
      PROVE  LET carried == {i \in 1..(k + 1) : f \in Written(more[i].items)}
             IN  \/ carried = {} /\ next[f] = 0
                 \/ \E i \in carried : next[f] = more[i].n /\ \A j \in carried : j <= i
  <2>1. CASE f \in Written(e.items)
    <3>1. PICK carried : carried = {i \in 1..(k + 1) : f \in Written(more[i].items)}
      OBVIOUS
    <3>2. k + 1 \in carried
      BY <2>1, <1>1, <1>2, <3>1
    <3>3. next[f] = more[k + 1].n
      BY <2>1, <1>1, <1>2
    <3>4. \A j \in carried : j <= k + 1
      BY <3>1
    <3> QED BY <3>1, <3>2, <3>3, <3>4
  <2>2. CASE f \notin Written(e.items)
    <3>1. {i \in 1..(k + 1) : f \in Written(more[i].items)} = {i \in 1..k : f \in Written(log[i].items)}
      <4>1. \A i \in 1..(k + 1) : i \in 1..k \/ i = k + 1
        OBVIOUS
      <4>2. \A i \in 1..k : i \in 1..(k + 1) /\ more[i] = log[i]
        BY <1>1, <1>2
      <4>3. more[k + 1] = e
        BY <1>1, <1>2
      <4> QED BY <4>1, <4>2, <4>3, <2>2
    <3>2. next[f] = rec[f]
      BY <2>2
    <3>3. LET carried == {i \in 1..k : f \in Written(log[i].items)}
          IN  \/ carried = {} /\ rec[f] = 0
              \/ \E i \in carried : rec[f] = log[i].n /\ \A j \in carried : j <= i
      BY <1>2 DEF Says
    <3>4. \A i \in 1..k : more[i] = log[i]
      BY <1>1, <1>2
    <3> QED BY <3>1, <3>2, <3>3, <3>4
  <2> QED BY <2>1, <2>2
<1> QED BY <1>2, <1>3 DEF Says

\* A frame that fails leaves the sample the newest.
LEMMA NewestStill ==
  ASSUME NEW log \in Seq(Entries), NEW e \in Entries, NEW more, more = Append(log, e),
         NEW s, s.at \in Nat, Newest(s, log), Fails(e.items)
  PROVE  Newest(s, more)
<1>1. /\ Len(log) \in Nat /\ Len(more) = Len(log) + 1 /\ more[Len(log) + 1] = e
      /\ \A i \in 1..Len(log) : more[i] = log[i]
      /\ DOMAIN log = 1..Len(log) /\ DOMAIN more = 1..(Len(log) + 1)
  BY LenProperties, AppendProperties
<1>2. PICK k \in Nat : k = Len(log)
  BY <1>1
<1>3. /\ s.at \in 1..k /\ ~Fails(log[s.at].items) /\ Says(s.rec, log, s.at)
      /\ \A j \in 1..k : j > s.at => Fails(log[j].items)
  BY <1>1, <1>2 DEF Newest
<1>4. Says(s.rec, more, s.at)
  <2>1. s.at \in 0..Len(log)
    BY <1>2, <1>3
  <2> QED BY <2>1, <1>3, SaysStill
<1>5. s.at \in DOMAIN more /\ more[s.at] = log[s.at]
  BY <1>1, <1>2, <1>3
<1>6. ASSUME NEW j \in DOMAIN more, j > s.at PROVE Fails(more[j].items)
  <2>1. j \in 1..k \/ j = k + 1
    BY <1>1, <1>2
  <2> QED BY <2>1, <1>1, <1>2, <1>3, <1>6
<1> QED BY <1>3, <1>4, <1>5, <1>6 DEF Newest

\* A frame that does not fail is the newest.
LEMMA NewestNow ==
  ASSUME NEW log \in Seq(Entries), NEW e \in Entries, NEW more, more = Append(log, e),
         NEW s, s.at = Len(log) + 1, Says(s.rec, more, Len(log) + 1), ~Fails(e.items)
  PROVE  Newest(s, more)
<1>1. /\ Len(log) \in Nat /\ more[Len(log) + 1] = e /\ DOMAIN more = 1..(Len(log) + 1)
  BY LenProperties, AppendProperties
<1> QED BY <1>1 DEF Newest

LEMMA ImuStart == ImuInit => ImuInv
<1> SUFFICES ASSUME ImuInit PROVE ImuInv
  OBVIOUS
<1>0. Blank0 \in Records
  BY ImuBounds DEF Blank0, Records
<1>1. ImuTyped
  <2>1. /\ iport \in BOOLEAN /\ ihalf \in BOOLEAN /\ ifault \in BOOLEAN /\ ireport \in BOOLEAN
    BY Zenon DEF ImuInit
  <2>2. iage \in 0..(ImuFresh + 1)
    BY ImuBounds DEF ImuInit
  <2>3. isent \in [frames : 0..MaxFrames, damage : 0..MaxDamage]
    BY ImuBounds DEF ImuInit
  <2>4. irec \in Records /\ isample.at \in Nat /\ isample.rec \in Records /\ ilog \in Seq(Entries)
    BY <1>0 DEF ImuInit
  <2> QED BY <2>1, <2>2, <2>3, <2>4 DEF ImuTyped
<1>2. RawInv
  BY DEF ImuInit, RawInv, Header
<1>3. RecordInv
  BY DEF ImuInit, RecordInv, Says, Blank0
<1>4. MarkInv
  BY ImuBounds DEF ImuInit, MarkInv
<1> QED BY <1>1, <1>2, <1>3, <1>4 DEF ImuInv

\* What a frame does whose checksum is right.
LEMMA DecodeKeeps ==
  ASSUME ImuTyped, RecordInv, MarkInv, iport, imarked = <<>>, UNCHANGED <<iport, isample>>,
         NEW n \in 1..MaxFrames, NEW items \in Payloads, DecodeCh(n, items)
  PROVE  /\ iage' \in 0..(ImuFresh + 1) /\ irec' \in Records /\ ilog' \in Seq(Entries)
         /\ RecordInv' /\ MarkInv'
<1>1. PICK e \in Entries : e = [n |-> n, items |-> items]
  BY DEF Entries
<1>2. e.n = n /\ e.items = items
  BY <1>1
<1>0. PICK log \in Seq(Entries) : log = ilog
  BY DEF ImuTyped
<1>3. PICK more : log = ilog /\ more = ilog' /\ more = Append(log, e)
  BY <1>0, <1>1 DEF DecodeCh
<1>4. PICK rec, next : rec = irec /\ next = irec'
  OBVIOUS
<1>5. rec \in Records /\ Says(rec, log, Len(log))
  BY <1>3, <1>4 DEF RecordInv, ImuTyped
<1>6. next = [f \in Fields |-> IF f \in Written(e.items) THEN e.n ELSE rec[f]]
  BY <1>2, <1>4 DEF DecodeCh
<1>7. next \in Records
  <2>1. n \in 0..MaxFrames
    BY ImuBounds
  <2> QED BY <2>1, <1>2, <1>5, <1>6 DEF Records
<1>8. Len(log) \in Nat /\ more \in Seq(Entries) /\ Len(more) = Len(log) + 1
  BY <1>3, LenProperties, AppendProperties
<1>9. Says(next, more, Len(log) + 1)
  BY <1>3, <1>5, <1>6, SaysMore
<1>10. RecordInv'
  BY <1>3, <1>4, <1>8, <1>9 DEF RecordInv
<1>11. CASE Fails(items)
  <2>1. UNCHANGED <<iage, imarked>>
    BY <1>11 DEF DecodeCh
  <2>2. ASSUME iage <= ImuFresh PROVE \E s : s = isample /\ Newest(s, more)
    <3>1. PICK s : s = isample /\ Newest(s, log)
      BY <2>2, <1>3 DEF MarkInv
    <3>2. s.at \in Nat
      BY <3>1 DEF ImuTyped
    <3>3. Newest(s, more)
      BY <3>1, <3>2, <1>2, <1>3, <1>11, NewestStill
    <3> QED BY <3>1, <3>3
  <2>3. MarkInv'
    BY <2>1, <2>2, <1>3 DEF MarkInv
  <2> QED BY <2>1, <2>3, <1>3, <1>4, <1>7, <1>8, <1>10 DEF ImuTyped
<1>12. CASE ~Fails(items)
  <2>1. PICK s : s = [at |-> Len(log) + 1, rec |-> next]
    OBVIOUS
  <2>2. iage' = 0 /\ imarked' = <<s>>
    BY <2>1, <1>3, <1>4, <1>12 DEF DecodeCh
  <2>3. s.at = Len(log) + 1 /\ s.rec = next
    BY <2>1
  <2>4. Newest(s, more)
    BY <2>3, <1>2, <1>3, <1>9, <1>12, NewestNow
  <2>5. s.at \in Nat /\ s.rec \in Records
    BY <2>3, <1>7, <1>8
  <2>6. MarkInv'
    <3>1. imarked' # <<>>
      BY <2>2
    <3> QED BY <3>1, <2>2, <2>4, <2>5, <1>3 DEF MarkInv
  <2>7. 0 \in 0..(ImuFresh + 1)
    BY ImuBounds
  <2> QED BY <2>2, <2>6, <2>7, <1>3, <1>4, <1>7, <1>8, <1>10
<1> QED BY <1>11, <1>12

LEMMA ImuHeard == ASSUME ImuInv, ImuReceive PROVE ImuInv'
<1>0. /\ ImuTyped /\ RawInv /\ RecordInv /\ MarkInv
      /\ iport /\ imarked = <<>> /\ iline # <<>> /\ iline' = Tail(iline)
      /\ UNCHANGED <<iport, ifault, ireport, isample, isent>>
  BY DEF ImuInv, ImuReceive, ImuFree
<1>1. /\ iraw \in Seq(Tokens \cup Reads) /\ iline' \in Seq(Tokens) /\ Head(iline) \in Tokens
      /\ Len(iraw) \in Nat
  <2>1. iline \in Seq(Tokens) /\ iraw \in Seq(Tokens \cup Reads)
    BY <1>0 DEF RawInv
  <2> QED BY <2>1, <1>0, HeadTailProperties, LenProperties
<1>2. PICK t \in Tokens \cup Reads, len \in Int :
        /\ Take(t, iraw, len)
        /\ Len(iraw) = 2 => t.n \in 0..(MaxLen + 1)
        /\ Len(iraw) > 2 => len = iraw[3].n
  <2>1. PICK n \in IF Len(iraw) = 2 THEN Lengths(Head(iline)) ELSE {0} :
          Take(IF Len(iraw) # 2 THEN Head(iline)
               ELSE IF Head(iline).is = "len" THEN Head(iline) ELSE Token("read", n, <<>>),
               iraw, IF Len(iraw) > 2 THEN iraw[3].n ELSE 0)
    BY DEF ImuReceive
  <2>2. PICK len : len = IF Len(iraw) > 2 THEN iraw[3].n ELSE 0
    OBVIOUS
  <2>3. len \in Int /\ (Len(iraw) > 2 => len = iraw[3].n)
    <3>1. Len(iraw) > 2 => iraw[3].n \in 0..(MaxLen + 1)
      BY <1>0 DEF RawInv
    <3> QED BY <2>2, <3>1
  <2>4. PICK h \in Tokens : h = Head(iline)
    BY <1>1
  <2>5. h.is = "len" => h.n \in 0..MaxLen
    BY <2>4 DEF Tokens, Token, Junk, Sync1, Sync2
  <2>6. CASE Len(iraw) # 2
    BY <2>1, <2>2, <2>3, <2>4, <2>6
  <2>7. CASE Len(iraw) = 2 /\ h.is = "len"
    <3>1. h.n \in 0..(MaxLen + 1)
      BY <2>5, <2>7, ImuBounds
    <3> QED BY <2>1, <2>2, <2>3, <2>4, <2>7, <3>1
  <2>8. CASE Len(iraw) = 2 /\ h.is # "len"
    <3>1. n \in 0..(MaxLen + 1)
      BY <2>1, <2>4, <2>8 DEF Lengths
    <3>2. Token("read", n, <<>>) \in Reads /\ Token("read", n, <<>>).n = n
      BY <3>1 DEF Reads, Token
    <3>3. PICK r \in Reads : r = Token("read", n, <<>>) /\ r.n = n
      BY <3>2
    <3> QED BY <2>1, <2>2, <2>3, <2>4, <2>8, <3>1, <3>3
  <2> QED BY <2>6, <2>7, <2>8
<1>3. CASE iraw = <<>>
  <2>1. /\ iraw' = (IF ihalf /\ t = Sync2 THEN <<Sync1, Sync2>> ELSE <<>>)
        /\ ihalf' = (t = Sync1) /\ UNCHANGED <<iage, imarked, irec, ilog>>
    BY <1>2, <1>3 DEF Take
  <2>2. Sync1 \in Tokens /\ Sync2 \in Tokens
    BY DEF Tokens
  <2>3. RawInv'
    <3>1. CASE iraw' = <<>>
      BY <3>1, <1>1 DEF RawInv, Header
    <3>2. CASE iraw' = <<Sync1, Sync2>>
      BY <3>2, <2>2, <1>1 DEF RawInv, Header
    <3> QED BY <2>1, <3>1, <3>2
  <2>4. ImuTyped' /\ RecordInv' /\ MarkInv'
    BY <1>0, <2>1 DEF ImuTyped, RecordInv, MarkInv
  <2> QED BY <2>3, <2>4 DEF ImuInv
<1>4. CASE iraw # <<>>
  <2>1. PICK now : now = Append(iraw, t)
    OBVIOUS
  <2>2. /\ now \in Seq(Tokens \cup Reads) /\ Len(now) = Len(iraw) + 1 /\ now[Len(iraw) + 1] = t
        /\ \A i \in 1..Len(iraw) : now[i] = iraw[i]
    BY <1>1, <2>1, AppendProperties
  <2>3. /\ iraw' = <<>> \/ (iraw' = now /\ (Len(now) >= Header => len <= MaxLen /\ Len(now) < Header + len))
        /\ ihalf' = FALSE
        /\ \/ Len(now) >= 4 /\ Accepts(now) /\ DecodeCh(now[4].n, now[4].of)
           \/ UNCHANGED <<iage, imarked, irec, ilog>>
    <3>1. MaxLen \in Int /\ len \in Int /\ Len(now) \in Int
      BY <2>2, <1>1, ImuBounds
    <3> QED BY <1>2, <1>4, <2>1, <3>1 DEF Take, TooLong, Header
  <2>4. Len(iraw) >= 2 /\ iraw[1] = Sync1 /\ iraw[2] = Sync2
    BY <1>0, <1>4 DEF RawInv
  <2>5. Len(now) > 2 /\ now[1] = Sync1 /\ now[2] = Sync2
    BY <1>1, <2>2, <2>4
  <2>6. now[3].n \in 0..(MaxLen + 1) /\ (Len(now) >= Header => now[3].n = len)
    <3>1. CASE Len(iraw) = 2
      BY <3>1, <1>2, <2>2 DEF Header
    <3>2. CASE Len(iraw) # 2
      <4>0. PICK n \in Nat : n = Len(iraw) /\ n >= 2
        BY <1>1, <2>4
      <4>1. Len(iraw) > 2
        <5>1. n # 2
          BY <3>2, <4>0
        <5>2. n > 2
          BY <4>0, <5>1
        <5> QED BY <4>0, <5>2
      <4>2. 3 \in 1..Len(iraw)
        BY <4>1, <1>1
      <4>3. now[3] = iraw[3]
        BY <4>2, <2>2
      <4> QED BY <4>1, <4>3, <1>0, <1>2 DEF RawInv
    <3> QED BY <3>1, <3>2
  <2>7. RawInv'
    <3>1. CASE iraw' = <<>>
      BY <3>1, <1>1 DEF RawInv, Header
    <3>2. CASE iraw' = now /\ (Len(now) >= Header => len <= MaxLen /\ Len(now) < Header + len)
      BY <3>2, <1>1, <2>2, <2>5, <2>6 DEF RawInv
    <3> QED BY <2>3, <3>1, <3>2
  <2>8. /\ iage' \in 0..(ImuFresh + 1) /\ irec' \in Records /\ ilog' \in Seq(Entries)
        /\ RecordInv' /\ MarkInv'
    <3>1. CASE Len(now) >= 4 /\ Accepts(now) /\ DecodeCh(now[4].n, now[4].of)
      <4>1. now[4].n \in 1..MaxFrames /\ now[4].of \in Payloads
        BY <3>1, <2>2, AcceptedWasSent
      <4>2. PICK n \in 1..MaxFrames : n = now[4].n
        BY <4>1
      <4>3. PICK items \in Payloads : items = now[4].of
        BY <4>1
      <4>4. DecodeCh(n, items)
        BY <3>1, <4>2, <4>3
      <4> QED BY <1>0, <4>4, DecodeKeeps
    <3>2. CASE UNCHANGED <<iage, imarked, irec, ilog>>
      BY <3>2, <1>0 DEF ImuTyped, RecordInv, MarkInv
    <3> QED BY <2>3, <3>1, <3>2
  <2>9. ImuTyped'
    <3>1. /\ iport' \in BOOLEAN /\ ihalf' \in BOOLEAN /\ ifault' \in BOOLEAN /\ ireport' \in BOOLEAN
      BY <1>0, <2>3, Zenon DEF ImuTyped
    <3> QED BY <1>0, <2>8, <3>1 DEF ImuTyped
  <2> QED BY <2>7, <2>8, <2>9 DEF ImuInv
<1> QED BY <1>3, <1>4

LEMMA ImuSent == ASSUME ImuInv, ImuSends PROVE ImuInv'
<1>0. /\ ImuTyped /\ RawInv /\ RecordInv /\ MarkInv
      /\ UNCHANGED <<iport, ihalf, iraw, iage, ifault, ireport, irec, imarked, isample, ilog>>
  BY DEF ImuInv, ImuSends
<1>1. PICK k \in 0..(MaxFrames - 1), d \in 0..MaxDamage : isent = [frames |-> k, damage |-> d]
  <2>1. PICK k \in 0..MaxFrames, d \in 0..MaxDamage : isent = [frames |-> k, damage |-> d]
    BY <1>0 DEF ImuTyped
  <2>2. isent.frames = k /\ isent.frames < MaxFrames
    BY <2>1 DEF ImuSends
  <2> QED BY <2>1, <2>2, ImuBounds
<1>2. k + 1 \in 1..MaxFrames
  BY <1>1, ImuBounds
<1>5. isent.frames = k /\ isent.damage = d
  BY <1>1
<1>6. PICK items \in Payloads : \E f : /\ f = Frame(k + 1, items)
        /\ \/ iline' = iline \o f /\ isent' = [frames |-> k + 1, damage |-> d]
           \/ /\ d < MaxDamage /\ isent' = [frames |-> k + 1, damage |-> d + 1]
              /\ \E i \in DOMAIN f : iline' \in {iline \o RemoveAt(f, i), iline \o [f EXCEPT ![i] = Junk]}
  BY <1>1, <1>5 DEF ImuSends
<1>3. PICK f : /\ f = Frame(k + 1, items)
        /\ \/ iline' = iline \o f /\ isent' = [frames |-> k + 1, damage |-> d]
           \/ /\ d < MaxDamage /\ isent' = [frames |-> k + 1, damage |-> d + 1]
              /\ \E i \in DOMAIN f : iline' \in {iline \o RemoveAt(f, i), iline \o [f EXCEPT ![i] = Junk]}
  BY <1>6
<1>4. f \in Seq(Tokens) /\ Junk \in Tokens /\ iline \in Seq(Tokens)
  <2>1. f \in Seq(Tokens)
    BY <1>2, <1>3, FrameTokens
  <2>2. Junk \in Tokens
    BY DEF Tokens
  <2> QED BY <1>0, <2>1, <2>2 DEF RawInv
<1>7. iline' \in Seq(Tokens)
  <2>1. CASE iline' = iline \o f
    BY <2>1, <1>4, ConcatProperties
  <2>2. ASSUME NEW i \in DOMAIN f, iline' = iline \o RemoveAt(f, i) PROVE iline' \in Seq(Tokens)
    <3>1. i \in 1..Len(f) /\ Len(f) \in Nat
      BY <1>4
    <3>2. SubSeq(f, 1, i - 1) \in Seq(Tokens) /\ SubSeq(f, i + 1, Len(f)) \in Seq(Tokens)
      BY <1>4, <3>1
    <3>3. RemoveAt(f, i) \in Seq(Tokens)
      BY <3>2, ConcatProperties DEF RemoveAt
    <3> QED BY <2>2, <3>3, <1>4, ConcatProperties
  <2>3. ASSUME NEW i \in DOMAIN f, iline' = iline \o [f EXCEPT ![i] = Junk] PROVE iline' \in Seq(Tokens)
    <3>1. [f EXCEPT ![i] = Junk] \in Seq(Tokens)
      BY <1>4
    <3> QED BY <2>3, <3>1, <1>4, ConcatProperties
  <2> QED BY <1>3, <2>1, <2>2, <2>3
<1>8. isent' \in [frames : 0..MaxFrames, damage : 0..MaxDamage]
  <2>1. k + 1 \in 0..MaxFrames /\ (d < MaxDamage => d + 1 \in 0..MaxDamage)
    BY <1>1, ImuBounds
  <2> QED BY <1>3, <2>1
<1> QED BY <1>0, <1>7, <1>8 DEF ImuInv, ImuTyped, RawInv, RecordInv, MarkInv

LEMMA ImuStep == ImuInv /\ [ImuNext]_imuVars => ImuInv'
<1> SUFFICES ASSUME ImuInv, [ImuNext]_imuVars PROVE ImuInv'
  OBVIOUS
<1>0. ImuTyped /\ RawInv /\ RecordInv /\ MarkInv
  BY DEF ImuInv
<1>1. CASE ImuConnect
  <2>1. ImuTyped'
    <3>1. /\ iport' \in BOOLEAN /\ ihalf' \in BOOLEAN /\ ifault' \in BOOLEAN /\ ireport' \in BOOLEAN
      BY <1>0, <1>1, Zenon DEF ImuTyped, ImuConnect, Anew
    <3>2. iage' \in 0..(ImuFresh + 1) /\ isent' = isent
      BY <1>1, ImuBounds DEF ImuConnect, Anew
    <3>3. irec' \in Records /\ ilog' \in Seq(Entries) /\ isample' = isample
      BY <1>1, ImuBounds DEF ImuConnect, Anew, Blank0, Records
    <3> QED BY <1>0, <3>1, <3>2, <3>3 DEF ImuTyped
  <2>2. RawInv'
    BY <1>0, <1>1 DEF RawInv, ImuConnect, Anew, Header
  <2>3. RecordInv'
    BY <1>1 DEF RecordInv, Says, ImuConnect, Anew, Blank0
  <2>4. imarked = <<>> /\ imarked' = <<>>
    BY <1>0, <1>1 DEF MarkInv, ImuConnect
  <2>5. MarkInv'
    BY <1>1, <2>4, ImuBounds DEF MarkInv, ImuConnect, Anew
  <2> QED BY <2>1, <2>2, <2>3, <2>5 DEF ImuInv
<1>2. CASE ImuDisconnect
  <2>1. ImuTyped'
    <3>1. /\ iport' \in BOOLEAN /\ ihalf' \in BOOLEAN /\ ifault' \in BOOLEAN /\ ireport' \in BOOLEAN
      BY <1>0, <1>2, Zenon DEF ImuTyped, ImuDisconnect
    <3>2. iage' \in 0..(ImuFresh + 1) /\ isent' = isent
      BY <1>2, ImuBounds DEF ImuDisconnect
    <3> QED BY <1>0, <1>2, <3>1, <3>2 DEF ImuTyped, ImuDisconnect
  <2>2. RawInv' /\ RecordInv'
    BY <1>0, <1>2 DEF RawInv, RecordInv, ImuDisconnect
  <2>3. imarked = <<>> /\ imarked' = <<>>
    BY <1>0, <1>2 DEF MarkInv, ImuDisconnect, ImuFree
  <2>4. MarkInv'
    BY <1>2, <2>3, ImuBounds DEF MarkInv, ImuDisconnect
  <2> QED BY <2>1, <2>2, <2>4 DEF ImuInv
<1>3. CASE ImuStore
  <2>1. PICK s, log : /\ imarked = <<s>> /\ log = ilog /\ iport
                      /\ s.at \in Nat /\ s.rec \in Records /\ Newest(s, log)
    BY <1>0, <1>3 DEF MarkInv, ImuStore
  <2>2. isample' = s /\ imarked' = <<>> /\ ilog' = log
    BY <1>3, <2>1 DEF ImuStore
  <2>3. ImuTyped'
    BY <1>0, <1>3, <2>1, <2>2 DEF ImuTyped, ImuStore
  <2>4. RawInv' /\ RecordInv'
    BY <1>0, <1>3 DEF RawInv, RecordInv, ImuStore
  <2>5. MarkInv'
    BY <2>1, <2>2 DEF MarkInv
  <2> QED BY <2>3, <2>4, <2>5 DEF ImuInv
<1>4. CASE ImuFaults
  <2>1. ImuTyped'
    BY <1>0, <1>4, Zenon DEF ImuTyped, ImuFaults
  <2>2. RawInv' /\ RecordInv'
    BY <1>0, <1>4 DEF RawInv, RecordInv, ImuFaults
  <2>3. MarkInv'
    BY <1>4 DEF MarkInv, ImuFaults, ImuFree
  <2> QED BY <2>1, <2>2, <2>3 DEF ImuInv
<1>5. CASE ImuErrorCallback
  BY <1>0, <1>5 DEF ImuInv, ImuTyped, RawInv, RecordInv, MarkInv, ImuErrorCallback
<1>6. CASE ImuTick
  <2>1. iage \in 0..(ImuFresh + 1) /\ iage <= ImuFresh /\ iage' = iage + 1
    BY <1>0, <1>6 DEF ImuTyped, ImuTick
  <2>2. iage' \in 0..(ImuFresh + 1) /\ iage <= ImuFresh
    BY <2>1, ImuBounds
  <2>3. ImuTyped'
    BY <1>0, <1>6, <2>2 DEF ImuTyped, ImuTick
  <2>4. RawInv' /\ RecordInv'
    BY <1>0, <1>6 DEF RawInv, RecordInv, ImuTick
  <2>5. MarkInv'
    BY <1>0, <1>6, <2>2 DEF MarkInv, ImuTick
  <2> QED BY <2>3, <2>4, <2>5 DEF ImuInv
<1>7. CASE UNCHANGED imuVars
  BY <1>0, <1>7 DEF ImuInv, ImuTyped, RawInv, RecordInv, MarkInv, imuVars
<1> QED BY <1>1, <1>2, <1>3, <1>4, <1>5, <1>6, <1>7, ImuHeard, ImuSent DEF ImuNext

LEMMA ImuReads == ImuInv => ImuSampleOfSession
<1> SUFFICES ASSUME ImuInv, ImuRead = "ok" \/ ImuHealth = "ok", imarked = <<>>
             PROVE  Newest(isample, ilog)
  BY DEF ImuSampleOfSession
<1>1. iport /\ iage <= ImuFresh
  BY DEF ImuRead, ImuHealth, ReadStatus, HealthFromFreshness, IsFresh
<1> QED
  BY <1>1 DEF ImuInv, MarkInv

\* Read() of the IMU hands out a sample, and Health() is kOk, only after an intact
\* frame of this session, and every field of the sample is that of the last intact
\* frame of this session that carried it, up to the newest that did not fail
\* (ImuHipnuc::OnSerialData, ch_serial_input, parse_data), for every set of fields and
\* payloads, length the decoder takes, window and damage of the line.
THEOREM SamplesOfThisSession == ImuSpec => []ImuSampleOfSession
  BY ImuReads, ImuStart, ImuStep, PTL DEF ImuSpec

-----------------------------------------------------------------------------
(* The three together.                                                       *)

\* What HidInv leaves open of the types.
HidFlags ==
  /\ joystick \in BOOLEAN /\ running \in BOOLEAN /\ hconn \in BOOLEAN /\ plugged \in BOOLEAN
  /\ early \in BOOLEAN
HidShape ==
  /\ HidFlags
  /\ hcall \in {"none", "replace", "open", "store", "join"}
  /\ reader \in {"none", "open", "shut"}
  /\ thread \in {"off", "wait", "drain"} \cup Lost
  /\ fd \in {"none", "live", "dead"}
  /\ queue = Dropped \/ Len(queue) <= Room

LEMMA HidShapeStart == HidInit => HidShape
<1>1. Len(<<>>) <= Room
  BY HidAssumption
<1>2. HidInit => /\ joystick \in BOOLEAN /\ running \in BOOLEAN /\ hconn \in BOOLEAN
                 /\ plugged \in BOOLEAN /\ early \in BOOLEAN
  BY Zenon DEF HidInit
<1> QED BY <1>1, <1>2 DEF HidInit, HidShape, HidFlags

LEMMA HidShapeStep == HidInv /\ HidShape /\ [HidNext]_hidVars => HidShape'
<1> SUFFICES ASSUME HidInv, HidShape, [HidNext]_hidVars PROVE HidShape'
  OBVIOUS
<1>1. CASE HidConnect \/ HidDisconnect \/ HidReplaced \/ HidOpen \/ HidStore \/ HidDisconnected
  <2>1. Len(<<>>) <= Room
    BY HidAssumption
  <2>2. UNCHANGED queue \/ queue' = <<>>
    BY <1>1 DEF HidConnect, HidDisconnect, HidReplaced, HidOpen, HidStore, HidDisconnected, Teardown,
                deviceVars
  <2>3. queue' = Dropped \/ Len(queue') <= Room
    BY <2>1, <2>2 DEF HidShape
  <2>4. HidFlags'
    BY <1>1, Zenon DEF HidConnect, HidDisconnect, HidReplaced, HidOpen, HidStore, HidDisconnected, HidShape,
       HidFlags, deviceVars
  <2>5. /\ hcall' \in {"none", "replace", "open", "store", "join"}
        /\ reader' \in {"none", "open", "shut"}
        /\ thread' \in {"off", "wait", "drain"} \cup Lost
        /\ fd' \in {"none", "live", "dead"}
    BY <1>1 DEF HidConnect, HidDisconnect, HidReplaced, HidOpen, HidStore, HidDisconnected, Teardown,
       HidShape, deviceVars, Lost
  <2> QED BY <2>3, <2>4, <2>5 DEF HidShape
<1>2. CASE HidThread
  <2>1. queue' = Dropped \/ Len(queue') <= Room
    <3>1. CASE UNCHANGED queue \/ queue' = <<>>
      <4>1. Len(<<>>) <= Room
        BY HidAssumption
      <4> QED BY <3>1, <4>1 DEF HidShape
    <3>2. CASE queue # <<>> /\ queue # Dropped /\ queue' = Tail(queue)
      <4>1. queue \in Seq(Events) /\ Len(queue) <= Room
        BY <3>2 DEF HidInv, Typed, HidShape
      <4>2. Len(queue') = Len(queue) - 1 /\ Len(queue) \in Nat
        BY <3>2, <4>1, HeadTailProperties
      <4> QED BY <4>1, <4>2, HidAssumption
    <3> QED BY <1>2, <3>1, <3>2 DEF HidThread, HidWait, HidDrain, HidGone, HidPark, HidLeave, deviceVars
  <2>2. HidFlags'
    BY <1>2, Zenon DEF HidThread, HidWait, HidDrain, HidGone, HidPark, HidLeave, HidShape, HidFlags,
       deviceVars, OnDisconnect
  <2>3. /\ hcall' = hcall /\ fd' = fd /\ reader' \in {"none", "open", "shut"}
        /\ thread' \in {"off", "wait", "drain"} \cup Lost
    BY <1>2 DEF HidThread, HidWait, HidDrain, HidGone, HidPark, HidLeave, HidShape, deviceVars, Lost
  <2> QED BY <2>1, <2>2, <2>3 DEF HidShape
<1>3. CASE HidDevice
  <2>1. ASSUME NEW e \in Events, Queued(e) PROVE queue' = Dropped \/ Len(queue') <= Room
    <3>1. CASE queue' = queue
      BY <3>1 DEF HidShape
    <3>2. CASE queue # Dropped /\ Len(queue) # Room /\ queue' = Append(queue, e)
      <4>1. queue \in Seq(Events) /\ Len(queue) <= Room
        BY <3>2 DEF HidInv, Typed, HidShape
      <4>2. Len(queue') = Len(queue) + 1 /\ Len(queue) \in Nat
        BY <3>2, <4>1, AppendProperties, LenProperties
      <4> QED BY <3>2, <4>1, <4>2, HidAssumption
    <3> QED BY <2>1, <3>1, <3>2 DEF Queued
  <2>2. queue' = Dropped \/ Len(queue') <= Room
    <3>1. CASE DevicePress
      <4>1. PICK k \in Keys : Queued(<<k, IF k \in down THEN 0 ELSE 1>>)
        BY <3>1 DEF DevicePress
      <4>2. <<k, IF k \in down THEN 0 ELSE 1>> \in Events
        BY DEF Events, Values
      <4> QED BY <2>1, <4>1, <4>2
    <3>2. CASE DeviceRepeat
      <4>1. PICK k \in down : Queued(<<k, 2>>)
        BY <3>2 DEF DeviceRepeat
      <4>2. <<k, 2>> \in Events
        BY <4>1 DEF Events, Values, HidInv, Typed
      <4> QED BY <2>1, <4>1, <4>2
    <3>3. CASE Unplug \/ Replug
      <4>1. Len(<<>>) <= Room
        BY HidAssumption
      <4>2. queue' = <<>> \/ queue' = queue
        BY <3>3 DEF Unplug, Replug
      <4> QED BY <4>1, <4>2 DEF HidShape
    <3> QED BY <1>3, <3>1, <3>2, <3>3 DEF HidDevice
  <2>3. HidFlags'
    BY <1>3, Zenon DEF HidDevice, DevicePress, DeviceRepeat, Unplug, Replug, readerVars, HidShape, HidFlags
  <2>4. UNCHANGED <<hcall, reader, thread>> /\ fd' \in {"none", "live", "dead"}
    BY <1>3 DEF HidDevice, DevicePress, DeviceRepeat, Unplug, Replug, readerVars, HidShape
  <2> QED BY <2>2, <2>3, <2>4 DEF HidShape
<1>4. CASE UNCHANGED hidVars
  BY <1>4 DEF HidShape, HidFlags, hidVars, readerVars, deviceVars
<1> QED BY <1>1, <1>2, <1>3, <1>4 DEF HidNext, HidOwner

InputsVars == <<which, vars, imuVars, hidVars, inputFrameVars>>
InputsInv == Inv /\ ImuInv /\ HidInv /\ HidShape

LEMMA InputsSteps ==
  [MCNext]_InputsVars => [Next]_vars /\ [ImuNext]_imuVars /\ [HidNext]_hidVars
<1>1. MCNext => (Next \/ UNCHANGED vars) /\ (ImuNext \/ UNCHANGED imuVars) /\ (HidNext \/ UNCHANGED hidVars)
  BY DEF MCNext
<1>2. UNCHANGED InputsVars => UNCHANGED vars /\ UNCHANGED imuVars /\ UNCHANGED hidVars
  BY DEF InputsVars
<1> QED BY <1>1, <1>2

\* The receiver's decoder, the IMU's and the reader of a joystick or keyboard
\* never write beyond their buffers and keep their types, in every behaviour of
\* the composition (SbusDecoder, ch_serial_input, EvdevReader).
THEOREM InputsTyping == MCSpec => []InputsTypeOK
<1>1. MCInit => InputsInv
  <2>1. MCInit => Init /\ ImuInit /\ HidInit
    BY DEF MCInit, SbusRests, HidRests
  <2> QED BY <2>1, Start, ImuStart, HidStart, HidShapeStart DEF InputsInv
<1>2. InputsInv /\ [MCNext]_InputsVars => InputsInv'
  BY InputsSteps, Step, ImuStep, HidStep, HidShapeStep DEF InputsInv
<1>3. InputsInv => InputsTypeOK
  <2> SUFFICES ASSUME InputsInv PROVE TypeOK /\ ImuTypeOK /\ HidTypeOK
    BY DEF InputsTypeOK
  <2>1. TypeOK
    BY DEF InputsInv, Inv
  <2>2. ImuTypeOK
    <3>1. ImuTyped /\ RawInv
      BY DEF InputsInv, ImuInv
    <3>2. iraw = <<>> \/ (iraw[1] = Sync1 /\ iraw[2] = Sync2)
      BY <3>1 DEF RawInv
    <3>3. Len(iraw) < Header + MaxLen
      <4>1. Len(iraw) \in Nat
        BY <3>1, LenProperties DEF RawInv
      <4>2. CASE Len(iraw) < Header
        BY <4>1, <4>2, ImuBounds DEF Header
      <4>3. CASE Len(iraw) >= Header
        <5>1. iraw[3].n \in 0..(MaxLen + 1) /\ iraw[3].n <= MaxLen /\ Len(iraw) < Header + iraw[3].n
          BY <3>1, <4>1, <4>3 DEF RawInv, Header
        <5> QED BY <4>1, <5>1, ImuBounds DEF Header
      <4> QED BY <4>1, <4>2, <4>3 DEF Header
    <3> QED BY <3>1, <3>2, <3>3 DEF ImuTypeOK, ImuTyped, Records
  <2>3. HidTypeOK
    BY DEF InputsInv, HidInv, Typed, HidShape, HidFlags, HidTypeOK
  <2> QED BY <2>1, <2>2, <2>3
<1> QED BY <1>1, <1>2, <1>3, PTL DEF MCSpec, InputsVars

\* What is read of an IMU, a joystick or a keyboard is the device's, in every
\* behaviour of the composition: a sample that is handed out as fresh is the newest of
\* this session, once it is stored, each field from the last intact frame that carried
\* it, and the state is that of the keys once the events are drained
\* (ImuHipnuc::OnSerialData, parse_data, EvdevReader).
THEOREM ReadingsTrue == MCSpec => []ReadingsAreTrue
<1>1. MCInit => ImuInv /\ HidInv
  <2>1. MCInit => ImuInit /\ HidInit
    BY DEF MCInit, HidRests
  <2> QED
    BY <2>1, ImuStart, HidStart
<1>2. (ImuInv /\ HidInv) /\ [MCNext]_InputsVars => (ImuInv /\ HidInv)'
  <2>1. ImuInv /\ [MCNext]_InputsVars => ImuInv'
    BY InputsSteps, ImuStep
  <2>2. HidInv /\ [MCNext]_InputsVars => HidInv'
    BY InputsSteps, HidStep
  <2> QED
    BY <2>1, <2>2
<1>3. ImuInv /\ HidInv => ReadingsAreTrue
  BY ImuReads, HidConverges DEF ReadingsAreTrue
<1> QED
  BY <1>1, <1>2, <1>3, PTL DEF MCSpec, InputsVars
=============================================================================
