---------------------------- MODULE Ddsm210Array ----------------------------
(***************************************************************************)
(* Several DDSM210 wheel motors on one serial bus: ddsm_210_array.{hpp,cpp}*)
(* and the frames of ddsm_210_frame.cpp, over a serial port that takes a   *)
(* frame whole or not at all (AsyncSerial) and a receive ring (RingBuffer).*)
(*                                                                         *)
(* A caller's thread commands the motors one frame at a time, the owner    *)
(* connects and disconnects, and the port's I/O thread runs ProcessRx, one *)
(* turn of its loop per step.  The owner's and the caller's steps come     *)
(* between any two of them.  A call that is refused before it sends        *)
(* anything (not connected, unknown id, wrong size, not finite) changes    *)
(* nothing and is a stuttering step.  EverUpdated() only chooses between   *)
(* two reasons of kDegraded, so a monitor is its age, and a reset one is   *)
(* as stale as a late one.                                                 *)
(***************************************************************************)
EXTENDS FrameScan

CONSTANTS
  ids,            \* cfg_.ids, a sequence
  Strangers,      \* ids on the bus that are not configured
  Speeds,         \* speeds asked for, 0 among them
  Requests,       \* feedback asked for: "odom", "mode"
  Provisioned,    \* modes the motors were set to before
  TxRoom,         \* frames the port's TX ring holds
  Timeout,        \* cfg_.feedback_timeout, in ticks of the clock
  MaxSessions,    \* model bound: times the port is opened
  MaxSends,       \* model bound: calls that begin after this many accepted frames
                  \* are not explored
  MaxAir,         \* model bound: bytes unread when a motor takes its next frame
  MaxNoise        \* model bound: replies damaged and frames from strangers

Ids == {ids[i] : i \in DOMAIN ids}
Modes == {0, 2}        \* Ddsm210Frame::Mode kOpenLoop, kSpeed
Unknown == 255         \* kUnknown

ASSUME ArrayAssumption ==
  /\ FrameLen \in Nat \ {0}
  /\ Room \in Nat \ {0}
  /\ ids \in Seq(Ids)
  /\ ids # <<>> /\ Cardinality(Ids) = Len(ids)    \* ValidateIds
  /\ Strangers \cap Ids = {}
  /\ 0 \in Speeds
  /\ Requests \subseteq {"odom", "mode"}
  /\ Provisioned \subseteq Modes
  /\ {TxRoom, Timeout, MaxSessions} \subseteq Nat

VARIABLES
  open,        \* the port is open
  tx,          \* frames the port holds: [id, op, value]
  reporting,   \* the I/O thread is about to report a fault of the port
  connected,   \* connected_
  owner,       \* how far Connect() or Disconnect() has come
  call,        \* the call under way, see Calls
  rx,          \* rx_buffer_
  scanning,    \* the I/O thread is inside the loop of ProcessRx
  fb,          \* the feedback of each channel
  age,         \* freshness of each channel, Timeout + 1 once it is stale
  mode_age,    \* mode_freshness of each channel
  air,         \* bytes on their way from the motors
  motor,       \* external: speed and mode of each motor
  session,     \* history: times the port was opened
  sends,       \* history: frames accepted, up to MaxSends
  noise,       \* history: replies damaged and frames from strangers
  handled,     \* history: whether ProcessRx took an even or odd number of frames
  halted,      \* history: motors that were told to stop by a Stop() answered kOk
  spoke,       \* history: motors that answered anything in this session
  said,        \* history: modes each motor reported in this session
  late         \* history: the last Connect() found the port open: the report of an
               \* earlier fault came after the port was opened again

portVars == <<open, tx, sends>>
rxVars == <<rx, scanning, fb, age, mode_age, handled>>
busVars == <<air, motor, noise, spoke, said>>
vars == <<portVars, reporting, connected, owner, call, rxVars, busVars, session, halted,
          late>>

NoCall == [op |-> "none", at |-> 1, value |-> 0, ok |-> TRUE, in |-> 0]
Calls == [op : {"none", "speeds", "stop"}, at : 1..Len(ids), value : Speeds, ok : BOOLEAN,
          in : 0..MaxSessions]    \* in: the session in which it began
Stale == [id \in Ids |-> Timeout + 1]

TypeOK ==
  /\ open \in BOOLEAN /\ reporting \in BOOLEAN /\ connected \in BOOLEAN
  /\ Len(tx) <= TxRoom
  /\ owner \in {<<s>> : s \in {"idle", "opening", "opened", "closing", "closed"}}
                \cup {<<"stopping", i>> : i \in DOMAIN ids}
  /\ call \in Calls
  /\ Len(rx) <= Room /\ scanning \in BOOLEAN
  /\ fb \in [Ids -> [speed : Speeds, mode : Modes]]
  /\ {age, mode_age} \subseteq [Ids -> 0..(Timeout + 1)]
  /\ motor \in [Ids -> [speed : Speeds, mode : Modes]]

Init ==
  /\ open = FALSE /\ tx = <<>> /\ reporting = FALSE
  /\ connected = FALSE /\ owner = <<"idle">> /\ call = NoCall
  /\ rx = <<>> /\ scanning = FALSE
  /\ fb = [id \in Ids |-> [speed |-> 0, mode |-> 0]]
  /\ age = Stale /\ mode_age = Stale
  /\ air = <<>>
  /\ motor \in [Ids -> [speed : {0}, mode : Provisioned]]
  /\ session = 0 /\ sends = 0 /\ noise = 0 /\ handled = 0
  /\ halted = {} /\ spoke = {} /\ late = FALSE
  /\ said = [id \in Ids |-> {}]

IsConnected == connected /\ open

-----------------------------------------------------------------------------
(* Frames to the motors.                                                     *)

Taken == open /\ Len(tx) < TxRoom

\* SendFrame: the port takes the frame whole, or refuses it.
SendFrame(id, op, value) ==
  /\ tx' = IF Taken THEN Append(tx, [id |-> id, op |-> op, value |-> value]) ELSE tx
  /\ sends' = IF Taken /\ sends < MaxSends THEN sends + 1 ELSE sends
  /\ UNCHANGED open

Free == call = NoCall /\ IsConnected /\ sends < MaxSends

\* SetSpeed(id), Stop(id), RequestOdometryFeedback, RequestModeFeedback.
SendOne ==
  /\ Free
  /\ \E id \in Ids :
       \/ \E v \in Speeds :
            /\ SendFrame(id, "speed", v)
            /\ halted' = IF Taken /\ v # 0 THEN halted \ {id} ELSE halted
       \/ \E op \in Requests : SendFrame(id, op, 0) /\ UNCHANGED halted
  /\ UNCHANGED <<reporting, connected, owner, call, rxVars, busVars, session, late>>

\* SetSpeeds and Stop look at the connection, then send one frame per motor.
Begin ==
  /\ Free
  /\ \/ \E v \in Speeds : call' = [NoCall EXCEPT !.op = "speeds", !.value = v, !.in = session]
     \/ call' = [NoCall EXCEPT !.op = "stop", !.in = session]
  /\ UNCHANGED <<portVars, reporting, connected, owner, rxVars, busVars, session, halted, late>>

\* Mistake: the status of the last frame is the answer of the call.
FanOutLast(ok, fine) == fine

\* The answer of a call is kOk when no frame of it failed.
FanOut(ok, fine) == ok /\ fine

\* The next frame of the call under way, whatever became of the ones before.
\* SetSpeeds goes through SetSpeed(id), which looks at the connection again.
Continue ==
  /\ call.op # "none"
  /\ LET id   == ids[call.at]
         mute == call.op = "speeds" /\ ~IsConnected
         fine == FanOut(call.ok, ~mute /\ Taken)
         done == call.at = Len(ids)
     IN  /\ IF mute THEN UNCHANGED portVars ELSE SendFrame(id, "speed", call.value)
         /\ call' = IF done THEN NoCall ELSE [call EXCEPT !.at = @ + 1, !.ok = fine]
         /\ halted' = IF call.op = "speeds" /\ call.value # 0 /\ ~mute /\ Taken
                        THEN halted \ {id}
                      ELSE IF call.op = "stop" /\ done /\ fine /\ call.in = session THEN Ids
                      ELSE halted
  /\ UNCHANGED <<reporting, connected, owner, rxVars, busVars, session, late>>

-----------------------------------------------------------------------------
(* Connect and Disconnect, on the owner's thread.                            *)

\* FreshnessMonitor::Reset of every channel.
Reset == age' = Stale /\ mode_age' = Stale

Connect ==
  /\ owner = <<"idle">> /\ ~connected
  /\ Reset
  /\ late' = open
  /\ owner' = <<"opening">>
  /\ UNCHANGED <<portVars, reporting, connected, call, rx, scanning, fb, handled,
                 busVars, session, halted>>

\* Open() succeeds, or fails on a port that is open already: the driver goes on
\* in both cases.  An Open() that fails otherwise ends in ConnectFailed.
ConnectOpened ==
  /\ owner = <<"opening">>
  /\ owner' = <<"opened">>
  /\ \/ open /\ UNCHANGED <<open, session, spoke, said, halted>>
     \/ /\ ~open /\ session < MaxSessions
        /\ open' = TRUE
        /\ session' = session + 1
        /\ spoke' = {}
        /\ said' = [id \in Ids |-> {}]
        /\ halted' = {}
  /\ UNCHANGED <<tx, sends, reporting, connected, call, rxVars, air, motor, noise, late>>

ConnectFailed ==
  /\ owner = <<"opening">> /\ ~open
  /\ owner' = <<"idle">>
  /\ UNCHANGED <<portVars, reporting, connected, call, rxVars, busVars, session, halted, late>>

ConnectDone ==
  /\ owner = <<"opened">>
  /\ connected' = TRUE
  /\ owner' = <<"idle">>
  /\ UNCHANGED <<portVars, reporting, call, rxVars, busVars, session, halted, late>>

\* Disconnect() stops every motor first, if the port still takes frames.
Disconnect ==
  /\ owner = <<"idle">> /\ connected
  /\ owner' = IF open THEN <<"stopping", 1>> ELSE <<"closing">>
  /\ UNCHANGED <<portVars, reporting, connected, call, rxVars, busVars, session, halted, late>>

DisconnectStop ==
  /\ owner[1] = "stopping"
  /\ SendFrame(ids[owner[2]], "speed", 0)
  /\ owner' = IF owner[2] = Len(ids) THEN <<"closing">> ELSE <<"stopping", owner[2] + 1>>
  /\ UNCHANGED <<reporting, connected, call, rxVars, busVars, session, halted, late>>

\* The port forgets what it holds, and the kernel what nobody has read.
PortGone ==
  /\ open' = FALSE /\ tx' = <<>> /\ air' = <<>>
  /\ UNCHANGED <<sends, motor, noise, spoke, said>>

\* Close() of an open port waits for the I/O thread.
DisconnectClose ==
  /\ owner = <<"closing">>
  /\ open => ~scanning
  /\ PortGone
  /\ owner' = <<"closed">>
  /\ UNCHANGED <<reporting, connected, call, rxVars, session, halted, late>>

DisconnectDone ==
  /\ owner = <<"closed">>
  /\ connected' = FALSE
  /\ Reset
  /\ owner' = <<"idle">>
  /\ UNCHANGED <<portVars, reporting, call, rx, scanning, fb, handled, busVars,
                 session, halted, late>>

-----------------------------------------------------------------------------
(* The I/O thread.                                                           *)

IoFree == ~scanning /\ ~reporting

\* ProcessRx: the bytes go into the ring.
Receive ==
  /\ open /\ IoFree
  /\ \E n \in DOMAIN air :
       /\ rx' = Newest(rx \o SubSeq(air, 1, n))
       /\ air' = Drop(air, n)
  /\ scanning' = TRUE
  /\ UNCHANGED <<portVars, reporting, connected, owner, call, fb, age, mode_age, handled,
                 motor, noise, spoke, said, session, halted, late>>

\* Mistake: any frame of a motor counts as news of its mode.
MarkAll(frame) ==
  /\ fb' = [fb EXCEPT ![frame.id] =
              IF frame.op = "speed" THEN [@ EXCEPT !.speed = frame.value]
              ELSE IF frame.op = "mode" THEN [@ EXCEPT !.mode = frame.value] ELSE @]
  /\ age' = [age EXCEPT ![frame.id] = 0]
  /\ mode_age' = [mode_age EXCEPT ![frame.id] = 0]

\* A valid frame of a configured motor: its part of the snapshot, and the
\* monitors it is news for.
Mark(frame) ==
  /\ fb' = [fb EXCEPT ![frame.id] =
              IF frame.op = "speed" THEN [@ EXCEPT !.speed = frame.value]
              ELSE IF frame.op = "mode" THEN [@ EXCEPT !.mode = frame.value] ELSE @]
  /\ age' = [age EXCEPT ![frame.id] = 0]
  /\ mode_age' = IF frame.op = "mode" THEN [mode_age EXCEPT ![frame.id] = 0] ELSE mode_age

ScanFrame ==
  /\ scanning /\ Len(rx) >= FrameLen /\ Intact(rx)
  /\ rx' = Drop(rx, FrameLen)
  /\ handled' = 1 - handled
  /\ \/ rx[1][1].id \in Ids /\ Mark(rx[1][1])
     \/ rx[1][1].id \notin Ids /\ UNCHANGED <<fb, age, mode_age>>
  /\ UNCHANGED <<portVars, reporting, connected, owner, call, scanning, busVars,
                 session, halted, late>>

\* Mistake: a window that is no frame is thrown away whole.
ScanByteWindow ==
  /\ scanning /\ Len(rx) >= FrameLen /\ ~Intact(rx)
  /\ rx' = Drop(rx, FrameLen)
  /\ UNCHANGED <<portVars, reporting, connected, owner, call, scanning, fb, age, mode_age,
                 handled, busVars, session, halted, late>>

\* Not a frame: one byte is dropped, and the next window tried.
ScanByte ==
  /\ scanning /\ Len(rx) >= FrameLen /\ ~Intact(rx)
  /\ rx' = Drop(rx, 1)
  /\ UNCHANGED <<portVars, reporting, connected, owner, call, scanning, fb, age, mode_age,
                 handled, busVars, session, halted, late>>

ScanEnd ==
  /\ scanning /\ Len(rx) < FrameLen
  /\ scanning' = FALSE
  /\ UNCHANGED <<portVars, reporting, connected, owner, call, rx, fb, age, mode_age,
                 handled, busVars, session, halted, late>>

PortFaults ==
  /\ open /\ IoFree
  /\ PortGone
  /\ reporting' = TRUE
  /\ UNCHANGED <<connected, owner, call, rxVars, session, halted, late>>

ErrorCallback ==
  /\ reporting
  /\ reporting' = FALSE
  /\ connected' = FALSE
  /\ UNCHANGED <<portVars, owner, call, rxVars, busVars, session, halted, late>>

-----------------------------------------------------------------------------
(* The motors (external) and the clock.                                      *)

\* A motor takes a frame, does what it says, and answers.
Transmit ==
  /\ tx # <<>> /\ Len(air) <= MaxAir
  /\ LET f == Head(tx)
         m == IF f.op = "speed" THEN [motor[f.id] EXCEPT !.speed = f.value] ELSE motor[f.id]
         r == [id |-> f.id, op |-> f.op,
               value |-> CASE f.op = "speed" -> m.speed [] f.op = "mode" -> m.mode
                           [] OTHER -> 0]
     IN  /\ motor' = [motor EXCEPT ![f.id] = m]
         /\ \/ air' = air \o BytesOf(r) /\ UNCHANGED noise
            \/ /\ noise < MaxNoise
               /\ \E bytes \in Spoilt(r) : air' = air \o bytes
               /\ noise' = noise + 1
         /\ spoke' = spoke \cup {f.id}
         /\ said' = IF f.op = "mode" THEN [said EXCEPT ![f.id] = @ \cup {m.mode}] ELSE said
  /\ tx' = Tail(tx)
  /\ UNCHANGED <<open, sends, reporting, connected, owner, call, rxVars, session,
                 halted, late>>

\* A motor that is not configured talks on the bus.
StrangerTalks ==
  /\ open /\ noise < MaxNoise
  /\ \E id \in Strangers : air' = air \o BytesOf([id |-> id, op |-> "speed", value |-> 0])
  /\ noise' = noise + 1
  /\ UNCHANGED <<portVars, reporting, connected, owner, call, rxVars, motor, spoke, said,
                 session, halted, late>>

Older(monitor) == [id \in Ids |-> IF monitor[id] > Timeout THEN Timeout + 1 ELSE monitor[id] + 1]

Tick ==
  /\ age # Stale \/ mode_age # Stale
  /\ age' = Older(age)
  /\ mode_age' = Older(mode_age)
  /\ UNCHANGED <<portVars, reporting, connected, owner, call, rx, scanning, fb, handled,
                 busVars, session, halted, late>>

-----------------------------------------------------------------------------
Next ==
  \/ SendOne \/ Begin \/ Continue
  \/ Connect \/ ConnectOpened \/ ConnectFailed \/ ConnectDone
  \/ Disconnect \/ DisconnectStop \/ DisconnectClose \/ DisconnectDone
  \/ Receive \/ ScanFrame \/ ScanByte \/ ScanEnd
  \/ PortFaults \/ ErrorCallback
  \/ Transmit \/ StrangerTalks \/ Tick

Spec == Init /\ [][Next]_vars

-----------------------------------------------------------------------------
(* Properties.                                                               *)

GetMode(id) == IF mode_age[id] > Timeout THEN Unknown ELSE fb[id].mode

\* The worst member's (device error codes are left out).
Health ==
  IF ~IsConnected THEN "disconnected"
  ELSE IF \A id \in Ids : age[id] <= Timeout THEN "ok" ELSE "degraded"

\* ddsm_210_array.cpp:369: without a fresh reply "we do NOT know the mode": what
\* GetMode() answers is a mode the motor reported in this session.
ModeIsReported == \A id \in Ids : GetMode(id) # Unknown => GetMode(id) \in said[id]

\* No member hides behind the others: an array that is ok has heard from every
\* motor in this session.
NoSilentMember == Health = "ok" => spoke = Ids

\* What the array says of its motors, they said in this session, when Connect() reset
\* the monitors of a closed port.  (It resets them before it opens the port, and goes on
\* with a port that is open: one that then faults and opens again brings its news along.)
HeardThisSession == ~late => ModeIsReported /\ NoSilentMember

\* Whatever is lost or damaged around it, a frame whose bytes all lie in the ring
\* is handled before the loop ends: resynchronising never costs an intact frame.
FramesAreHandled ==
  [][scanning => /\ Frames(rx') = Frames(rx) - (IF handled' = handled THEN 0 ELSE 1)
                 /\ scanning' \/ Len(rx') < FrameLen]_vars

\* "every id is commanded even if an earlier send fails; first failing status
\* returned": after a Stop() that was answered kOk in the session it began in, once
\* the bus is quiet, no motor runs that was not commanded again.
StopHalts == open /\ tx = <<>> => \A id \in halted : motor[id].speed = 0
=============================================================================
