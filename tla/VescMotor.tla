----------------------------- MODULE VescMotor -----------------------------
(***************************************************************************)
(* The VESC driver: VescMotor (vesc_motor.{hpp,cpp}) and the               *)
(* VescCanInterface under it, over a CAN port as CanLink specifies it.     *)
(*                                                                         *)
(* One control thread connects, disconnects and commands; the port's I/O   *)
(* thread delivers status frames and bus faults through callbacks.  Each   *)
(* Connect() makes a new port, numbered by session; its fault is reported  *)
(* in a step after the one that closed it, and the control thread may act  *)
(* in between.  A command that is refused (not connected, not finite, not  *)
(* sent) changes nothing and is a stuttering step.                         *)
(***************************************************************************)
EXTENDS Integers, Sequences, SequencesExt

CONSTANTS
  Requests,      \* the <<kind, value>> users ask for, kind "speed", "current" or "brake"
  Limit,         \* max_speed_erpm and max_current_a
  Timeout,       \* freshness_ms, in ticks of the clock
  Capacity,      \* frames the port holds
  MaxSessions,   \* model bound: ports opened
  MaxSends       \* model bound: frames accepted, the stops of Disconnect() apart

ASSUME VescAssumption ==
  /\ Requests \subseteq {"speed", "current", "brake"} \X Int
  /\ Limit \in Nat
  /\ Timeout \in Nat
  /\ Capacity \in Nat \ {0}
  /\ MaxSessions \in Nat
  /\ MaxSends \in Nat

VARIABLES
  open, backlog, accepted, wire,   \* the port, see CanLink
  sent,        \* history: [acceptance number -> command]
  reporting,   \* session whose fault the I/O thread is about to report, or 0
  session,     \* ports opened so far
  connected,   \* connected_
  owner,       \* how far Connect() or Disconnect() has come
  bus_fault,   \* bus_fault_
  ever,        \* monitor_.ever_
  age,         \* now - monitor_.last_ns_, Timeout + 1 once it is older
  asked,       \* history: last command of this session answered kOk or kOutOfRange
  told,        \* history: sessions whose fault was reported
  closed,      \* history: sessions that Disconnect() closed itself
  heard_in     \* history: session of the last status frame

portVars == <<open, backlog, accepted, wire, sent>>
driverVars == <<connected, owner, bus_fault, ever, age>>
historyVars == <<asked, told, closed, heard_in>>
vars == <<portVars, reporting, session, driverVars, historyVars>>

Port == INSTANCE CanLink

Coast == <<"current", 0>>
Commands == {"speed", "current"} \X (-Limit..Limit) \cup {"brake"} \X (0..Limit)
Sessions == 1..MaxSessions

\* Types, and the envelope: no frame carries more than the configured limits.
TypeOK ==
  /\ Port!LinkTypeOK
  /\ sent \in Seq(Commands)
  /\ reporting \in 0..MaxSessions
  /\ session \in 0..MaxSessions
  /\ connected \in BOOLEAN
  /\ owner \in {"idle", "opening", "opened", "stopped", "closed"}
  /\ bus_fault \in BOOLEAN
  /\ ever \in BOOLEAN
  /\ age \in 0..(Timeout + 1)
  /\ asked \in Commands \cup {<<>>}
  /\ told \subseteq Sessions
  /\ closed \subseteq Sessions
  /\ heard_in \in 0..MaxSessions

Init ==
  /\ Port!LinkInit
  /\ sent = <<>>
  /\ reporting = 0
  /\ session = 0
  /\ connected = FALSE
  /\ owner = "idle"
  /\ bus_fault = FALSE
  /\ ever = FALSE
  /\ age = Timeout + 1
  /\ asked = <<>>
  /\ told = {}
  /\ closed = {}
  /\ heard_in = 0

-----------------------------------------------------------------------------
(* Commands, on the control thread.                                          *)

\* VescCanInterface::SendCmd and the port's SendFrame.
SendCmd(cmd) ==
  IF open /\ Len(backlog) < Capacity
    THEN Port!Accept /\ sent' = Append(sent, cmd) /\ asked' = cmd
    ELSE UNCHANGED portVars /\ UNCHANGED asked

\* Mistake: only the upper end of the envelope is kept.
ClampedAbove(v) == IF v > Limit THEN Limit ELSE v
Clamped(v) == IF v < -Limit THEN -Limit ELSE IF v > Limit THEN Limit ELSE v

Ready == owner = "idle" /\ connected /\ accepted < MaxSends

\* SetSpeed, SetCurrent and ApplyBrake: an amount of braking is not clamped but
\* refused.
Command ==
  /\ Ready
  /\ \E r \in Requests :
       /\ r[1] = "brake" => r[2] \in 0..Limit
       /\ SendCmd(<<r[1], Clamped(r[2])>>)
  /\ UNCHANGED <<reporting, session, driverVars, told, closed, heard_in>>

\* Mistake: a stop is not sent to a motor that looks dead.
StopIfFresh ==
  /\ Ready
  /\ IF ever /\ age <= Timeout
       THEN SendCmd(Coast)
       ELSE UNCHANGED portVars /\ asked' = Coast
  /\ UNCHANGED <<reporting, session, driverVars, told, closed, heard_in>>

\* Stop and ReleaseBrake.
Stop ==
  /\ Ready
  /\ SendCmd(Coast)
  /\ UNCHANGED <<reporting, session, driverVars, told, closed, heard_in>>

-----------------------------------------------------------------------------
(* Connect and Disconnect, on the control thread.                            *)

\* FreshnessMonitor::Reset.
MonitorReset == ever' = FALSE /\ UNCHANGED age

Connect ==
  /\ owner = "idle" /\ ~connected
  /\ MonitorReset
  /\ bus_fault' = FALSE
  /\ owner' = "opening"
  /\ UNCHANGED <<portVars, reporting, session, connected, historyVars>>

ConnectFailed ==
  /\ owner = "opening"
  /\ owner' = "idle"
  /\ UNCHANGED <<portVars, reporting, session, connected, bus_fault, ever, age, historyVars>>

ConnectOpened ==
  /\ owner = "opening"
  /\ session < MaxSessions
  /\ Port!Connect
  /\ session' = session + 1
  /\ asked' = <<>>
  /\ owner' = "opened"
  /\ UNCHANGED <<sent, reporting, connected, bus_fault, ever, age, told, closed, heard_in>>

\* Mistake: an old fault is cleared after the port was opened, not before.
ConnectDoneClears ==
  /\ owner = "opened"
  /\ connected' = TRUE
  /\ bus_fault' = FALSE
  /\ owner' = "idle"
  /\ UNCHANGED <<portVars, reporting, session, ever, age, historyVars>>

ConnectDone ==
  /\ owner = "opened"
  /\ connected' = TRUE
  /\ owner' = "idle"
  /\ UNCHANGED <<portVars, reporting, session, bus_fault, ever, age, historyVars>>

\* A closing port forgets its frames.
PortGone == open' = FALSE /\ backlog' = <<>> /\ UNCHANGED <<accepted, wire, sent>>

DisconnectStop ==
  /\ owner = "idle" /\ connected
  /\ SendCmd(Coast)
  /\ owner' = "stopped"
  /\ UNCHANGED <<reporting, session, connected, bus_fault, ever, age, told, closed, heard_in>>

\* Mistake: the port is left open.
DisconnectCloseNot ==
  /\ owner = "stopped"
  /\ owner' = "closed"
  /\ UNCHANGED <<portVars, reporting, session, connected, bus_fault, ever, age, historyVars>>

\* Close() waits for the I/O thread; a port that is no longer open is left as
\* it is, its fault still to be reported.
DisconnectClose ==
  /\ owner = "stopped"
  /\ \/ open /\ PortGone /\ closed' = closed \cup {session}
     \/ ~open /\ UNCHANGED <<portVars, closed>>
  /\ owner' = "closed"
  /\ UNCHANGED <<reporting, session, connected, bus_fault, ever, age, asked, told, heard_in>>

DisconnectDone ==
  /\ owner = "closed"
  /\ MonitorReset
  /\ bus_fault' = FALSE
  /\ connected' = FALSE
  /\ owner' = "idle"
  /\ UNCHANGED <<portVars, reporting, session, historyVars>>

-----------------------------------------------------------------------------
(* The I/O thread, the bus and the clock.                                    *)

IoFree == reporting = 0

\* A VESC status frame of this id: VescCanInterface::HandleCanFrame and the
\* callback that marks the monitor.
HandleCanFrame ==
  /\ open /\ IoFree
  /\ ever' = TRUE
  /\ age' = 0
  /\ heard_in' = session
  /\ UNCHANGED <<portVars, reporting, session, connected, owner, bus_fault, asked, told, closed>>

PortFaults ==
  /\ open /\ IoFree
  /\ PortGone
  /\ reporting' = session
  /\ UNCHANGED <<session, driverVars, historyVars>>

ErrorCallback ==
  /\ reporting # 0
  /\ bus_fault' = TRUE
  /\ reporting' = 0
  /\ told' = told \cup {reporting}
  /\ UNCHANGED <<portVars, session, connected, owner, ever, age, asked, closed, heard_in>>

Transmit ==
  /\ Port!Transmit
  /\ UNCHANGED <<sent, reporting, session, driverVars, historyVars>>

Tick ==
  /\ age <= Timeout
  /\ age' = age + 1
  /\ UNCHANGED <<portVars, reporting, session, connected, owner, bus_fault, ever, historyVars>>

-----------------------------------------------------------------------------
Control ==
  \/ Command \/ Stop
  \/ Connect \/ ConnectFailed \/ ConnectOpened \/ ConnectDone
  \/ DisconnectStop \/ DisconnectClose \/ DisconnectDone

Next == Control \/ HandleCanFrame \/ PortFaults \/ ErrorCallback \/ Transmit \/ Tick

Spec == Init /\ [][Next]_vars

\* An open port transmits what it holds (AsyncCan's FrameLeaves).
FairSpec == Spec /\ WF_vars(Transmit)

-----------------------------------------------------------------------------
(* Properties.                                                               *)

Health ==
  IF ~connected THEN "disconnected"
  ELSE IF bus_fault THEN "fault"
  ELSE IF ever /\ age <= Timeout THEN "ok"
  ELSE "degraded"

\* What the motor does: the last command that reached it.
Motor == IF wire = <<>> THEN Coast ELSE sent[Last(wire)]

\* vesc_motor.hpp:85: a bus fault latches: once the port's fault was reported,
\* Health() says so until Disconnect(), whenever in Connect() it happened.
FaultStaysVisible == connected /\ session \in told => Health = "fault"

\* freshness.hpp: a session that has brought no status frame is not healthy,
\* however fresh the feedback of the one before was.
OkIsFresh == Health = "ok" => heard_in = session

\* "A send is never silently dropped": while the link lives and nothing waits in
\* it, the motor does what the last command that was answered kOk asked for.
Obeys == open /\ backlog = <<>> /\ asked # <<>> => Motor = asked

\* A driver that is not connected cannot move the motor: no frame of any earlier
\* session is still to come.
SilentWhenDisconnected ==
  [][owner = "idle" /\ ~connected => wire' = wire]_vars

\* A Stop() that was answered kOk stops the motor unless the link fails or another
\* command follows.
StopTakesEffect ==
  (open /\ asked = Coast) ~> (~open \/ asked # Coast \/ Motor = Coast)

\* vesc_motor.cpp:100: Disconnect() stops first, to "never leave the motor
\* energized on the way out": no motor runs on after a session that Disconnect()
\* ended on a working link.
CoastsAfterDisconnect ==
  owner = "idle" /\ ~connected /\ session \in closed => Motor = Coast
=============================================================================
