------------------------------ MODULE BaseLink ------------------------------
(***************************************************************************)
(* A commander and a base over one CAN link: MobileBaseCanClient           *)
(* (mobile_base_can_client.{hpp,cpp}) on the upper computer, its port as   *)
(* CanLink specifies it, a bus that may lose or damage frames, and the     *)
(* base's CommandTracker.                                                  *)
(*                                                                         *)
(* Callers run the client's commands; each draws the next value of the     *)
(* id's alive counter and sends the frame in a later step.  One owner      *)
(* connects and disconnects, the port's I/O thread reports faults, and     *)
(* the client's process may restart.                                       *)
(***************************************************************************)
EXTENDS CommandTracker, Sequences, SequencesExt

CONSTANTS
  Callers,      \* threads that command the base
  Commands,     \* the <<id, value>> they may send; a heartbeat's value is
                \* the client's version whatever is said here
  Versions,     \* protocol versions a client may be built with
  Capacity,     \* frames the port holds
  MaxSends,     \* model bound: frames the port accepts
  FirstDraws,   \* counter values a client may have reached when the base boots
  MaxIssued,    \* model bound: commands issued
  MaxRestarts   \* model bound: restarts of the client's process

ASSUME CommandsAssumption ==
  \A cmd \in Commands : cmd[1] \in Ids /\ (cmd[1] = "mode" => cmd[2] \in {"standby", "auto"})

ASSUME BaseLinkAssumption ==
  FirstDraws \subseteq Nat /\ {MaxIssued, MaxRestarts} \subseteq Nat

VARIABLES
  open, backlog, accepted, wire,   \* the port, see CanLink
  sent,        \* [acceptance number -> frame], NoFrame once it is heard or lost
  connected,   \* connected_
  owner,       \* "opening" between Open() and the store that follows it
  version,     \* cfg_.protocol_version
  drawn,       \* [Ids -> value of the id's atomic counter, not wrapped]
  pending,     \* [Callers -> frame drawn and not yet sent, or NoFrame]
  heard,       \* frames of the wire that have reached the base or were lost
  restarts,
  issued,      \* how many commands were issued, to bound them
  newest,      \* history: [Ids -> number of the newest command accepted]
  last,        \* history: [Ids -> number of the last intact frame checked]
  intent,      \* history: [Ids -> value of the newest command issued]
  quiet,       \* history: ids none of whose frames was lost or overtaken
  armed        \* history: mode(auto) was accepted since the timer last expired

portVars == <<open, backlog, accepted, wire, sent>>
clientVars == <<connected, owner, version, drawn, pending, restarts, issued>>
historyVars == <<newest, last, intent, quiet, armed>>
vars == <<portVars, clientVars, heard, historyVars, trackerVars>>

Port == INSTANCE CanLink

NoFrame == [id |-> "none"]
\* Mistake: the counter is not narrowed to its 8 bits.
FrameWide(id, value, n) ==
  [id |-> id, value |-> value, number |-> n, counter |-> n, intact |-> TRUE]

Frame(id, value, n) ==
  [id |-> id, value |-> value, number |-> n, counter |-> n % CounterMod, intact |-> TRUE]
Values == {"standby", "auto", "engage", "clear"} \cup {c[2] : c \in Commands} \cup Versions
Frames == [id : Ids, value : Values, number : Nat, counter : Counters, intact : {TRUE}]

TypeOK ==
  /\ TrackerTypeOK
  /\ Port!LinkTypeOK
  /\ sent \in Seq(Frames \cup {NoFrame}) /\ Len(sent) = accepted
  /\ connected \in BOOLEAN
  /\ owner \in {"idle", "opening"}
  /\ version \in Versions
  /\ drawn \in [Ids -> Nat]
  /\ pending \in [Callers -> Frames \cup {NoFrame}]
  /\ heard \in 0..Len(wire)
  /\ restarts \in 0..MaxRestarts
  /\ issued \in 0..MaxIssued
  /\ newest \in [Ids -> Int] /\ last \in [Ids -> Int]
  /\ quiet \subseteq Ids
  /\ armed \in BOOLEAN

Init ==
  /\ TrackerInit
  /\ Port!LinkInit
  /\ sent = <<>>
  /\ connected = FALSE
  /\ owner = "idle"
  /\ version \in Versions
  /\ \E n \in FirstDraws : drawn = [i \in Ids |-> n]
  /\ pending = [c \in Callers |-> NoFrame]
  /\ heard = 0
  /\ restarts = 0
  /\ issued = 0
  /\ newest = [i \in Ids |-> -1]
  /\ last = [i \in Ids |-> -1]
  /\ intent = [i \in Ids |-> "none"]
  /\ quiet = Ids
  /\ armed = FALSE

-----------------------------------------------------------------------------
(* The client: Connect, Disconnect, the commands, and its error callback.    *)

\* Each Connect() makes a new port: nothing waits in it.
Connect ==
  /\ owner = "idle"
  /\ ~connected
  /\ backlog = <<>>
  /\ Port!Connect
  /\ owner' = "opening"
  /\ UNCHANGED <<sent, connected, version, drawn, pending, restarts, issued, heard, historyVars,
                 trackerVars>>

ConnectDone ==
  /\ owner = "opening"
  /\ connected' = TRUE
  /\ owner' = "idle"
  /\ UNCHANGED <<portVars, version, drawn, pending, restarts, issued, heard, historyVars,
                 trackerVars>>

\* The ids of frames in flight that a closing or restarting port takes along.
InPort == {sent[backlog[i]].id : i \in 1..Len(backlog)}
Waiting == {pending[c].id : c \in {d \in Callers : pending[d] # NoFrame}}

Forget(numbers) == [n \in 1..accepted |-> IF n \in numbers THEN NoFrame ELSE sent[n]]

PortGone ==
  /\ open' = FALSE
  /\ backlog' = <<>>
  /\ connected' = FALSE
  /\ sent' = Forget({backlog[i] : i \in 1..Len(backlog)})
  /\ UNCHANGED <<accepted, wire>>

Disconnect ==
  /\ owner = "idle"
  /\ open \/ connected
  /\ PortGone
  /\ quiet' = quiet \ InPort
  /\ UNCHANGED <<owner, version, drawn, pending, restarts, issued, heard, newest, last, intent,
                 armed, trackerVars>>

\* The port fails; its error callback clears connected_.
PortFaults ==
  /\ open
  /\ PortGone
  /\ quiet' = quiet \ InPort
  /\ UNCHANGED <<owner, version, drawn, pending, restarts, issued, heard, newest, last, intent,
                 armed, trackerVars>>

\* SetTwist, SetMode, EngageEStop, ClearEStop, SendHeartbeat: the counter is
\* drawn before anything is known of the port.
Issue(c, id, value) ==
  /\ pending[c] = NoFrame
  /\ issued < MaxIssued
  /\ issued' = issued + 1
  /\ pending' = [pending EXCEPT ![c] = Frame(id, value, drawn[id])]
  /\ drawn' = [drawn EXCEPT ![id] = @ + 1]
  /\ intent' = [intent EXCEPT ![id] = value]
  /\ UNCHANGED <<portVars, connected, owner, version, restarts, heard, newest, last,
                 quiet, armed, trackerVars>>

Command(c) ==
  \E cmd \in Commands :
    Issue(c, cmd[1], IF cmd[1] = "heartbeat" THEN version ELSE cmd[2])

Overtakes(c) ==
  \E d \in Callers \ {c} : /\ pending[d] # NoFrame
                           /\ pending[d].id = pending[c].id
                           /\ pending[d].number < pending[c].number

SendOk(c) ==
  /\ pending[c] # NoFrame
  /\ connected
  /\ accepted < MaxSends
  /\ open
  /\ Port!Accept
  /\ sent' = Append(sent, pending[c])
  /\ pending' = [pending EXCEPT ![c] = NoFrame]
  /\ quiet' = IF Overtakes(c) THEN quiet \ {pending[c].id} ELSE quiet
  /\ UNCHANGED <<connected, owner, version, drawn, restarts, issued, heard, newest, last, intent,
                 armed, trackerVars>>

\* kNotConnected or kIoError: the drawn counter value is used up.
SendRefused(c) ==
  /\ pending[c] # NoFrame
  /\ ~connected \/ ~open \/ Len(backlog) >= Capacity
  /\ pending' = [pending EXCEPT ![c] = NoFrame]
  /\ quiet' = quiet \ {pending[c].id}
  /\ UNCHANGED <<portVars, connected, owner, version, drawn, restarts, issued, heard, newest,
                 last, intent, armed, trackerVars>>

\* A new process: its counters start at 0 again.  drawn moves on to a multiple
\* of CounterMod, so that numbers keep growing and their remainders are the
\* counters.
Restart ==
  /\ restarts < MaxRestarts
  /\ restarts' = restarts + 1
  /\ PortGone
  /\ owner' = "idle"
  /\ version' \in Versions
  /\ drawn' = [i \in Ids |-> ((drawn[i] \div CounterMod) + 2) * CounterMod]
  /\ pending' = [c \in Callers |-> NoFrame]
  /\ quiet' = {}
  /\ UNCHANGED <<issued, heard, newest, last, intent, armed, trackerVars>>

-----------------------------------------------------------------------------
(* The bus and the base.                                                     *)

Transmit ==
  /\ Port!Transmit
  /\ UNCHANGED <<sent, clientVars, heard, historyVars, trackerVars>>

Arriving == sent[wire[heard + 1]]

TakeOff ==
  /\ heard < Len(wire)
  /\ heard' = heard + 1
  /\ sent' = Forget({wire[heard']})
  /\ UNCHANGED <<open, backlog, accepted, wire>>

Hear(f) ==
  /\ TakeOff
  /\ OnFrame(f)
  /\ newest' = IF Passes(f) THEN [newest EXCEPT ![f.id] = f.number] ELSE newest
  /\ last' = IF f.intact THEN [last EXCEPT ![f.id] = f.number] ELSE last
  /\ armed' = (armed \/ (f.id = "mode" /\ f.value = "auto" /\ Passes(f)))
  /\ quiet' = IF f.intact THEN quiet ELSE quiet \ {f.id}
  /\ UNCHANGED <<clientVars, intent>>

Receive == Hear(Arriving)
ReceiveDamaged == Hear([Arriving EXCEPT !.intact = FALSE])

LoseFrame ==
  /\ TakeOff
  /\ quiet' = quiet \ {Arriving.id}
  /\ UNCHANGED <<clientVars, newest, last, intent, armed, trackerVars>>

BaseTick ==
  /\ Tick
  /\ armed' = (armed /\ twist_age' <= Timeout)
  /\ UNCHANGED <<portVars, clientVars, heard, newest, last, intent, quiet>>

BaseClearFaults ==
  /\ ClearFaults
  /\ UNCHANGED <<portVars, clientVars, heard, historyVars>>

-----------------------------------------------------------------------------
Client == \E c \in Callers : Command(c) \/ SendOk(c) \/ SendRefused(c)

Next ==
  \/ Client
  \/ Connect \/ ConnectDone \/ Disconnect \/ PortFaults \/ Restart
  \/ Transmit
  \/ Receive \/ ReceiveDamaged \/ LoseFrame
  \/ BaseTick \/ BaseClearFaults

Spec == Init /\ [][Next]_vars

\* The base's clock runs.
FairSpec == Spec /\ WF_vars(BaseTick)

-----------------------------------------------------------------------------
(* Properties.                                                               *)

Checked == heard' = heard + 1 /\ last' # last
Took == newest' # newest

\* can_protocol.md:102 tolerates up to MaxDelta - 1 consecutive losses: an intact
\* frame that follows the last one checked by at most MaxDelta is accepted,
\* across the wrap of the counter.
ToleratesLoss ==
  [][Checked /\ last[Arriving.id] >= 0 /\ Arriving.number - last[Arriving.id] \in 1..MaxDelta
       => Took]_vars

\* A command overtaken by a later one of its id never takes effect after it.
CommandsInOrder ==
  [][\A i \in Ids : newest'[i] >= newest[i]]_vars

\* The base acts on the last command issued for an id.
Obeys(id) ==
  CASE id = "twist" -> twist = intent[id]
    [] id = "mode" -> mode = intent[id]
    [] id = "estop" -> estop_engaged <=> intent[id] = "engage"
    [] OTHER -> version_ok <=> intent[id] = Expected

\* For an id whose frames were neither lost nor damaged nor overtaken: once
\* they have all arrived the base acts on the last command that was issued.
CommandsAgree ==
  \A i \in quiet :
    (/\ intent[i] # "none"
     /\ i \notin Waiting
     /\ i \notin InPort
     /\ \A n \in (heard + 1)..Len(wire) : sent[wire[n]].id # i)
    => Obeys(i)

\* README.md:62, with the mode arbitration of can_protocol.md section 9.2: when
\* the base drives on the commander's twist.
Driving == Velocity # "zero" /\ mode = "auto" /\ ~estop_engaged

\* can_protocol.md:308: "a restored link does not silently resume motion; the
\* commander MUST re-send CMD_MODE(auto)".
NoSilentResume == Driving => armed

\* Whatever the link does, a base that hears no more twists stops driving.
DriveStops == <>[][twist_age' >= twist_age]_vars => <>[](Velocity = "zero")
=============================================================================
