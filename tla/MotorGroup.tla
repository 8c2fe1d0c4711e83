----------------------------- MODULE MotorGroup -----------------------------
(***************************************************************************)
(* AKELC motors on one Modbus line, and the actuator group over them:      *)
(* motor_akelc.cpp, motor_akelc_modbus.cpp, modbus_rtu_port.cpp,           *)
(* actuator_group.hpp.  One thread calls them ("not thread-safe"), and a   *)
(* Modbus call is one step: it blocks until the answer or the timeout.     *)
(* The motors share the port they were constructed with.                   *)
(***************************************************************************)
EXTENDS Integers, Sequences, Functions

CONSTANTS
  Motors,       \* the members, in their order of registration
  Targets,      \* speeds asked for, 0 among them
  Lossy,        \* BOOLEAN: a request or its answer may be lost
  GroupFresh    \* the freshness window, in ticks of the clock

Axles == DOMAIN Motors

ASSUME MotorGroupAssumption ==
  /\ Motors \in Seq(Range(Motors)) \ {<<>>} /\ 0 \in Targets /\ Targets \subseteq Int
  /\ Lossy \in BOOLEAN /\ GroupFresh \in Nat

VARIABLES
  line,      \* the Modbus context exists: ctx_ of the shared port
  online,    \* connected_ and impl_ of each motor
  heard,     \* freshness of each motor's impl_: ticks since marked
  spin,      \* external: the target each motor has taken
  fan,       \* the group call under way: the member it has come to, the first
             \* failure so far, and the sum of the speeds read
  failed,    \* history: members the line failed in the last group call
  result,    \* history: the last group call and its answer
  calm,      \* history: a Stop() of the group was answered kOk, nothing moved since
  left       \* history: motors that Disconnect() left running

groupVars == <<line, online, heard, spin, fan, failed, result, calm, left>>
statVars == <<failed, result, left>>

Rest == [op |-> "none", v |-> 0, at |-> 1, ok |-> TRUE, sum |-> 0]
Ops == {"none", "speed", "stop", "read"}
OldNews == GroupFresh + 1

\* kMax: what a register takes, either way.
RpmMax == 32767
RpmRange == -RpmMax..RpmMax

GroupTypeOK ==
  /\ line \in BOOLEAN /\ calm \in BOOLEAN
  /\ online \in [Axles -> BOOLEAN]
  /\ heard \in [Axles -> 0..OldNews]
  /\ spin \in [Axles -> RpmRange]
  /\ fan.op \in Ops /\ fan.at \in Axles /\ fan.v \in Targets
  /\ failed \subseteq Axles /\ left \subseteq Axles

GroupInit ==
  /\ line = FALSE /\ online = [a \in Axles |-> FALSE]
  /\ heard = [a \in Axles |-> OldNews]
  /\ spin = [a \in Axles |-> 0]
  /\ fan = Rest /\ failed = {} /\ result = Rest /\ calm = FALSE /\ left = {}

Quiet == fan = Rest

\* What becomes of a request: the motor takes it and answers, its answer is
\* lost, or the request is.  Without a context every call fails at once.
Outcomes == IF ~line THEN {"lost"}
            ELSE IF Lossy THEN {"taken", "unanswered", "lost"} ELSE {"taken"}

\* What a register of 16 bits takes for a target.
Wrap16(rpm) == ((rpm + 32768) % 65536) - 32768

\* SetTargetRpm saturates to what a signed register of 16 bits holds, which is
\* also what SetSpeed clamps to unless it is configured to less.
Saturate(rpm) == IF rpm > RpmMax THEN RpmMax ELSE IF rpm < -RpmMax THEN -RpmMax ELSE rpm

\* SetTargetRpm, as the motor understands the register.
Write(a, v, o) ==
  spin' = IF o = "lost" THEN spin ELSE [spin EXCEPT ![a] = Wrap16(Saturate(v))]

\* A read that succeeds marks the motor's monitor.
Mark(a, o) == heard' = IF o = "taken" THEN [heard EXCEPT ![a] = 0] ELSE heard

\* External: the motor runs at its target, and says so in two registers.
Registers(rpm) == <<(rpm \div 65536) % 65536, rpm % 65536>>

\* GetActualRpm: the two registers are one signed word of 32 bits.
GetActualRpm(a) ==
  LET r == Registers(spin[a])
  IN  (IF r[1] > 32767 THEN r[1] - 65536 ELSE r[1]) * 65536 + r[2]

-----------------------------------------------------------------------------
(* One motor.                                                                *)

\* Open() of the port; one that fails leaves all as it was.
PortOpen == line' = TRUE

\* A new impl_, marked if the motor answers and dropped if it does not.
IsReachable(a, answers) == heard' = [heard EXCEPT ![a] = IF answers THEN 0 ELSE OldNews]

\* Connect(): the port is opened unless it is open, and the motor must answer.
AkelcConnect ==
  /\ Quiet
  /\ PortOpen
  /\ \E a \in Axles, answers \in IF Lossy THEN BOOLEAN ELSE {TRUE} :
       /\ ~online[a]
       /\ IsReachable(a, answers)
       /\ online' = [online EXCEPT ![a] = answers]
       /\ left' = left \ {a}
  /\ UNCHANGED <<spin, fan, failed, result, calm>>

\* Stop() and then Close() of the port the motors share.
StopThenClose(a, o) == Write(a, 0, o)

AkelcDisconnect ==
  /\ Quiet
  /\ \E a \in Axles, o \in Outcomes :
       /\ online[a]
       /\ StopThenClose(a, o)
       /\ online' = [online EXCEPT ![a] = FALSE]
       /\ left' = IF spin'[a] # 0 THEN left \cup {a} ELSE left
  /\ line' = FALSE
  /\ UNCHANGED <<heard, fan, failed, result, calm>>

\* SetSpeed, Stop; ApplyBrake, ReleaseBrake and the PID gains are writes that
\* leave the target alone.
AkelcWrite ==
  /\ Quiet
  /\ \E a \in Axles, v \in Targets, o \in Outcomes :
       online[a] /\ Write(a, v, o) /\ calm' = (calm /\ spin'[a] = 0)
  /\ UNCHANGED <<line, online, heard, fan, statVars>>

\* GetSpeed, Health and the other readings of registers: what is read besides
\* the speed is left out.
AkelcRead ==
  /\ Quiet
  /\ \E a \in Axles, o \in Outcomes : online[a] /\ Mark(a, o)
  /\ UNCHANGED <<line, online, spin, fan, calm, statVars>>

GroupTick ==
  /\ \E a \in Axles : heard[a] < OldNews
  /\ heard' = [a \in Axles |-> IF heard[a] < OldNews THEN heard[a] + 1 ELSE OldNews]
  /\ UNCHANGED <<line, online, spin, fan, calm, statVars>>

-----------------------------------------------------------------------------
(* The group.                                                                *)

\* SetSpeed, Stop or GetSpeed of the group.
GroupCall ==
  /\ Quiet
  /\ \E op \in Ops \ {"none"}, v \in Targets :
       /\ op = "speed" \/ v = 0
       /\ fan' = [Rest EXCEPT !.op = op, !.v = v]
  /\ failed' = {} /\ result' = Rest
  /\ calm' = (calm /\ fan'.v = 0)
  /\ UNCHANGED <<line, online, heard, spin, left>>

\* Mistake: the first failure ends the call.
LastFirst(ok) == ~ok \/ fan.at = Len(Motors)

\* Every member has its turn, whatever became of those before it.
LastTurn(ok) == fan.at = Len(Motors)

\* NoteMemberStatus: a failure stays the answer of the call.
NoteMemberStatus(aggregate, ok) == aggregate /\ ok

\* The member's own call: kNotConnected when it is offline, kIoError without an
\* answer, kOutOfRange for a target that was clamped.  Its status is folded into
\* the aggregate.
GroupNext ==
  /\ ~Quiet
  /\ \E o \in IF online[fan.at] THEN Outcomes ELSE {"lost"} :
       LET a    == fan.at
           ok   == o = "taken" /\ Saturate(fan.v) = fan.v
           done == [fan EXCEPT !.ok = NoteMemberStatus(@, ok),
                               !.sum = IF fan.op = "read" /\ ok THEN @ + GetActualRpm(a) ELSE @]
       IN  /\ IF fan.op = "read" THEN Mark(a, o) /\ UNCHANGED spin
              ELSE Write(a, fan.v, o) /\ UNCHANGED heard
           /\ failed' = IF o = "taken" THEN failed ELSE failed \cup {a}
           /\ IF LastTurn(ok)
              THEN /\ fan' = Rest /\ result' = done
                   /\ calm' = (calm \/ (fan.op = "stop" /\ done.ok))
              ELSE fan' = [done EXCEPT !.at = a + 1] /\ UNCHANGED <<result, calm>>
  /\ UNCHANGED <<line, online, left>>

GroupSteps ==
  \/ AkelcConnect \/ AkelcDisconnect \/ AkelcWrite \/ AkelcRead \/ GroupTick
  \/ GroupCall \/ GroupNext
GroupSpec == GroupInit /\ [][GroupSteps]_groupVars

-----------------------------------------------------------------------------
(* Properties.                                                               *)

\* A Stop() of the group that was answered kOk holds: no member runs until it
\* is told to.
GroupStopHalts == calm => \A a \in Axles : spin[a] = 0

\* A motor serves a target: the target itself if the register holds it, and
\* never the opposite direction.
Serves(now, target) ==
  IF target \in RpmRange THEN now = target ELSE now > 0 <=> target > 0

\* "every member is commanded on every group command, even after an earlier
\* member fails": when the call is over, each member has the target it was sent
\* unless the line failed it, or the nearest one it can be given, and the answer
\* is kOk exactly when no line failed and the target was in range.
\* A mean is the mean of what all the members run at.
GroupCommands ==
  [][result' # result /\ result'.op # "none" =>
       /\ result'.ok <=> failed' = {} /\ result'.v \in RpmRange
       /\ result'.op # "read" =>
            \A a \in Axles \ failed' : Serves(spin'[a], result'.v)
       /\ result'.op = "read" /\ result'.ok =>
            result'.sum = SumFunction(spin)]_groupVars

\* "never leave the motor commanded on the way out" (Disconnect): while the bus
\* loses nothing, Disconnect() leaves no motor running.
LeavesNoneRunning == left = {}
=============================================================================
