------------------------------- MODULE SmsSts -------------------------------
(***************************************************************************)
(* SMS/STS servos on one bus: the single servo (sms_sts_servo_impl.cpp)    *)
(* and the array (sms_sts_servo_array.cpp).  The owner's thread connects,  *)
(* commands and disconnects; the poll thread reads the servos in turn and  *)
(* publishes snapshots.  bus_mtx_ makes every transaction one step.        *)
(***************************************************************************)
EXTENDS ScsBus, Freshness

CONSTANTS
  Chains,      \* sequences of ids an array or a single servo is configured with
  NewIds,      \* ids a single servo is given by SetMotorId
  Fresh        \* the freshness window, in ticks of the clock

ASSUME SmsStsAssumption ==
  /\ Fresh \in Nat
  /\ \A c \in Chains :                                           \* ValidateIds
       c \in Seq(Servos) /\ c # <<>> /\ \A i, j \in DOMAIN c : c[i] = c[j] => i = j

VARIABLES
  array,      \* an SmsStsServoArray, or a single SmsStsServo
  chain,      \* cfg_.ids, or <<cfg_.id>>
  link,       \* the port is open and connected_ holds
  bus,        \* external: the servos and the line, see ScsBus
  verb,       \* the call of the owner under way
  refreshing, \* refresh_running_
  poller,     \* the poll thread
  stale,      \* of each snapshot: ticks since it was marked, Fresh + 1 once too old
  halted,     \* history: servos stopped by a Stop() that was answered kOk, by themselves
  misled      \* history: the answer to a new id was lost, late, or that to something else

chainVars == <<array, chain, misled>>
pollVars == <<refreshing, poller, stale>>
servoVars == <<chainVars, pollVars, link, bus, verb, halted>>

Off == <<"off">>
NoVerb == <<"none">>
Members == DOMAIN chain
Old == [i \in Members |-> Fresh + 1]
Addresses == Servos \cup NewIds

ServoTypeOK ==
  /\ {array, link, refreshing, misled} \subseteq BOOLEAN
  /\ bus.addr \in [Servos -> Addresses]
  /\ bus.moving \subseteq Servos /\ bus.heard \subseteq Servos /\ halted \subseteq Servos
  /\ bus.mixed \subseteq Addresses
  /\ poller \in {Off, <<"sleep">>} \cup {<<"poll", i>> : i \in Members}
                 \cup {<<"publish", i>> : i \in Members}
  /\ verb \in {NoVerb, <<"join">>}
               \cup {<<"stop", i, ok, n>> : i \in Members, ok \in BOOLEAN, n \in {"none", "join"}}
  /\ stale \in [Members -> 0..(Fresh + 1)]

ServoInit ==
  /\ chain \in Chains /\ array \in {b \in BOOLEAN : b \/ Len(chain) = 1}
  /\ link = FALSE /\ verb = NoVerb /\ refreshing = FALSE /\ poller = Off
  /\ bus = [addr |-> [s \in Servos |-> s], moving |-> {}, late |-> NoReply, heard |-> {},
            mixed |-> {}]
  /\ stale = Old
  /\ halted = {} /\ misled = FALSE

Free == verb = NoVerb /\ link

\* What a servo that was stopped, and moves again on command, is no longer.
StillHalted == halted' = halted \ bus'.moving

-----------------------------------------------------------------------------
(* The owner's thread.                                                       *)

\* FreshnessMonitor::Reset of every channel.
Reset == stale' = Old

\* begin(), Reset, connected_, StartRefresh; a begin() that fails leaves all.
ServoConnect ==
  /\ verb = NoVerb /\ ~link
  /\ link' = TRUE
  /\ bus' = [bus EXCEPT !.late = NoReply, !.heard = {}, !.mixed = {}]
  /\ Reset
  /\ refreshing' = TRUE /\ poller' = <<"poll", 1>>
  /\ UNCHANGED <<chainVars, verb, halted>>

\* SetSpeed.
ServoSetSpeed ==
  /\ Free
  /\ \E i \in Members, op \in {"move", "halt"} :
       bus' \in {r.bus : r \in Twice(bus, chain[i], <<op>>)}
  /\ StillHalted
  /\ UNCHANGED <<chainVars, pollVars, link, verb>>

\* One write to one servo, whatever becomes of it.
Written(ops) ==
  /\ Free
  /\ \E i \in Members, op \in ops : bus' \in {r.bus : r \in Once(bus, chain[i], op)}
  /\ StillHalted
  /\ UNCHANGED <<chainVars, pollVars, link, verb>>

ServoSetPosition == Written({<<"move">>})

\* SetMode, SetNeutralPosition of the single servo.
ServoSetMode == Written({<<"set">>}) /\ ~array

\* EnableTorque of the array; EnableTorqueAll is one for each servo.
ServoEnableTorque == Written({<<"set">>}) /\ array

\* SetPositions of the array.
ServoSetPositions ==
  /\ Free /\ array
  /\ \E takers \in SUBSET At(bus, {chain[i] : i \in Members}) : bus' = SyncWrite(bus, takers)
  /\ StillHalted
  /\ UNCHANGED <<chainVars, pollVars, link, verb>>

\* Mistake: the id is used from now on whatever the servo answered.
TakeIdAlways(ok, id) == chain' = <<id>>

\* The id is used from now on if the servo acknowledged it.
TakeId(ok, id) == chain' = IF ok THEN <<id>> ELSE chain

\* SetMotorId: unlock, write the id, and lock, which moves nothing and is left
\* out.  An answer that carries the new id already is as good as none.
ServoSetMotorId ==
  /\ Free /\ ~array
  /\ \E id \in NewIds : \E r \in Twice(bus, chain[1], <<"id", id>>) :
       /\ bus' = r.bus
       /\ TakeId(Ack(chain[1], r.read), id)
       /\ misled' = (misled \/ r.doubtful)
  /\ UNCHANGED <<array, pollVars, link, verb, halted>>

\* Mistake: the status of the last servo is the answer of Stop().
StopLast(ok, fine) == fine

\* The array's Stop() fails if one servo did not acknowledge.
StopSoFar(ok, fine) == ok /\ fine

\* Stop(), by the caller or by Disconnect().
ServoStop ==
  /\ Free
  /\ \E then \in {"none", "join"} : verb' = <<"stop", 1, TRUE, then>>
  /\ UNCHANGED <<chainVars, pollVars, link, bus, halted>>

\* The next servo is stopped.  The single servo's Stop() looks at no answer,
\* and is not what `halted` remembers.
ServoStopNext ==
  /\ verb[1] = "stop"
  /\ \E r \in Twice(bus, chain[verb[2]], <<"halt">>) :
       LET i    == verb[2]
           ok   == StopSoFar(verb[3], Ack(chain[i], r.read))
           last == i = Len(chain)
       IN  /\ bus' = r.bus
           /\ verb' = IF last THEN <<verb[4]>> ELSE <<"stop", i + 1, ok, verb[4]>>
           /\ halted' = IF last /\ ok /\ array
                        THEN halted \cup At(bus, {chain[j] : j \in Members} \ r.bus.mixed)
                        ELSE halted
  /\ UNCHANGED <<chainVars, pollVars, link>>

\* StopRefresh: the flag first, then the wait for the thread.
Clear == refreshing' = FALSE

ServoStopRefresh ==
  /\ verb = <<"join">> /\ refreshing
  /\ Clear
  /\ UNCHANGED <<chainVars, poller, stale, link, bus, verb, halted>>

\* The thread has ended: end(), connected_, Reset.
ServoEnd ==
  /\ verb = <<"join">> /\ ~refreshing /\ poller = Off
  /\ link' = FALSE /\ verb' = NoVerb
  /\ Reset
  /\ bus' = [bus EXCEPT !.late = NoReply]
  /\ UNCHANGED <<chainVars, refreshing, poller, halted>>

-----------------------------------------------------------------------------
(* The poll thread, and the clock.                                           *)

\* The next channel, or the sleep at the end of the round.
After(i) == IF i = Len(chain) THEN <<"sleep">> ELSE <<"poll", i + 1>>

\* FeedBack of a servo, one transaction; a reply nobody gave is no reading.
FeedBack(i) ==
  \E r \in Once(bus, chain[i], <<"read">>) :
    /\ bus' = r.bus
    /\ poller' = IF ReadAccepts(chain[i], r.read) THEN <<"publish", i>> ELSE After(i)

\* The flag is read before each servo.
ServoPoll ==
  /\ poller[1] = "poll"
  /\ IF refreshing THEN FeedBack(poller[2])
     ELSE poller' = Off /\ UNCHANGED bus
  /\ UNCHANGED <<chainVars, refreshing, stale, link, verb, halted>>

\* The snapshot under snap_mtx_, of which only the mark is modelled: its values are
\* those of the servo that answered.
Snapshot(i) == stale' = [stale EXCEPT ![i] = 0]

ServoPublish ==
  /\ poller[1] = "publish"
  /\ Snapshot(poller[2])
  /\ poller' = After(poller[2])
  /\ UNCHANGED <<chainVars, refreshing, link, bus, verb, halted>>

ServoWake ==
  /\ poller = <<"sleep">>
  /\ poller' = IF refreshing THEN <<"poll", 1>> ELSE Off
  /\ UNCHANGED <<chainVars, refreshing, stale, link, bus, verb, halted>>

ServoTick ==
  /\ stale # Old
  /\ stale' = [i \in Members |-> IF stale[i] > Fresh THEN stale[i] ELSE stale[i] + 1]
  /\ UNCHANGED <<chainVars, refreshing, poller, link, bus, verb, halted>>

ServoOwner == ServoStopNext \/ ServoStopRefresh \/ ServoEnd
ServoPoller == ServoPoll \/ ServoPublish \/ ServoWake
ServoNext ==
  \/ ServoConnect \/ ServoSetSpeed \/ ServoSetPosition \/ ServoSetMode \/ ServoEnableTorque
  \/ ServoSetPositions \/ ServoSetMotorId
  \/ ServoStop \/ ServoOwner \/ ServoPoller \/ ServoTick

\* Both threads run: every wait of theirs is bounded by IOTimeOut.
ServoFairness == WF_servoVars(ServoOwner) /\ WF_servoVars(ServoPoller)
ServoSpec == ServoInit /\ [][ServoNext]_servoVars /\ ServoFairness

-----------------------------------------------------------------------------
(* What the drivers say.  The status byte and the temperature of a servo,    *)
(* which make a fault of kOk, are left out.                                  *)

ChannelHealth(i) == HealthFromFreshness(link, stale[i], Fresh)

HealthRank == [ok |-> 0, degraded |-> 1, fault |-> 2, disconnected |-> 3]

\* Health() of the array: the worst of its servos.
ServoHealth ==
  IF ~link THEN "disconnected"
  ELSE LET said == {ChannelHealth(i) : i \in Members}
       IN  CHOOSE h \in said : \A g \in said : HealthRank[g] <= HealthRank[h]

\* GetPosition, GetSpeed, GetState.
ServoReads(i) == ReadStatus(link, stale[i], Fresh)

-----------------------------------------------------------------------------
(* Properties.                                                               *)

\* A Stop() of the array that was answered kOk has stopped every servo: none
\* of them moves until it is told to, whatever the poll thread reads meanwhile.
\* Left out are servos for whose reply a late one was taken in this session.
StopHalts == halted \cap bus.moving = {}

\* "Health(id) reports an absent/unresponsive servo as kDegraded" (the header):
\* Health() of the array is kOk only if each of its servos, Health(id) and the
\* readings of one only if that servo itself, was read since the port was opened.
\* Left out are servos for whose reply a late one was taken in this session.
NoSilentServo ==
  LET silent == {i \in Members : At(bus, {chain[i]}) \cap bus.heard = {} /\ chain[i] \notin bus.mixed}
  IN  misled \/ /\ \A i \in silent : ChannelHealth(i) # "ok" /\ ServoReads(i) # "ok"
                /\ silent # {} => ServoHealth # "ok"

\* A single servo is called by the id it has, unless the answer to a new id was
\* lost or late, or a late answer to something else was taken for it.
IdFollows == array \/ misled \/ At(bus, {chain[1]}) # {}

\* Disconnect() comes to its end.
DisconnectReturns == (verb # NoVerb) ~> (verb = NoVerb)
=============================================================================
