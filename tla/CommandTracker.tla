--------------------------- MODULE CommandTracker ---------------------------
(***************************************************************************)
(* The base-side command gate of mobile_base_can/command_tracker.hpp.      *)
(*                                                                         *)
(* The base feeds it every received frame and asks it for a snapshot every *)
(* control cycle; both are calls of one thread.  A frame is a record with  *)
(* the fields id, value and counter, and intact: its CRC, shape and e-stop *)
(* key passed the decoder.                                                 *)
(***************************************************************************)
EXTENDS CounterCheck

CONSTANTS
  Timeout,   \* command_timeout, in ticks of the base's clock
  Expected   \* expected_version

ASSUME TrackerAssumption == Timeout \in Nat

Ids == {"twist", "mode", "estop", "heartbeat"}

VARIABLES
  twist,          \* vx_, vy_, wz_: the last accepted twist
  twist_age,      \* now - last_twist_, Timeout + 1 once it is older or absent
  mode,           \* mode_
  estop_engaged,  \* estop_engaged_
  version_ok,     \* version_ok_
  faults,         \* faults_
  ctr             \* twist_ctr_, mode_ctr_, estop_ctr_, hb_ctr_

trackerVars == <<twist, twist_age, mode, estop_engaged, version_ok, faults, ctr>>

TrackerTypeOK ==
  /\ twist_age \in 0..(Timeout + 1)
  /\ mode \in {"standby", "auto"}
  /\ estop_engaged \in BOOLEAN
  /\ version_ok \in BOOLEAN
  /\ faults \subseteq {"integrity", "version"}
  /\ ctr \in [Ids -> Checks]

TrackerInit ==
  /\ twist = "zero"
  /\ twist_age = Timeout + 1
  /\ mode = "standby"
  /\ estop_engaged = FALSE
  /\ version_ok = TRUE       \* optimistic until a heartbeat says otherwise
  /\ faults = {}
  /\ ctr = [i \in Ids |-> NoReference]

\* The integrity gate shared by every command id.
Passes(f) == f.intact /\ Accepted(Result(ctr[f.id], f.counter))

Count(f) ==
  ctr' = IF f.intact THEN [ctr EXCEPT ![f.id] = Updated(@, f.counter)] ELSE ctr

OnRejected(f) ==
  /\ ~Passes(f)
  /\ Count(f)
  /\ faults' = faults \cup {"integrity"}
  /\ UNCHANGED <<twist, twist_age, mode, estop_engaged, version_ok>>

OnTwist(f) ==
  /\ f.id = "twist" /\ Passes(f)
  /\ Count(f)
  /\ twist' = f.value
  /\ twist_age' = 0
  /\ UNCHANGED <<mode, estop_engaged, version_ok, faults>>

OnMode(f) ==
  /\ f.id = "mode" /\ Passes(f)
  /\ Count(f)
  /\ mode' = f.value
  /\ UNCHANGED <<twist, twist_age, estop_engaged, version_ok, faults>>

\* Mistake: a clear does not release an engaged e-stop.
OnEStopSticky(f) ==
  /\ f.id = "estop" /\ Passes(f)
  /\ Count(f)
  /\ estop_engaged' = (estop_engaged \/ f.value = "engage")
  /\ UNCHANGED <<twist, twist_age, mode, version_ok, faults>>

OnEStop(f) ==
  /\ f.id = "estop" /\ Passes(f)
  /\ Count(f)
  /\ estop_engaged' = (f.value = "engage")
  /\ UNCHANGED <<twist, twist_age, mode, version_ok, faults>>

OnHeartbeat(f) ==
  /\ f.id = "heartbeat" /\ Passes(f)
  /\ Count(f)
  /\ version_ok' = (f.value = Expected)
  /\ faults' = IF version_ok' THEN faults ELSE faults \cup {"version"}
  /\ UNCHANGED <<twist, twist_age, mode, estop_engaged>>

OnFrame(f) == OnRejected(f) \/ OnTwist(f) \/ OnMode(f) \/ OnEStop(f) \/ OnHeartbeat(f)

ClearFaults ==
  /\ faults # {}
  /\ faults' = {}
  /\ UNCHANGED <<twist, twist_age, mode, estop_engaged, version_ok, ctr>>

\* The base's clock.
Tick ==
  /\ twist_age <= Timeout
  /\ twist_age' = twist_age + 1
  /\ UNCHANGED <<twist, mode, estop_engaged, version_ok, faults, ctr>>

\* Mistake: the age of the twist is not looked at.
TwistFreshAlways == version_ok

\* Snapshot().twist_fresh, and the velocity it hands to the control loop.
TwistFresh == twist_age <= Timeout /\ version_ok
Velocity == IF TwistFresh THEN twist ELSE "zero"
=============================================================================
