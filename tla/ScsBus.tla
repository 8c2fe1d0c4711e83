------------------------------- MODULE ScsBus -------------------------------
(***************************************************************************)
(* The half-duplex bus of the SMS/STS servos: the vendored SCS library     *)
(* (servo/SCS.cpp, SMS_STS.cpp, SCSerial.cpp) as a function on the state   *)
(* of the bus.  One transaction throws away what was received, writes a    *)
(* frame and waits for the reply, under the bus mutex of the driver.       *)
(*                                                                         *)
(* A bus is a record: addr, the id each servo listens to; moving, the      *)
(* servos last told to move; late, a reply that comes after its            *)
(* transaction gave up, or NoReply; heard, the servos that took a reading  *)
(* since the port was opened; and, as a history, mixed: the ids for whose  *)
(* reply such a late one was taken since then.  EPROM locks, torque and    *)
(* acceleration are not told apart: a servo that takes such a frame only   *)
(* answers it.                                                             *)
(***************************************************************************)
EXTENDS Integers, Sequences, FiniteSets

CONSTANT Servos   \* the servos on the bus, by the ids they begin with

NoReply == [kind |-> "none", from |-> 0]

\* What becomes of a frame: the servo does not take it, or takes it and its
\* reply is lost, comes in time or comes later than IOTimeOut.
Fates == {"deaf", "lost", "answered", "late"}

\* The servos that listen to an id, or to one of several.
At(bus, ids) == {s \in Servos : bus.addr[s] \in ids}

\* What the servos `at` an id make of a frame: <<"move">> and <<"halt">> are goals
\* of position or speed, <<"read">> asks for feedback, <<"id", n>> gives a new id,
\* and <<"set">> writes something else.
Act(bus, at, op) ==
  CASE op = <<"move">> -> [bus EXCEPT !.moving = @ \cup at]
    [] op = <<"halt">> -> [bus EXCEPT !.moving = @ \ at]
    [] op = <<"read">> -> [bus EXCEPT !.heard = @ \cup at]
    [] op[1] = "id" -> [bus EXCEPT !.addr = [s \in Servos |-> IF s \in at THEN op[2] ELSE @[s]]]
    [] OTHER       -> bus

\* One transaction with `id`: the bus after it, what was read, and whether that says
\* nothing of what was done.  A reply that was late is swept away by rFlushSCS, or
\* intrudes after it.
Transact(bus, id, op, fate, intrudes) ==
  LET at  == IF fate = "deaf" THEN {} ELSE At(bus, {id})
      own == IF at = {} THEN NoReply
             ELSE [kind |-> IF op = <<"read">> THEN "data" ELSE "ack", from |-> id]
      astray == intrudes /\ bus.late # NoReply
  IN  [bus  |-> [Act(bus, at, op) EXCEPT !.late = IF fate = "late" THEN own ELSE NoReply,
                                         !.mixed = IF astray THEN @ \cup {id} ELSE @],
       read |-> IF astray THEN bus.late ELSE IF fate = "answered" THEN own ELSE NoReply,
       doubtful |-> astray \/ fate \in {"lost", "late"}]

\* SCS::Ack: six bytes, the header, the id asked for, and no data.
Ack(id, reply) == reply.kind = "ack" /\ reply.from = id

\* SCS::Read: the length, the header and the checksum, and not the id.
ReadAccepts(id, reply) == reply.kind = "data"

\* What a transaction may come to; only a reply that was late can intrude.
Intrusions(bus) == IF bus.late = NoReply THEN {FALSE} ELSE BOOLEAN
Once(bus, id, op) == {Transact(bus, id, op, f, n) : f \in Fates, n \in Intrusions(bus)}

\* Two writes under one lock, of whose answers the last one counts: WriteSpe
\* writes the acceleration first, SetMotorId unlocks the EPROM.  Of the first only its
\* own acknowledgement is left, if that is late.
Twice(bus, id, op) ==
  LET late == IF At(bus, {id}) = {} THEN {} ELSE {[kind |-> "ack", from |-> id]}
  IN  UNION {Once([bus EXCEPT !.late = l], id, op) : l \in {NoReply} \cup late}

\* snycWrite: one frame for all, taken by those that hear it, answered by none.
SyncWrite(bus, takers) == [Act(bus, takers, <<"move">>) EXCEPT !.late = NoReply]
=============================================================================
