---------------------------- MODULE Motors_proof ----------------------------
(***************************************************************************)
(* The motor drivers, for every set of requests, limit, window, chain of   *)
(* servos and group. The VESC driver keeps to its envelope, does what it   *)
(* was last told, shows every fault, and is silent when it is not          *)
(* connected; a Stop() of servos that was answered kOk halts them; a call  *)
(* of a group of AKELC motors reaches every member and folds what they     *)
(* answer. Then the invariants are put together: the drivers keep their    *)
(* types, obey, and Health() tells the truth, in every behaviour of the    *)
(* composition. Last come the frames: what a motor reads of an intact      *)
(* frame is what the driver was asked to send, and a frame with one byte   *)
(* damaged is refused wherever a checksum covers it.                       *)
(***************************************************************************)
EXTENDS MCMotors, Basics_proof, FiniteSetTheorems, TLAPS

-----------------------------------------------------------------------------
(* The SMS/STS servos.                                                       *)

BusReplies == {NoReply} \cup [kind : {"ack", "data"}, from : Addresses]

Buses == [addr : [Servos -> Addresses], moving : SUBSET Servos, late : BusReplies,
          heard : SUBSET Servos, mixed : SUBSET Addresses]

ServoOps == {<<"move">>, <<"halt">>, <<"read">>, <<"set">>} \cup {<<"id", n>> : n \in NewIds}

ShapeInv ==
  /\ ServoTypeOK /\ bus \in Buses
  /\ chain \in Seq(Addresses) /\ Len(chain) > 0
  /\ array \/ Len(chain) = 1

\* A closed port has nothing under way and nothing fresh.
ClosedInv ==
  ~link => poller = Off /\ verb = NoVerb /\ stale = Old

\* A servo of the chain that was read in this session, and one of which the
\* driver may think so.
Read(i) == At(bus, {chain[i]}) \cap bus.heard # {}
Known(i) == Read(i) \/ (array /\ chain[i] \in bus.mixed)

\* What is fresh, or about to be, was read; and a reading that is late for the
\* single servo is one of its own.
ServoHeardInv ==
  misled \/ /\ \A i \in Members : stale[i] <= Fresh => Known(i)
            /\ poller[1] = "publish" => Known(poller[2])
            /\ ~array /\ bus.late.kind = "data" => Read(1)

\* A servo of the chain that is halted, or for whose reply a late one was taken.
Rests(j) == chain[j] \in bus.mixed \/ At(bus, {chain[j]}) \cap bus.moving = {}

\* A Stop() that has had every answer so far has halted every servo so far.
StopInv ==
  /\ StopHalts
  /\ array /\ verb[1] = "stop" /\ verb[3] => \A j \in Members : j < verb[2] => Rests(j)

ServoInv == ShapeInv /\ ClosedInv /\ IdFollows /\ ServoHeardInv /\ StopInv

-----------------------------------------------------------------------------
(* The bus.                                                                  *)

LEMMA Listening ==
  \A b, ids : At(b, ids) \in SUBSET Servos
  BY DEF At

LEMMA SameAddresses ==
  ASSUME NEW b, NEW c, c.addr = b.addr
  PROVE  \A ids : At(c, ids) = At(b, ids)
  BY DEF At

\* c is b but for the reply that is late.
LateOnly(c, b) ==
  /\ c \in Buses
  /\ c.addr = b.addr /\ c.moving = b.moving /\ c.heard = b.heard /\ c.mixed = b.mixed

LEMMA Delayed ==
  ASSUME NEW b \in Buses, NEW l \in BusReplies
  PROVE  LateOnly([b EXCEPT !.late = l], b) /\ [b EXCEPT !.late = l].late = l
  BY DEF LateOnly, Buses

LEMMA NoneLate == NoReply \in BusReplies /\ NoReply.kind = "none" /\ NoReply.from = 0
  BY DEF BusReplies, NoReply

\* c is what is left of a bus b when the servos `at` an id took a frame.
Acted(c, b, at, op) ==
  /\ c \in Buses /\ c.mixed = b.mixed /\ c.late = b.late
  /\ c.addr = IF op[1] = "id" THEN [s \in Servos |-> IF s \in at THEN op[2] ELSE b.addr[s]]
              ELSE b.addr
  /\ c.moving = IF op = <<"move">> THEN b.moving \cup at
                ELSE IF op = <<"halt">> THEN b.moving \ at ELSE b.moving
  /\ c.heard = IF op = <<"read">> THEN b.heard \cup at ELSE b.heard

LEMMA Acting ==
  ASSUME NEW b \in Buses, NEW at \in SUBSET Servos, NEW op \in ServoOps
  PROVE  Acted(Act(b, at, op), b, at, op)
<1> DEFINE c == Act(b, at, op)
<1> SUFFICES Acted(c, b, at, op)
  OBVIOUS
<1> HIDE DEF c
<1>1. CASE op = <<"move">>
  <2>1. c = [b EXCEPT !.moving = b.moving \cup at]
    BY <1>1 DEF Act, Buses, c
  <2> QED
    BY <1>1, <2>1 DEF Acted, Buses
<1>2. CASE op = <<"halt">>
  <2>1. c = [b EXCEPT !.moving = b.moving \ at]
    BY <1>2 DEF Act, Buses, c
  <2> QED
    BY <1>2, <2>1 DEF Acted, Buses
<1>3. CASE op = <<"read">>
  <2>1. c = [b EXCEPT !.heard = b.heard \cup at]
    BY <1>3 DEF Act, Buses, c
  <2> QED
    BY <1>3, <2>1 DEF Acted, Buses
<1>4. CASE op = <<"set">>
  <2>1. c = b
    BY <1>4 DEF Act, Buses, c
  <2> QED
    BY <1>4, <2>1 DEF Acted, Buses
<1>5. ASSUME NEW new \in NewIds, op = <<"id", new>>
      PROVE  Acted(c, b, at, op)
  <2>1. c = [b EXCEPT !.addr = [s \in Servos |-> IF s \in at THEN new ELSE b.addr[s]]]
    BY <1>5 DEF Act, Buses, c
  <2>2. [s \in Servos |-> IF s \in at THEN new ELSE b.addr[s]] \in [Servos -> Addresses]
    BY DEF Addresses, Buses
  <2> QED
    BY <1>5, <2>1, <2>2 DEF Acted, Buses
<1> QED
  BY <1>1, <1>2, <1>3, <1>4, <1>5 DEF ServoOps

\* What a servo that listens to id answers.
Answer(id, op) == [kind |-> IF op = <<"read">> THEN "data" ELSE "ack", from |-> id]

\* r is what a transaction does to the bus b, and what its caller reads: that the
\* servos at the id took the frame, their own answer or none, or one that was late.
Transacted(r, b, id, op, at, astray) ==
  /\ r.bus.addr = Act(b, at, op).addr /\ r.bus.moving = Act(b, at, op).moving
  /\ r.bus.heard = Act(b, at, op).heard
  /\ r.bus \in Buses
  /\ r.bus.mixed = IF astray THEN b.mixed \cup {id} ELSE b.mixed
  /\ r.bus.late = NoReply \/ (at # {} /\ r.bus.late = Answer(id, op))
  /\ IF astray THEN r.read = b.late
     ELSE r.read = NoReply \/ (at # {} /\ r.read = Answer(id, op))
  /\ at = {} \/ at = At(b, {id})
  /\ ~r.doubtful => ~astray /\ (at # {} => r.read = Answer(id, op))

LEMMA Transacting ==
  ASSUME NEW b \in Buses, NEW id \in Addresses, NEW op \in ServoOps, NEW r \in Once(b, id, op)
  PROVE  \E at \in SUBSET Servos, astray \in BOOLEAN : Transacted(r, b, id, op, at, astray)
<1>1. PICK f \in Fates, n \in BOOLEAN : r = Transact(b, id, op, f, n)
  <2>1. \E f \in Fates, n \in Intrusions(b) : r = Transact(b, id, op, f, n)
    BY DEF Once
  <2>2. Intrusions(b) \subseteq BOOLEAN
    BY DEF Intrusions
  <2> QED
    BY <2>1, <2>2
<1> DEFINE at == IF f = "deaf" THEN {} ELSE At(b, {id})
           own == IF at = {} THEN NoReply ELSE Answer(id, op)
           astray == n /\ b.late # NoReply
           acted == Act(b, at, op)
           late == IF f = "late" THEN own ELSE NoReply
           mixed == IF astray THEN b.mixed \cup {id} ELSE b.mixed
           after == [acted EXCEPT !.late = late, !.mixed = mixed]
           said == IF astray THEN b.late ELSE IF f = "answered" THEN own ELSE NoReply
           doubtful == astray \/ f \in {"lost", "late"}
<1>2. at \in SUBSET Servos /\ (at = {} \/ at = At(b, {id}))
  BY Listening
<1>3. /\ f = "deaf" => at = {}
      /\ f \in {"deaf", "lost", "late", "answered"}
  BY DEF Fates
<1>4. Answer(id, op) \in BusReplies /\ NoReply \in BusReplies
  BY NoneLate DEF Answer, BusReplies
<1>5. acted \in Buses /\ acted.mixed = b.mixed
  <2>1. at \in SUBSET Servos
    BY <1>2
  <2> HIDE DEF at
  <2>2. Acted(acted, b, at, op)
    BY <2>1, Acting
  <2> QED
    BY <2>2 DEF Acted
<1>6. r = [bus |-> [acted EXCEPT !.late = late, !.mixed = IF astray THEN @ \cup {id} ELSE @],
           read |-> said, doubtful |-> doubtful]
  BY <1>1, Zenon DEF Transact, Answer
<1> HIDE DEF at, acted
<1>7. late \in BusReplies /\ mixed \subseteq Addresses
  BY <1>4 DEF Buses
<1> HIDE DEF late, said, doubtful, astray
<1>8. r.bus = after /\ r.read = said /\ r.doubtful = doubtful
  <2>1. [acted EXCEPT !.late = late, !.mixed = IF astray THEN @ \cup {id} ELSE @] = after
    BY <1>5 DEF Buses
  <2> QED
    BY <1>6, <2>1
<1> HIDE DEF mixed
<1>9. /\ after \in Buses /\ after.addr = acted.addr /\ after.moving = acted.moving
      /\ after.heard = acted.heard /\ after.mixed = mixed /\ after.late = late
  BY <1>5, <1>7 DEF Buses
<1> HIDE DEF after
<1>10. late = NoReply \/ (at # {} /\ late = Answer(id, op))
  BY DEF late
<1>11. IF astray THEN said = b.late ELSE said = NoReply \/ (at # {} /\ said = Answer(id, op))
  BY DEF said
<1>12. ~doubtful => ~astray /\ (at # {} => said = Answer(id, op))
  BY <1>3 DEF doubtful, said
<1>13. astray \in BOOLEAN
  BY DEF astray
<1>14. Transacted(r, b, id, op, at, astray)
  BY <1>2, <1>8, <1>9, <1>10, <1>11, <1>12 DEF Transacted, acted, mixed
<1> QED
  BY <1>2, <1>13, <1>14

\* What the owner and the poll thread count on, whatever is lost or late: a
\* transaction forgets no reading, moves a servo only when told to, and an answer
\* comes from a servo that listens to the id and did what it was told, unless a
\* late one was taken for it, which is then remembered.
Effected(r, b, id, op) ==
  /\ r.bus \in Buses
  /\ b.heard \subseteq r.bus.heard /\ b.mixed \subseteq r.bus.mixed
  /\ op[1] # "id" => r.bus.addr = b.addr
  /\ op # <<"move">> => r.bus.moving \subseteq b.moving
  /\ op = <<"halt">> /\ Ack(id, r.read) =>
       id \in r.bus.mixed \/ At(b, {id}) \cap r.bus.moving = {}
  /\ op = <<"read">> /\ ReadAccepts(id, r.read) =>
       (id \in r.bus.mixed /\ b.late.kind = "data") \/ At(b, {id}) \cap r.bus.heard # {}
  /\ r.bus.late.kind = "data" => op = <<"read">> /\ At(b, {id}) \cap r.bus.heard # {}
  /\ op[1] = "id" /\ ~r.doubtful =>
       IF Ack(id, r.read)
       THEN /\ At(b, {id}) # {}
            /\ r.bus.addr = [s \in Servos |-> IF s \in At(b, {id}) THEN op[2] ELSE b.addr[s]]
       ELSE r.bus.addr = b.addr

LEMMA Effect ==
  ASSUME NEW b \in Buses, NEW id \in Addresses, NEW op \in ServoOps, NEW r \in Once(b, id, op)
  PROVE  Effected(r, b, id, op)
<1>1. PICK at \in SUBSET Servos, astray \in BOOLEAN : Transacted(r, b, id, op, at, astray)
  BY Transacting
<1>2. Acted(Act(b, at, op), b, at, op)
  BY Acting
<1> DEFINE renamed == [s \in Servos |-> IF s \in at THEN op[2] ELSE b.addr[s]]
<1>3. /\ r.bus \in Buses
      /\ r.bus.addr = IF op[1] = "id" THEN renamed ELSE b.addr
      /\ r.bus.moving = IF op = <<"move">> THEN b.moving \cup at
                        ELSE IF op = <<"halt">> THEN b.moving \ at ELSE b.moving
      /\ r.bus.heard = IF op = <<"read">> THEN b.heard \cup at ELSE b.heard
      /\ r.bus.mixed = IF astray THEN b.mixed \cup {id} ELSE b.mixed
  BY <1>1, <1>2 DEF Transacted, Acted
<1>4. /\ at = {} \/ at = At(b, {id})
      /\ r.bus.late = NoReply \/ (at # {} /\ r.bus.late = Answer(id, op))
      /\ IF astray THEN r.read = b.late
         ELSE r.read = NoReply \/ (at # {} /\ r.read = Answer(id, op))
      /\ ~r.doubtful => ~astray /\ (at # {} => r.read = Answer(id, op))
  BY <1>1 DEF Transacted
<1>5. /\ NoReply.kind = "none"
      /\ Answer(id, op).from = id
      /\ Answer(id, op).kind = IF op = <<"read">> THEN "data" ELSE "ack"
  BY NoneLate DEF Answer
<1>6. /\ b.heard \subseteq r.bus.heard /\ b.mixed \subseteq r.bus.mixed
      /\ op[1] # "id" => r.bus.addr = b.addr
      /\ op # <<"move">> => r.bus.moving \subseteq b.moving
  BY <1>3
<1>7. ASSUME op = <<"halt">>, Ack(id, r.read)
      PROVE  id \in r.bus.mixed \/ At(b, {id}) \cap r.bus.moving = {}
  <2>1. astray \/ at = At(b, {id})
    BY <1>4, <1>5, <1>7 DEF Ack
  <2> QED
    BY <1>3, <1>7, <2>1
<1>8. ASSUME op = <<"read">>, ReadAccepts(id, r.read)
      PROVE  (id \in r.bus.mixed /\ b.late.kind = "data") \/ At(b, {id}) \cap r.bus.heard # {}
  <2>1. (astray /\ b.late.kind = "data") \/ (at # {} /\ at = At(b, {id}))
    BY <1>4, <1>5, <1>8 DEF ReadAccepts
  <2> QED
    BY <1>3, <1>8, <2>1
<1>9. ASSUME r.bus.late.kind = "data"
      PROVE  op = <<"read">> /\ At(b, {id}) \cap r.bus.heard # {}
  <2>1. op = <<"read">> /\ at # {} /\ at = At(b, {id})
    BY <1>4, <1>5, <1>9
  <2> QED
    BY <1>3, <2>1
<1>10. ASSUME op[1] = "id", ~r.doubtful
       PROVE  IF Ack(id, r.read)
              THEN /\ At(b, {id}) # {}
                   /\ r.bus.addr = [s \in Servos |-> IF s \in At(b, {id}) THEN op[2] ELSE b.addr[s]]
              ELSE r.bus.addr = b.addr
  <2>1. op # <<"read">>
    BY <1>10
  <2>2. CASE at = {}
    <3>1. ~Ack(id, r.read)
      BY <1>4, <1>5, <1>10, <2>2 DEF Ack
    <3>2. b.addr = [s \in Servos |-> b.addr[s]]
      BY DEF Buses
    <3> QED
      BY <1>3, <1>10, <2>2, <3>1, <3>2
  <2>3. CASE at # {}
    <3>1. Ack(id, r.read)
      BY <1>4, <1>5, <1>10, <2>1, <2>3 DEF Ack
    <3>2. at = At(b, {id})
      BY <1>4, <2>3
    <3> QED
      BY <1>3, <1>10, <2>3, <3>1, <3>2
  <2> QED
    BY <2>2, <2>3
<1> QED
  BY <1>3, <1>6, <1>7, <1>8, <1>9, <1>10, Zenon DEF Effected

\* The first of two writes leaves nothing that is looked at but a late answer.
LEMMA Twofold ==
  ASSUME NEW b \in Buses, NEW id \in Addresses, NEW op \in ServoOps, op # <<"read">>,
         NEW r \in Twice(b, id, op)
  PROVE  Effected(r, b, id, op)
<1>1. PICK l \in {NoReply} \cup {[kind |-> "ack", from |-> id]} :
             r \in Once([b EXCEPT !.late = l], id, op)
  <2>1. Twice(b, id, op) \subseteq
          UNION {Once([b EXCEPT !.late = l], id, op) :
                   l \in {NoReply} \cup {[kind |-> "ack", from |-> id]}}
    BY DEF Twice
  <2> QED
    BY <2>1
<1>2. l \in BusReplies
  BY NoneLate DEF BusReplies
<1> DEFINE c == [b EXCEPT !.late = l]
<1>3. LateOnly(c, b)
  BY <1>2, Delayed
<1>4. r \in Once(c, id, op)
  BY <1>1
<1> HIDE DEF c
<1>5. c \in Buses /\ c.addr = b.addr /\ c.moving = b.moving /\ c.heard = b.heard /\ c.mixed = b.mixed
  BY <1>3 DEF LateOnly
<1>6. Effected(r, c, id, op)
  BY <1>4, <1>5, Effect
<1>7. At(c, {id}) = At(b, {id})
  BY <1>5, SameAddresses
<1> QED
  BY <1>5, <1>6, <1>7 DEF Effected

LEMMA SynchronisedWrite ==
  ASSUME NEW b \in Buses, NEW takers \in SUBSET Servos
  PROVE  /\ SyncWrite(b, takers) \in Buses
         /\ SyncWrite(b, takers).addr = b.addr
         /\ SyncWrite(b, takers).heard = b.heard
         /\ SyncWrite(b, takers).mixed = b.mixed
         /\ SyncWrite(b, takers).late = NoReply
<1> DEFINE op == <<"move">>
           c == Act(b, takers, op)
<1>1. op \in ServoOps /\ op[1] # "id" /\ op # <<"read">>
  BY DEF ServoOps
<1> HIDE DEF op
<1>2. Acted(c, b, takers, op)
  BY <1>1, Acting
<1>3. SyncWrite(b, takers) = [c EXCEPT !.late = NoReply]
  BY DEF SyncWrite, op
<1> HIDE DEF c
<1>4. c \in Buses
  BY <1>2 DEF Acted
<1>5. LateOnly([c EXCEPT !.late = NoReply], c) /\ [c EXCEPT !.late = NoReply].late = NoReply
  BY <1>4, NoneLate, Delayed
<1> QED
  BY <1>1, <1>2, <1>3, <1>5 DEF Acted, LateOnly

-----------------------------------------------------------------------------
(* The steps.                                                                *)

\* A step of the owner that leaves the flow of both threads alone.
LEMMA Commanding ==
  ASSUME ServoInv, Free, StillHalted, UNCHANGED <<chainVars, pollVars, link, verb>>,
         bus' \in Buses, bus'.addr = bus.addr, bus.heard \subseteq bus'.heard,
         bus.mixed \subseteq bus'.mixed, bus'.late.kind # "data"
  PROVE  ServoInv'
<1>1. \A ids : At(bus', ids) = At(bus, ids)
  BY SameAddresses
<1>2. ShapeInv'
  BY DEF ServoInv, ShapeInv, ServoTypeOK, StillHalted, chainVars, pollVars, Members, Buses
<1>3. ClosedInv'
  BY DEF ServoInv, ClosedInv, pollVars, Old, Members, chainVars
<1>4. IdFollows'
  BY <1>1 DEF ServoInv, IdFollows, chainVars
<1>5. ServoHeardInv'
  BY <1>1 DEF ServoInv, ServoHeardInv, Known, Read, chainVars, pollVars, Members
<1>6. StopInv'
  BY DEF StopInv, StopHalts, StillHalted, Free, NoVerb
<1> QED
  BY <1>2, <1>3, <1>4, <1>5, <1>6 DEF ServoInv

\* What a write of a command leaves of the bus.
Commanded ==
  /\ bus' \in Buses /\ bus'.addr = bus.addr /\ bus.heard \subseteq bus'.heard
  /\ bus.mixed \subseteq bus'.mixed /\ bus'.late.kind # "data"

LEMMA ServoCommands ==
  ASSUME ServoInv,
         ServoSetSpeed \/ ServoSetPosition \/ ServoSetMode \/ ServoEnableTorque \/ ServoSetPositions
  PROVE  ServoInv'
<1> USE DEF ServoInv, ShapeInv
<1>0. bus \in Buses /\ \A i \in Members : chain[i] \in Addresses
  BY DEF Members
<1>1. ASSUME NEW i \in Members, NEW op \in ServoOps, op[1] # "id", op # <<"read">>,
             NEW r, Effected(r, bus, chain[i], op), bus' = r.bus
      PROVE  Commanded
  BY <1>1 DEF Effected, Commanded
<1>2. CASE ServoSetSpeed
  <2>1. PICK i \in Members, o \in {"move", "halt"} :
               bus' \in {r.bus : r \in Twice(bus, chain[i], <<o>>)}
    BY <1>2 DEF ServoSetSpeed
  <2> DEFINE op == <<o>>
  <2>2. op \in ServoOps /\ op[1] # "id" /\ op # <<"read">>
    BY DEF ServoOps
  <2>3. PICK r \in Twice(bus, chain[i], op) : bus' = r.bus
    BY <2>1
  <2> HIDE DEF op
  <2>4. Effected(r, bus, chain[i], op)
    BY <1>0, <2>2, <2>3, Twofold
  <2>5. Commanded
    BY <1>1, <2>2, <2>3, <2>4
  <2> QED
    BY <1>2, <2>5, Commanding DEF ServoSetSpeed, Commanded
<1>3. ASSUME NEW ops \in SUBSET ServoOps, \A op \in ops : op[1] # "id" /\ op # <<"read">>,
             Written(ops)
      PROVE  ServoInv'
  <2>1. PICK i \in Members, op \in ops : bus' \in {r.bus : r \in Once(bus, chain[i], op)}
    BY <1>3 DEF Written
  <2>2. PICK r \in Once(bus, chain[i], op) : bus' = r.bus
    BY <2>1
  <2>3. Effected(r, bus, chain[i], op)
    BY <1>0, <1>3, <2>1, <2>2, Effect
  <2>4. Commanded
    BY <1>1, <1>3, <2>1, <2>2, <2>3
  <2> QED
    BY <1>3, <2>4, Commanding DEF Written, Commanded
<1>4. /\ {<<"move">>} \in SUBSET ServoOps
      /\ \A op \in {<<"move">>} : op[1] # "id" /\ op # <<"read">>
      /\ {<<"set">>} \in SUBSET ServoOps
      /\ \A op \in {<<"set">>} : op[1] # "id" /\ op # <<"read">>
  BY DEF ServoOps
<1>5. CASE ServoSetPosition
  BY <1>3, <1>4, <1>5 DEF ServoSetPosition
<1>6. CASE ServoSetMode \/ ServoEnableTorque
  BY <1>3, <1>4, <1>6 DEF ServoSetMode, ServoEnableTorque
<1>7. CASE ServoSetPositions
  <2>1. PICK takers \in SUBSET At(bus, {chain[i] : i \in Members}) : bus' = SyncWrite(bus, takers)
    BY <1>7 DEF ServoSetPositions
  <2>2. takers \in SUBSET Servos
    BY Listening
  <2>3. Commanded
    BY <1>0, <2>1, <2>2, SynchronisedWrite, NoneLate DEF Commanded
  <2> QED
    BY <1>7, <2>3, Commanding DEF ServoSetPositions, Commanded
<1> QED
  BY <1>2, <1>5, <1>6, <1>7

\* The servo that took the new id is the one that was called by the old one.
LEMMA Renamed ==
  ASSUME ServoInv, ServoSetMotorId
  PROVE  ServoInv'
<1> USE DEF ServoInv, ShapeInv
<1>1. PICK id \in NewIds : \E r \in Twice(bus, chain[1], <<"id", id>>) :
        /\ bus' = r.bus
        /\ TakeId(Ack(chain[1], r.read), id)
        /\ misled' = (misled \/ r.doubtful)
  BY DEF ServoSetMotorId
<1> DEFINE op == <<"id", id>>
<1>2. PICK r \in Twice(bus, chain[1], op) :
        /\ bus' = r.bus
        /\ TakeId(Ack(chain[1], r.read), id)
        /\ misled' = (misled \/ r.doubtful)
  BY <1>1
<1>3. /\ op \in ServoOps /\ op[1] = "id" /\ op[2] = id /\ op # <<"move">> /\ op # <<"read">>
  BY DEF ServoOps
<1>4. ~array /\ array' = array /\ Free /\ Len(chain) = 1
      /\ UNCHANGED <<pollVars, link, verb, halted>>
  BY DEF ServoSetMotorId
<1> HIDE DEF op
<1>0. bus \in Buses /\ chain[1] \in Addresses
  OBVIOUS
<1>5. Effected(r, bus, chain[1], op)
  BY <1>0, <1>3, Twofold
<1>6. /\ bus' \in Buses /\ bus.heard \subseteq bus'.heard /\ bus'.moving \subseteq bus.moving
      /\ bus'.late.kind # "data"
  BY <1>2, <1>3, <1>5 DEF Effected
<1>7. chain' = IF Ack(chain[1], r.read) THEN <<id>> ELSE chain
  BY <1>2 DEF TakeId
<1>8. chain' \in Seq(Addresses) /\ Len(chain') = 1 /\ Members' = Members /\ Members = {1}
  <2>1. Members = {1}
    BY <1>4 DEF Members
  <2>2. CASE chain' = chain
    BY <1>4, <2>1, <2>2 DEF Members
  <2>3. CASE chain' = <<id>>
    <3>1. id \in Addresses
      BY DEF Addresses
    <3> QED
      BY <2>1, <2>3, <3>1 DEF Members
  <2> QED
    BY <1>7, <2>2, <2>3
<1>20. misled' \in BOOLEAN
  BY <1>2
<1>9. ShapeInv'
  <2>1. ServoTypeOK'
    BY <1>4, <1>6, <1>8, <1>20 DEF ServoTypeOK, pollVars, Buses
  <2> QED
    BY <1>4, <1>6, <1>8, <2>1
<1>10. ClosedInv'
  BY <1>4, <1>8 DEF ClosedInv, pollVars, Old, Free
<1>11. misled' \/ At(bus, {chain[1]}) \subseteq At(bus', {chain'[1]})
  <2>1. CASE r.doubtful
    BY <1>2, <2>1
  <2>2. CASE ~r.doubtful /\ ~Ack(chain[1], r.read)
    <3>1. bus'.addr = bus.addr /\ chain' = chain
      BY <1>2, <1>3, <1>5, <1>7, <2>2 DEF Effected
    <3> QED
      BY <3>1 DEF At
  <2>3. CASE ~r.doubtful /\ Ack(chain[1], r.read)
    <3>1. chain' = <<id>>
      BY <1>7, <2>3
    <3>2. bus'.addr = [s \in Servos |-> IF s \in At(bus, {chain[1]}) THEN id ELSE bus.addr[s]]
      BY <1>2, <1>3, <1>5, <2>3 DEF Effected
    <3>3. ASSUME NEW s \in At(bus, {chain[1]})
          PROVE  s \in At(bus', {chain'[1]})
      <4>1. s \in Servos
        BY Listening
      <4>2. bus'.addr[s] = id
        BY <3>2, <4>1
      <4> QED
        BY <3>1, <4>1, <4>2 DEF At
    <3> QED
      BY <3>3
  <2> QED
    BY <2>1, <2>2, <2>3
<1>12. IdFollows'
  BY <1>2, <1>4, <1>11 DEF IdFollows
<1>13. ServoHeardInv'
  <2>1. poller[1] = "publish" => poller[2] \in Members
    BY DEF ServoTypeOK, Off
  <2>2. misled' \/ misled \/ \A i \in Members : Known(i) => Known(i)'
    BY <1>4, <1>6, <1>8, <1>11 DEF Known, Read
  <2>3. poller' = poller /\ stale' = stale
    BY <1>4 DEF pollVars
  <2>4. misled => misled'
    BY <1>2
  <2> QED
    BY <1>6, <1>8, <2>1, <2>2, <2>3, <2>4 DEF ServoHeardInv
<1>14. StopInv'
  BY <1>4, <1>6 DEF StopInv, StopHalts, Free, NoVerb
<1> QED
  BY <1>9, <1>10, <1>12, <1>13, <1>14

LEMMA Opened ==
  ASSUME ServoInv, ServoConnect
  PROVE  ServoInv'
<1> USE DEF ServoInv, ShapeInv, ServoConnect, chainVars, Reset
<1>1. bus' \in Buses /\ bus'.addr = bus.addr /\ bus'.moving = bus.moving
  BY NoneLate DEF Buses
<1>2. Members' = Members /\ stale' \in [Members -> 0..(Fresh + 1)] /\ 1 \in Members
  BY SmsStsAssumption DEF Members, Old
<1>3. ShapeInv'
  BY <1>1, <1>2 DEF ServoTypeOK, Buses
<1>4. ClosedInv'
  BY DEF ClosedInv
<1>5. IdFollows'
  <2>1. \A ids : At(bus', ids) = At(bus, ids)
    BY <1>1, SameAddresses
  <2>2. UNCHANGED <<array, chain, misled>> /\ IdFollows
    OBVIOUS
  <2> HIDE DEF ServoConnect, ServoInv
  <2> QED
    BY <2>1, <2>2 DEF IdFollows
<1>6. ServoHeardInv'
  <2>1. bus'.late.kind # "data"
    BY NoneLate, <1>1
  <2> QED
    BY <1>2, <2>1, SmsStsAssumption DEF ServoHeardInv, Old
<1>7. StopInv'
  BY <1>1 DEF StopInv, StopHalts, NoVerb
<1> QED
  BY <1>3, <1>4, <1>5, <1>6, <1>7

\* The servos stopped so far stay so, and the next one joins them.
LEMMA StoppedNext ==
  ASSUME ServoInv, ServoStopNext
  PROVE  ServoInv'
<1> USE DEF ServoInv, ShapeInv
<1> DEFINE i == verb[2]
           then == verb[4]
           op == <<"halt">>
           Still == At(bus, {chain[j] : j \in Members} \ bus'.mixed)
<1>1. /\ i \in Members /\ verb[3] \in BOOLEAN /\ then \in {"none", "join"} /\ verb[1] = "stop"
      /\ UNCHANGED <<chain, array, misled, refreshing, poller, stale, link>>
  BY DEF ServoTypeOK, ServoStopNext, NoVerb, chainVars, pollVars
<1>2. PICK r \in Twice(bus, chain[i], op) :
        LET ok   == StopSoFar(verb[3], Ack(chain[i], r.read))
            last == i = Len(chain)
        IN  /\ bus' = r.bus
            /\ verb' = IF last THEN <<then>> ELSE <<"stop", i + 1, ok, then>>
            /\ halted' = IF last /\ ok /\ array
                         THEN halted \cup At(bus, {chain[j] : j \in Members} \ r.bus.mixed)
                         ELSE halted
  BY DEF ServoStopNext
<1> DEFINE ok == verb[3] /\ Ack(chain[i], r.read)
<1>3. /\ bus' = r.bus
      /\ verb' = IF i = Len(chain) THEN <<then>> ELSE <<"stop", i + 1, ok, then>>
      /\ halted' = IF i = Len(chain) /\ ok /\ array THEN halted \cup Still ELSE halted
  BY <1>2 DEF StopSoFar
<1>4. op \in ServoOps /\ op[1] # "id" /\ op # <<"move">> /\ op # <<"read">> /\ op = <<"halt">>
  BY DEF ServoOps
<1> HIDE DEF op
<1>0. bus \in Buses /\ chain[i] \in Addresses
  BY <1>1 DEF Members
<1>5. Effected(r, bus, chain[i], op)
  BY <1>0, <1>4, Twofold
<1>6. /\ bus' \in Buses /\ bus.heard \subseteq bus'.heard /\ bus'.moving \subseteq bus.moving
      /\ bus'.addr = bus.addr /\ bus.mixed \subseteq bus'.mixed /\ bus'.late.kind # "data"
      /\ ok => chain[i] \in bus'.mixed \/ At(bus, {chain[i]}) \cap bus'.moving = {}
  BY <1>3, <1>4, <1>5 DEF Effected
<1>7. ok \in BOOLEAN
  BY <1>1 DEF Ack
<1> HIDE DEF i, then, ok, Still
<1>8. \A ids : At(bus', ids) = At(bus, ids)
  BY <1>6, SameAddresses
<1>9. link
  BY <1>1 DEF ClosedInv, NoVerb
<1>10. i \in 1..Len(chain) /\ Members = 1..Len(chain) /\ Len(chain) \in Nat
       /\ Members' = Members
  BY <1>1 DEF Members
<1>11. verb' \in {NoVerb, <<"join">>}
         \cup {<<"stop", k, b, t>> : k \in Members, b \in BOOLEAN, t \in {"none", "join"}}
  <2>1. CASE i = Len(chain)
    BY <1>1, <1>3, <2>1 DEF NoVerb
  <2>2. CASE i # Len(chain)
    <3>1. i + 1 \in Members
      BY <1>10, <2>2
    <3> QED
      BY <1>1, <1>3, <1>7, <2>2, <3>1
  <2> QED
    BY <2>1, <2>2
<1>12. halted' \in SUBSET Servos
  <2>1. halted \in SUBSET Servos
    BY DEF ServoTypeOK
  <2> QED
    BY <1>3, <2>1, Listening DEF Still
<1>13. ShapeInv'
  BY <1>1, <1>6, <1>10, <1>11, <1>12 DEF ServoTypeOK, Buses
<1>14. ClosedInv' /\ IdFollows'
  BY <1>1, <1>8, <1>9 DEF ClosedInv, IdFollows
<1>15. ServoHeardInv'
  BY <1>1, <1>6, <1>8, <1>10 DEF ServoHeardInv, Known, Read
<1>16. array /\ ok => \A j \in Members : j <= i => Rests(j)'
  <2>1. array /\ ok => \A j \in Members : j < i => Rests(j)
    BY <1>1 DEF StopInv, ok, i
  <2>2. \A j \in Members : j <= i => j < i \/ j = i
    BY <1>10
  <2>3. \A j \in Members : Rests(j) => Rests(j)'
    BY <1>1, <1>6, <1>8 DEF Rests
  <2>4. ok => \A j \in Members : j = i => Rests(j)'
    BY <1>1, <1>6, <1>8 DEF Rests
  <2> QED
    BY <2>1, <2>2, <2>3, <2>4
<1>17. StopHalts'
  <2>1. halted \cap bus'.moving = {}
    BY <1>6 DEF StopInv, StopHalts
  <2>2. CASE i = Len(chain) /\ ok /\ array
    <3>1. ASSUME NEW s \in Still
          PROVE  s \notin bus'.moving
      <4>1. PICK j \in Members : chain[j] = bus.addr[s] /\ chain[j] \notin bus'.mixed
        BY DEF Still, At
      <4>2. s \in At(bus, {chain[j]})
        BY <4>1 DEF Still, At
      <4>3. Rests(j)'
        BY <1>10, <1>16, <2>2
      <4>4. At(bus, {chain[j]}) \cap bus'.moving = {}
        BY <1>1, <1>8, <4>1, <4>3 DEF Rests
      <4> QED
        BY <4>2, <4>4
    <3> QED
      BY <1>3, <2>1, <2>2, <3>1 DEF StopHalts
  <2> QED
    BY <1>3, <2>1, <2>2 DEF StopHalts
<1>18. (array /\ verb[1] = "stop" /\ verb[3] => \A j \in Members : j < verb[2] => Rests(j))'
  <2>1. CASE i = Len(chain)
    BY <1>1, <1>3, <2>1
  <2>2. CASE i # Len(chain)
    <3>1. verb'[3] = ok /\ verb'[2] = i + 1
      BY <1>3, <2>2
    <3>2. \A j \in Members : j < i + 1 => j <= i
      BY <1>10
    <3> QED
      BY <1>1, <1>10, <1>16, <3>1, <3>2
  <2> QED
    BY <2>1, <2>2
<1> QED
  BY <1>13, <1>14, <1>15, <1>17, <1>18 DEF StopInv

\* The owner has come to the first servo of a Stop().
StopBegins == \E then \in {"none", "join"} : verb' = <<"stop", 1, TRUE, then>>

\* The steps of the owner that speak to no servo.
LEMMA Owning ==
  ASSUME ServoInv, ServoStop \/ ServoStopRefresh \/ ServoEnd
  PROVE  ServoInv'
<1> USE DEF ServoInv, ShapeInv
<1>0. refreshing \in BOOLEAN /\ link \in BOOLEAN
  BY DEF ServoTypeOK
<1>1. /\ UNCHANGED <<chainVars, poller, halted>>
      /\ bus' \in Buses /\ bus'.addr = bus.addr /\ bus'.moving = bus.moving
      /\ bus'.heard = bus.heard /\ bus'.mixed = bus.mixed
      /\ bus'.late = bus.late \/ bus'.late.kind # "data"
      /\ stale' = stale \/ stale' = Old
      /\ refreshing' \in BOOLEAN /\ link' \in BOOLEAN
      /\ \/ verb' = NoVerb \/ verb' = <<"join">>
         \/ StopBegins
      /\ ~link' => poller' = Off /\ verb' = NoVerb /\ stale' = Old
  <2>1. CASE ServoStop
    <3>1. PICK then \in {"none", "join"} : verb' = <<"stop", 1, TRUE, then>>
      BY <2>1 DEF ServoStop
    <3>2. link /\ UNCHANGED <<chainVars, pollVars, link, bus, halted>>
      BY <2>1 DEF ServoStop, Free
    <3> QED
      BY <1>0, <3>1, <3>2 DEF pollVars, StopBegins
  <2>2. CASE ServoStopRefresh
    <3>1. /\ UNCHANGED <<chainVars, poller, stale, link, bus, verb, halted>>
          /\ verb = <<"join">> /\ refreshing' = FALSE
      BY <2>2 DEF ServoStopRefresh, Clear
    <3>2. link
      BY <3>1 DEF ClosedInv, NoVerb
    <3> QED
      BY <1>0, <3>1, <3>2
  <2>3. CASE ServoEnd
    <3>1. LateOnly(bus', bus) /\ bus'.late = NoReply
      BY <2>3, NoneLate, Delayed DEF ServoEnd
    <3>2. /\ UNCHANGED <<chainVars, refreshing, poller, halted>>
          /\ poller = Off /\ link' = FALSE /\ verb' = NoVerb /\ stale' = Old
      BY <2>3 DEF ServoEnd, Reset
    <3> QED
      BY <1>0, <3>1, <3>2, NoneLate DEF LateOnly
  <2> QED
    BY <2>1, <2>2, <2>3
<1>2. UNCHANGED <<array, chain, misled>> /\ Members' = Members /\ Old' = Old /\ 1 \in Members
      /\ poller' = poller /\ halted' = halted
  BY <1>1 DEF chainVars, Members, Old
<1>3. \A ids : At(bus', ids) = At(bus, ids)
  BY <1>1, SameAddresses
<1>4. Old \in [Members -> 0..(Fresh + 1)] /\ \A i \in Members : ~(Old[i] <= Fresh)
  BY SmsStsAssumption DEF Old
<1>5. ShapeInv'
  <2>1. verb' \in {NoVerb, <<"join">>}
          \cup {<<"stop", k, b, t>> : k \in Members, b \in BOOLEAN, t \in {"none", "join"}}
    <3>1. CASE verb' = NoVerb \/ verb' = <<"join">>
      BY <3>1
    <3>2. CASE StopBegins
      <4>1. PICK then \in {"none", "join"} : verb' = <<"stop", 1, TRUE, then>>
        BY <3>2 DEF StopBegins
      <4> DEFINE first == 1
                 so == TRUE
      <4>2. first \in Members /\ so \in BOOLEAN /\ verb' = <<"stop", first, so, then>>
        BY <1>2, <4>1
      <4> HIDE DEF first, so
      <4> QED
        BY <4>2
    <3> QED
      BY <1>1, <3>1, <3>2
  <2>2. stale' \in [Members -> 0..(Fresh + 1)]
    BY <1>1, <1>4 DEF ServoTypeOK
  <2>3. refreshing' \in BOOLEAN /\ link' \in BOOLEAN /\ bus' \in Buses
    BY <1>1
  <2>4. ServoTypeOK'
    <3>1. /\ bus'.addr \in [Servos -> Addresses] /\ bus'.moving \subseteq Servos
          /\ bus'.heard \subseteq Servos /\ bus'.mixed \subseteq Addresses
      BY <2>3 DEF Buses
    <3>2. {array', link', refreshing', misled'} \subseteq BOOLEAN
      BY <1>2, <2>3 DEF ServoTypeOK
    <3> QED
      BY <1>2, <2>1, <2>2, <3>1, <3>2 DEF ServoTypeOK
  <2> QED
    BY <1>2, <2>3, <2>4
<1>6. ClosedInv' /\ IdFollows'
  BY <1>1, <1>2, <1>3 DEF ClosedInv, IdFollows
<1>7. ServoHeardInv'
  BY <1>1, <1>2, <1>3, <1>4 DEF ServoHeardInv, Known, Read
<1>8. StopInv'
  <2>1. StopHalts'
    <3>1. bus'.moving = bus.moving
      BY <1>1
    <3> QED
      BY <1>2, <3>1 DEF StopInv, StopHalts
  <2>2. verb'[1] = "stop" => verb'[2] = 1
    <3>1. verb' = NoVerb \/ verb' = <<"join">> => verb'[1] # "stop"
      BY DEF NoVerb
    <3>2. StopBegins => verb'[2] = 1
      BY DEF StopBegins
    <3> QED
      BY <1>1, <3>1, <3>2
  <2>3. \A j \in Members : ~(j < 1)
    BY DEF Members
  <2> QED
    BY <1>2, <2>1, <2>2, <2>3 DEF StopInv
<1> QED
  BY <1>5, <1>6, <1>7, <1>8

LEMMA Afterwards ==
  ASSUME ServoInv, NEW i \in Members
  PROVE  After(i) \in {<<"sleep">>} \cup {<<"poll", j>> : j \in Members}
<1>1. i \in 1..Len(chain) /\ Len(chain) \in Nat /\ Members = 1..Len(chain)
  BY DEF ServoInv, ShapeInv, Members
<1>2. i # Len(chain) => i + 1 \in Members
  BY <1>1
<1> QED
  BY <1>2 DEF After

LEMMA Polled ==
  ASSUME ServoInv, ServoPoll
  PROVE  ServoInv'
<1> USE DEF ServoInv, ShapeInv
<1>10. PICK i \in Members : i = poller[2]
  BY DEF ServoPoll, ServoTypeOK, Off
<1> DEFINE op == <<"read">>
           Idle == {Off} \cup {<<"sleep">>} \cup {<<"poll", j>> : j \in Members}
<1>1. /\ link
      /\ UNCHANGED <<array, chain, misled, refreshing, stale, link, verb, halted>>
      /\ Members' = Members
  BY DEF ServoPoll, ServoTypeOK, ClosedInv, Off, chainVars, Members
<1>2. op \in ServoOps /\ op[1] # "id" /\ op # <<"move">> /\ op = <<"read">>
  BY DEF ServoOps
<1>0. bus \in Buses /\ chain[i] \in Addresses
  BY <1>1 DEF Members
<1> HIDE DEF op
<1>3. /\ bus' \in Buses /\ bus'.addr = bus.addr /\ bus'.moving \subseteq bus.moving
      /\ bus.heard \subseteq bus'.heard /\ bus.mixed \subseteq bus'.mixed
      /\ bus'.late.kind = "data" => bus' = bus \/ At(bus, {chain[i]}) \cap bus'.heard # {}
      /\ \/ poller' \in Idle
         \/ /\ poller' = <<"publish", i>>
            /\ \/ At(bus, {chain[i]}) \cap bus'.heard # {}
               \/ chain[i] \in bus'.mixed /\ bus.late.kind = "data"
  <2>1. CASE refreshing
    <3>1. FeedBack(i)
      BY <1>10, <2>1 DEF ServoPoll
    <3>2. PICK r \in Once(bus, chain[i], op) :
            /\ bus' = r.bus
            /\ poller' = IF ReadAccepts(chain[i], r.read) THEN <<"publish", i>> ELSE After(i)
      BY <3>1 DEF FeedBack, op
    <3>3. Effected(r, bus, chain[i], op)
      BY <1>0, <1>2, Effect
    <3>4. After(i) \in Idle
      BY <1>1, Afterwards
    <3> HIDE DEF Idle
    <3> QED
      BY <1>2, <3>2, <3>3, <3>4 DEF Effected
  <2>2. CASE ~refreshing
    BY <2>2 DEF ServoPoll
  <2> QED
    BY <2>1, <2>2 DEF ServoTypeOK
<1>4. \A ids : At(bus', ids) = At(bus, ids)
  BY <1>3, SameAddresses
<1>6. ShapeInv'
  <2>1. poller' \in Idle \cup {<<"publish", j>> : j \in Members}
    BY <1>1, <1>3
  <2> QED
    BY <1>1, <1>3, <2>1 DEF ServoTypeOK, Buses
<1>7. ClosedInv' /\ IdFollows'
  BY <1>1, <1>4 DEF ClosedInv, IdFollows
<1>8. ServoHeardInv'
  <2>1. \A j \in Members : (Read(j) => Read(j)') /\ (Known(j) => Known(j)')
    <3>1. bus.heard \subseteq bus'.heard /\ bus.mixed \subseteq bus'.mixed
          /\ chain' = chain /\ array' = array
      BY <1>1, <1>3
    <3> QED
      BY <1>4, <3>1 DEF Known, Read
  <2>2. poller'[1] = "publish" => poller' = <<"publish", i>>
    <3>1. ASSUME poller' \in Idle
          PROVE  poller'[1] # "publish"
      BY <3>1 DEF Off
    <3> QED
      BY <1>3, <3>1
  <2>3. ~array => Members = {1} /\ i = 1
    BY <1>1 DEF Members
  <2>4. ASSUME poller'[1] = "publish", ~misled
        PROVE  poller'[2] = i /\ Known(i)'
    <3>1. /\ poller' = <<"publish", i>> /\ poller'[2] = i
          /\ \/ At(bus, {chain[i]}) \cap bus'.heard # {}
             \/ chain[i] \in bus'.mixed /\ bus.late.kind = "data"
      <4>1. poller' = <<"publish", i>>
        BY <2>2, <2>4
      <4>2. poller' \notin Idle
        BY <4>1 DEF Off
      <4> QED
        BY <1>3, <4>1, <4>2
    <3>2. CASE At(bus, {chain[i]}) \cap bus'.heard # {}
      BY <1>1, <1>4, <3>1, <3>2 DEF Known, Read
    <3>3. CASE chain[i] \in bus'.mixed /\ array
      BY <1>1, <3>1, <3>3 DEF Known
    <3>4. CASE bus.late.kind = "data" /\ ~array
      <4>1. Read(1)
        BY <2>4, <3>4 DEF ServoHeardInv
      <4>2. Read(1)'
        BY <1>1, <2>1, <2>3, <3>4, <4>1
      <4> QED
        BY <2>3, <3>1, <3>4, <4>2 DEF Known
    <3> QED
      BY <3>1, <3>2, <3>3, <3>4
  <2>5. ASSUME ~array, ~misled, bus'.late.kind = "data"
        PROVE  Read(1)'
    <3>1. CASE bus' = bus
      <4>1. Read(1)
        BY <2>5, <3>1 DEF ServoHeardInv
      <4> QED
        BY <1>1, <2>1, <2>3, <2>5, <4>1
    <3>2. CASE At(bus, {chain[i]}) \cap bus'.heard # {}
      BY <1>1, <1>4, <2>3, <2>5, <3>2 DEF Read
    <3> QED
      BY <1>3, <2>5, <3>1, <3>2
  <2>6. misled \/ \A j \in Members : stale[j] <= Fresh => Known(j)'
    BY <2>1 DEF ServoHeardInv
  <2> QED
    BY <1>1, <2>4, <2>5, <2>6 DEF ServoHeardInv
<1>9. StopInv'
  <2>1. \A j : Rests(j) => Rests(j)'
    BY <1>1, <1>3, <1>4 DEF Rests
  <2> QED
    BY <1>1, <1>3, <2>1 DEF StopInv, StopHalts
<1> QED
  BY <1>6, <1>7, <1>8, <1>9

\* The steps of the poll thread and of the clock that read no servo.
LEMMA Passing ==
  ASSUME ServoInv, ServoPublish \/ ServoWake \/ ServoTick
  PROVE  ServoInv'
<1> USE DEF ServoInv, ShapeInv
<1>1. /\ UNCHANGED <<array, chain, misled, refreshing, link, bus, verb, halted>>
      /\ Members' = Members /\ Old' = Old
  BY DEF ServoPublish, ServoWake, ServoTick, chainVars, Members, Old
<1>2. 1 \in Members /\ Fresh \in Nat
  BY SmsStsAssumption DEF Members
<1>3. poller[1] = "publish" => poller[2] \in Members
  BY DEF ServoTypeOK, Off
<1>4. /\ poller' \in {Off, <<"sleep">>} \cup {<<"poll", j>> : j \in Members}
                     \cup {<<"publish", j>> : j \in Members}
      /\ stale' \in [Members -> 0..(Fresh + 1)]
      /\ \A j \in Members : stale'[j] <= Fresh =>
           stale[j] <= Fresh \/ (poller[1] = "publish" /\ j = poller[2])
      /\ poller'[1] = "publish" => poller' = poller
      /\ link
  <2>1. CASE ServoPublish
    <3>1. After(poller[2]) \in {<<"sleep">>} \cup {<<"poll", j>> : j \in Members}
      BY <1>3, <2>1, Afterwards DEF ServoPublish
    <3>2. link
      BY <2>1 DEF ServoPublish, ClosedInv, Off
    <3> QED
      BY <1>2, <1>3, <2>1, <3>1, <3>2 DEF ServoPublish, Snapshot, ServoTypeOK
  <2>2. CASE ServoWake
    BY <1>2, <2>2 DEF ServoWake, ServoTypeOK, ClosedInv, Off
  <2>3. CASE ServoTick
    <3>1. stale' \in [Members -> 0..(Fresh + 1)]
          /\ \A j \in Members : stale'[j] <= Fresh => stale[j] <= Fresh
      BY <1>2, <2>3 DEF ServoTick, ServoTypeOK
    <3> QED
      BY <2>3, <3>1 DEF ServoTick, ServoTypeOK, ClosedInv
  <2> QED
    BY <2>1, <2>2, <2>3
<1>5. ShapeInv'
  <2>1. poller' \in {Off, <<"sleep">>} \cup {<<"poll", j>> : j \in Members}
                     \cup {<<"publish", j>> : j \in Members}
    BY <1>4
  <2>2. stale' \in [Members -> 0..(Fresh + 1)]
    BY <1>4
  <2> QED
    BY <1>1, <2>1, <2>2 DEF ServoTypeOK
<1>6. ClosedInv' /\ IdFollows'
  <2>1. link
    BY <1>4
  <2> QED
    BY <1>1, <2>1 DEF ClosedInv, IdFollows
<1>7. ServoHeardInv'
  <2>1. \A j \in Members : stale'[j] <= Fresh =>
          stale[j] <= Fresh \/ (poller[1] = "publish" /\ j = poller[2])
    BY <1>4
  <2>2. poller'[1] = "publish" => poller' = poller
    BY <1>4
  <2> QED
    BY <1>1, <2>1, <2>2 DEF ServoHeardInv, Known, Read
<1>8. StopInv'
  BY <1>1 DEF StopInv, StopHalts, Rests
<1> QED
  BY <1>5, <1>6, <1>7, <1>8

-----------------------------------------------------------------------------
(* The theorems.                                                             *)

LEMMA ServoStarts ==
  ServoInit => ServoInv
<1> SUFFICES ASSUME ServoInit
             PROVE  ServoInv
  OBVIOUS
<1> USE DEF ServoInit
<1>1. /\ chain \in Seq(Servos) /\ chain \in Seq(Addresses) /\ Len(chain) > 0
      /\ Members = 1..Len(chain)
  <2>1. chain \in Seq(Servos) /\ chain # <<>>
    BY SmsStsAssumption
  <2> QED
    BY <2>1 DEF Addresses, Members
<1>2. bus \in Buses
  <2>1. [s \in Servos |-> s] \in [Servos -> Addresses]
    BY DEF Addresses
  <2> QED
    BY <2>1, NoneLate DEF Buses
<1>3. Old \in [Members -> 0..(Fresh + 1)] /\ \A i \in Members : ~(Old[i] <= Fresh)
  BY SmsStsAssumption DEF Old
<1>4. ShapeInv
  <2>1. array \in BOOLEAN /\ (array \/ Len(chain) = 1)
    OBVIOUS
  <2>2. bus.addr \in [Servos -> Addresses] /\ bus.moving \subseteq Servos /\ bus.heard \subseteq Servos
        /\ bus.mixed \subseteq Addresses
    BY <1>2 DEF Buses
  <2>4. ServoTypeOK
    <3>1. {array, link, refreshing, misled} \subseteq BOOLEAN
      BY <2>1
    <3>2. poller = Off /\ verb = NoVerb /\ halted = {} /\ stale = Old
      OBVIOUS
    <3> HIDE DEF ServoInit
    <3> QED
      BY <1>3, <2>2, <3>1, <3>2 DEF ServoTypeOK
  <2> QED
    BY <1>1, <1>2, <2>1, <2>4 DEF ShapeInv
<1>5. ClosedInv
  BY DEF ClosedInv
<1>6. IdFollows
  <2>1. chain[1] \in Servos
    BY <1>1
  <2>2. bus.addr[chain[1]] = chain[1]
    BY <2>1
  <2> QED
    BY <2>1, <2>2 DEF IdFollows, At
<1>7. ServoHeardInv
  BY <1>3, NoneLate DEF ServoHeardInv, Off
<1>8. StopInv
  BY DEF StopInv, StopHalts, NoVerb
<1> QED
  BY <1>4, <1>5, <1>6, <1>7, <1>8 DEF ServoInv

LEMMA ServoSteps ==
  ASSUME ServoInv, [ServoNext]_servoVars
  PROVE  ServoInv'
<1>1. CASE ServoConnect
  BY <1>1, Opened
<1>2. CASE ServoSetSpeed \/ ServoSetPosition \/ ServoSetMode \/ ServoEnableTorque
           \/ ServoSetPositions
  BY <1>2, ServoCommands
<1>3. CASE ServoSetMotorId
  BY <1>3, Renamed
<1>4. CASE ServoStopNext
  BY <1>4, StoppedNext
<1>5. CASE ServoStop \/ ServoStopRefresh \/ ServoEnd
  BY <1>5, Owning
<1>6. CASE ServoPoll
  BY <1>6, Polled
<1>7. CASE ServoPublish \/ ServoWake \/ ServoTick
  BY <1>7, Passing
<1>8. CASE UNCHANGED servoVars
  <2>1. UNCHANGED <<array, chain, misled, refreshing, poller, stale, link, bus, verb, halted>>
    BY <1>8 DEF servoVars, chainVars, pollVars
  <2>2. ShapeInv'
    BY <2>1 DEF ServoInv, ShapeInv, ServoTypeOK, Members
  <2>3. ClosedInv' /\ IdFollows' /\ ServoHeardInv' /\ StopInv'
    BY <2>1 DEF ServoInv, ClosedInv, IdFollows, ServoHeardInv, Known, Read, StopInv, StopHalts,
       Rests, Members, Old
  <2> QED
    BY <2>2, <2>3 DEF ServoInv
<1> QED
  BY <1>1, <1>2, <1>3, <1>4, <1>5, <1>6, <1>7, <1>8 DEF ServoNext, ServoOwner, ServoPoller

\* What holds of the servos, the line and the two threads after every step.
THEOREM ServoInvariance == ServoSpec => []ServoInv
<1>1. ServoInv /\ [ServoNext]_servoVars => ServoInv'
  BY ServoSteps
<1> QED
  BY <1>1, ServoStarts, PTL DEF ServoSpec

\* A Stop() of the array that was answered has stopped every servo of it, in
\* whatever order the poll thread reads meanwhile and whatever is lost or late; left
\* out are the ids for whose reply the array took a late one in this session.
THEOREM StopsHold == ServoSpec => []StopHalts
<1>1. ServoInv => StopHalts
  BY DEF ServoInv, StopInv
<1> QED
  BY <1>1, ServoInvariance, PTL

\* The single servo is called by the id it has, whatever was lost or late before; left
\* out is a servo whose answer to a new id was lost or late, or to which a late answer
\* was taken for it (SetMotorId).
THEOREM IdsFollow == ServoSpec => []IdFollows
<1>1. ServoInv => IdFollows
  BY DEF ServoInv
<1> QED
  BY <1>1, ServoInvariance, PTL

\* A chain of servos is healthy only when each of them was read, or a late reply
\* was taken for its own.
LEMMA Healthy ==
  ServoInv => NoSilentServo
<1> SUFFICES ASSUME ServoInv, ~misled
             PROVE  NoSilentServo
  BY DEF NoSilentServo
<1> DEFINE silent == {i \in Members : /\ At(bus, {chain[i]}) \cap bus.heard = {}
                                  /\ chain[i] \notin bus.mixed}
           said == {ChannelHealth(i) : i \in Members}
<1>1. \A i \in silent : ~(stale[i] <= Fresh)
  BY DEF ServoInv, ServoHeardInv, Known, Read
<1>2. \A i \in silent : ChannelHealth(i) # "ok" /\ ServoReads(i) # "ok"
  BY <1>1 DEF ChannelHealth, ServoReads, HealthFromFreshness, ReadStatus, IsFresh
<1>3. silent # {} => ServoHealth # "ok"
  <2> SUFFICES ASSUME NEW i \in silent, link
               PROVE  ServoHealth # "ok"
    BY DEF ServoHealth
  <2>1. \A j \in Members : ChannelHealth(j) \in {"ok", "degraded"}
    BY DEF ChannelHealth, HealthFromFreshness
  <2>2. ChannelHealth(i) = "degraded"
    BY <1>2, <2>1
  <2>3. said \subseteq {"ok", "degraded"} /\ "degraded" \in said
    BY <2>1, <2>2
  <2> DEFINE Worst(h) == \A g \in said : HealthRank[g] <= HealthRank[h]
  <2>4. HealthRank["ok"] = 0 /\ HealthRank["degraded"] = 1
    BY DEF HealthRank
  <2>5. ServoHealth = CHOOSE h \in said : Worst(h)
    BY DEF ServoHealth
  <2> HIDE DEF said
  <2>6. Worst("degraded") /\ ~Worst("ok")
    BY <2>3, <2>4
  <2> HIDE DEF Worst
  <2>7. ServoHealth \in said /\ Worst(ServoHealth)
    BY <2>3, <2>5, <2>6
  <2> QED
    BY <2>6, <2>7
<1> QED
  BY <1>2, <1>3 DEF NoSilentServo

\* A servo that was not read since the port was opened is not reported healthy,
\* and neither is the array it belongs to, unless a late reply was taken for its own
\* in this session, or the single servo's answer to a new id was lost or late.
THEOREM SilenceShows == ServoSpec => []NoSilentServo
BY Healthy, ServoInvariance, PTL

-----------------------------------------------------------------------------
(* The VESC driver.                                                          *)

\* How far the owner has come decides whether it is connected, and whether the
\* port may be open.
VescOwnerInv ==
  /\ owner \in {"opening", "opened"} => ~connected
  /\ owner \in {"stopped", "closed"} => connected
  /\ open => session > 0 /\ (owner = "opened" \/ (connected /\ owner \in {"idle", "stopped"}))

\* The session that is there or on its way.
InSession == connected \/ owner = "opened"

\* A fault that was reported stays in bus_fault_.
VescFaultInv ==
  /\ told \subseteq 1..session
  /\ reporting \in 0..session
  /\ InSession /\ session \in told => bus_fault

\* The monitor was marked in this session only.
VescHeardInv ==
  /\ owner = "opening" => ~ever
  /\ InSession /\ ever => heard_in = session

DriverInv == TypeOK /\ VescOwnerInv /\ VescFaultInv /\ VescHeardInv

LEMMA Envelope ==
  ASSUME NEW r \in Requests, r[1] = "brake" => r[2] \in 0..Limit
  PROVE  <<r[1], Clamped(r[2])>> \in Commands
<1> DEFINE k == r[1]
           v == r[2]
<1>1. k \in {"speed", "current", "brake"} /\ v \in Int /\ Limit \in Nat
      /\ (k = "brake" => v \in 0..Limit)
  BY VescAssumption
<1> HIDE DEF k, v
<1>2. Clamped(v) \in -Limit..Limit /\ (k = "brake" => Clamped(v) \in 0..Limit)
  BY <1>1 DEF Clamped
<1>3. <<k, Clamped(v)>> \in Commands
  BY <1>1, <1>2 DEF Commands
<1> QED
  BY <1>3 DEF k, v

LEMMA Coasts == Coast \in Commands
  BY VescAssumption DEF Coast, Commands

\* A command is taken by the port or by nobody.
LEMMA Sending ==
  ASSUME TypeOK, NEW cmd \in Commands, SendCmd(cmd)
  PROVE  /\ Port!LinkTypeOK' /\ sent' \in Seq(Commands) /\ asked' \in Commands \cup {<<>>}
         /\ open' = open /\ wire' = wire
<1> USE DEF TypeOK, Port!LinkTypeOK
<1>1. CASE open /\ Len(backlog) < Capacity
  <2>1. /\ accepted' = accepted + 1 /\ backlog' = Append(backlog, accepted') /\ open' = open
        /\ wire' = wire /\ sent' = Append(sent, cmd) /\ asked' = cmd
    BY <1>1 DEF SendCmd, Port!Accept
  <2>2. accepted' \in Nat
    BY <2>1
  <2>3. backlog' \in Seq(Nat)
    BY <2>1, <2>2, AppendProperties
  <2>4. sent' \in Seq(Commands)
    BY <2>1, AppendProperties
  <2> QED
    BY <2>1, <2>2, <2>3, <2>4
<1>2. CASE ~(open /\ Len(backlog) < Capacity)
  BY <1>2 DEF SendCmd, portVars
<1> QED
  BY <1>1, <1>2

LEMMA NoFrames == <<>> \in Seq(Nat) /\ <<>> \in Seq(Commands)
  BY EmptySeq

LEMMA VescStarts == Init => DriverInv
<1> SUFFICES ASSUME Init
             PROVE  DriverInv
  OBVIOUS
<1>1. Port!LinkTypeOK
  BY NoFrames DEF Init, Port!LinkInit, Port!LinkTypeOK
<1>2. TypeOK
  <2>1. sent \in Seq(Commands)
    BY NoFrames DEF Init
  <2>2. asked \in Commands \cup {<<>>}
    BY DEF Init
  <2>3. age \in 0..(Timeout + 1) /\ reporting \in 0..MaxSessions /\ session \in 0..MaxSessions
        /\ heard_in \in 0..MaxSessions
    BY VescAssumption DEF Init
  <2>4. /\ connected \in BOOLEAN /\ owner = "idle" /\ bus_fault \in BOOLEAN /\ ever \in BOOLEAN
        /\ told = {} /\ closed = {}
    BY DEF Init
  <2> QED
    BY <1>1, <2>1, <2>2, <2>3, <2>4 DEF TypeOK
<1>3. VescOwnerInv /\ VescFaultInv /\ VescHeardInv
  BY DEF Init, Port!LinkInit, VescOwnerInv, VescFaultInv, VescHeardInv, InSession
<1> QED
  BY <1>2, <1>3 DEF DriverInv

LEMMA VescSteps ==
  ASSUME DriverInv, [Next]_vars
  PROVE  DriverInv'
<1> USE VescAssumption DEF DriverInv, VescOwnerInv, VescFaultInv, VescHeardInv, InSession
<1>1. CASE Command \/ Stop
  <2>1. PICK cmd \in Commands : SendCmd(cmd)
    <3>1. CASE Command
      <4>1. PICK r \in Requests : (r[1] = "brake" => r[2] \in 0..Limit) /\ SendCmd(<<r[1], Clamped(r[2])>>)
        BY <3>1 DEF Command
      <4> QED
        BY <4>1, Envelope
    <3>2. CASE Stop
      BY <3>2, Coasts DEF Stop
    <3> QED
      BY <1>1, <3>1, <3>2
  <2>2. UNCHANGED <<reporting, session, connected, owner, bus_fault, ever, age, told, closed, heard_in>>
    BY <1>1 DEF Command, Stop, driverVars
  <2> QED
    BY <2>1, <2>2, Sending DEF TypeOK
<1>2. CASE Connect
  BY <1>2 DEF Connect, MonitorReset, TypeOK, portVars, historyVars, Port!LinkTypeOK
<1>3. CASE ConnectFailed
  BY <1>3 DEF ConnectFailed, TypeOK, portVars, historyVars, Port!LinkTypeOK
<1>4. CASE ConnectOpened
  <2>1. /\ open' /\ UNCHANGED <<backlog, accepted, wire>>
        /\ session' = session + 1 /\ session < MaxSessions
        /\ asked' = <<>> /\ owner = "opening" /\ owner' = "opened"
        /\ UNCHANGED <<sent, reporting, connected, bus_fault, ever, age, told, closed, heard_in>>
    BY <1>4 DEF ConnectOpened, Port!Connect
  <2>2. TypeOK'
    BY <2>1 DEF TypeOK, Port!LinkTypeOK
  <2>3. VescFaultInv'
    BY <2>1 DEF TypeOK
  <2>4. VescOwnerInv'
    <3>1. ~connected /\ session \in Nat
      BY <2>1 DEF TypeOK
    <3>2. ~connected' /\ session' > 0
      BY <2>1, <3>1
    <3>3. owner' = "opened"
      BY <2>1
    <3>4. owner' \notin {"stopped", "closed"}
      BY <3>3
    <3> QED
      BY <3>2, <3>3, <3>4
  <2>5. VescHeardInv'
    <3>1. ~ever'
      BY <2>1
    <3> QED
      BY <2>1, <3>1
  <2> QED
    BY <2>2, <2>3, <2>4, <2>5
<1>5. CASE ConnectDone
  BY <1>5 DEF ConnectDone, TypeOK, portVars, historyVars, Port!LinkTypeOK
<1>6. CASE DisconnectStop
  <2>1. SendCmd(Coast) /\ owner = "idle" /\ connected /\ owner' = "stopped"
        /\ UNCHANGED <<reporting, session, connected, bus_fault, ever, age, told, closed, heard_in>>
    BY <1>6 DEF DisconnectStop
  <2> QED
    BY <2>1, Sending, Coasts DEF TypeOK
<1>7. CASE DisconnectClose
  <2>0. open \in BOOLEAN
    BY DEF TypeOK, Port!LinkTypeOK
  <2>1. /\ open' = FALSE /\ UNCHANGED <<accepted, wire, sent>>
        /\ backlog' = backlog \/ backlog' = <<>>
        /\ closed' = closed \/ (open /\ closed' = closed \cup {session})
        /\ owner = "stopped" /\ owner' = "closed"
        /\ UNCHANGED <<reporting, session, connected, bus_fault, ever, age, asked, told, heard_in>>
    <3>1. CASE open
      BY <1>7, <3>1 DEF DisconnectClose, PortGone
    <3>2. CASE ~open
      <4>1. UNCHANGED <<open, backlog, accepted, wire, sent, closed>>
        BY <1>7, <3>2 DEF DisconnectClose, portVars
      <4>2. open = FALSE
        BY <2>0, <3>2
      <4> QED
        <5>1. /\ owner = "stopped" /\ owner' = "closed"
              /\ UNCHANGED <<reporting, session, connected, bus_fault, ever, age, asked, told, heard_in>>
          BY <1>7 DEF DisconnectClose
        <5>2. open' = FALSE
          BY <4>1, <4>2
        <5> QED
          BY <4>1, <5>1, <5>2
    <3> QED
      BY <3>1, <3>2
  <2>2. backlog' \in Seq(Nat)
    BY <2>1, NoFrames DEF TypeOK, Port!LinkTypeOK
  <2>3. TypeOK'
    <3>1. open => session \in Sessions
      BY DEF TypeOK, Sessions
    <3>2. closed' \subseteq Sessions
      <4>1. closed \subseteq Sessions
        BY DEF TypeOK
      <4>2. closed' = closed \/ (open /\ closed' = closed \cup {session})
        BY <2>1
      <4> QED
        BY <3>1, <4>1, <4>2
    <3> QED
      BY <2>1, <2>2, <3>2 DEF TypeOK, Port!LinkTypeOK
  <2> QED
    BY <2>1, <2>3
<1>8. CASE DisconnectDone
  BY <1>8 DEF DisconnectDone, MonitorReset, TypeOK, portVars, historyVars, Port!LinkTypeOK
<1>9. CASE HandleCanFrame
  BY <1>9 DEF HandleCanFrame, TypeOK, portVars, Port!LinkTypeOK
<1>10. CASE PortFaults
  <2>1. /\ open' = FALSE /\ backlog' = <<>> /\ UNCHANGED <<accepted, wire, sent>>
        /\ reporting' = session
        /\ UNCHANGED <<session, connected, owner, bus_fault, ever, age, asked, told, closed, heard_in>>
    BY <1>10 DEF PortFaults, PortGone, driverVars, historyVars
  <2>2. TypeOK'
    BY <2>1, NoFrames DEF TypeOK, Port!LinkTypeOK
  <2> QED
    BY <2>1, <2>2 DEF TypeOK
<1>11. CASE ErrorCallback
  BY <1>11 DEF ErrorCallback, TypeOK, portVars, Sessions, Port!LinkTypeOK
<1>12. CASE Transmit
  BY <1>12 DEF Transmit, Port!Transmit, TypeOK, driverVars, historyVars, Port!LinkTypeOK
<1>13. CASE Tick
  BY <1>13 DEF Tick, TypeOK, portVars, historyVars, Port!LinkTypeOK
<1>14. CASE UNCHANGED vars
  BY <1>14 DEF vars, portVars, driverVars, historyVars, TypeOK, Port!LinkTypeOK
<1> QED
  BY <1>1, <1>2, <1>3, <1>4, <1>5, <1>6, <1>7, <1>8, <1>9, <1>10, <1>11, <1>12, <1>13, <1>14
     DEF Next, Control

\* The inductive invariant of the driver.
THEOREM VescInvariance == Spec => []DriverInv
<1>1. DriverInv /\ [Next]_vars => DriverInv'
  BY VescSteps
<1> QED
  BY <1>1, VescStarts, PTL DEF Spec

\* Once the port's fault was reported, Health() is kFault until Disconnect().
THEOREM FaultsShow == Spec => []FaultStaysVisible
<1>1. DriverInv => FaultStaysVisible
  BY DEF DriverInv, VescFaultInv, InSession, FaultStaysVisible, Health
<1> QED
  BY <1>1, VescInvariance, PTL

\* Health() is kOk only when a status frame of this session was received.
THEOREM HealthIsHeard == Spec => []OkIsFresh
<1>1. DriverInv => OkIsFresh
  BY DEF DriverInv, VescHeardInv, InSession, OkIsFresh, Health
<1> QED
  BY <1>1, VescInvariance, PTL

\* No frame leaves while the driver is not connected: the motor that was left
\* is moved by nobody.
THEOREM VescSilence == Spec => SilentWhenDisconnected
<1>1. DriverInv /\ [Next]_vars => (owner = "idle" /\ ~connected => wire' = wire)
  <2> SUFFICES ASSUME DriverInv, [Next]_vars, owner = "idle", ~connected
               PROVE  wire' = wire
    OBVIOUS
  <2>1. ~open
    BY DEF DriverInv, VescOwnerInv
  <2> QED
    BY <2>1 DEF Next, Control, vars, portVars, historyVars, driverVars, Command, Stop, Ready, Connect,
       ConnectFailed, ConnectOpened, ConnectDone, DisconnectStop, DisconnectClose, DisconnectDone,
       HandleCanFrame, PortFaults, ErrorCallback, Transmit, Port!Transmit, Tick
<1> QED
  BY <1>1, VescInvariance, PTL DEF Spec, SilentWhenDisconnected

\* The last frame of an open port is the last command it took: the one that waits
\* at the end of the backlog, or the last that left.
LastIs ==
  open /\ asked # <<>> =>
    IF backlog = <<>> THEN wire # <<>> /\ sent[wire[Len(wire)]] = asked
    ELSE sent[backlog[Len(backlog)]] = asked

SentInv == DriverInv /\ Len(sent) = accepted /\ LastIs

LEMMA SentStarts == Init => SentInv
<1> SUFFICES ASSUME Init
             PROVE  SentInv
  OBVIOUS
<1>1. Len(sent) = accepted /\ asked = <<>>
  BY EmptySeq DEF Init, Port!LinkInit
<1> QED
  BY <1>1, VescStarts DEF SentInv, LastIs

\* Whatever is added at the end of a sequence is its last element.
LEMMA LastAdded ==
  ASSUME NEW S, NEW q \in Seq(S), NEW x \in S
  PROVE  /\ Append(q, x) # <<>> /\ Append(q, x) \in Seq(S)
         /\ Len(Append(q, x)) = Len(q) + 1 /\ Append(q, x)[Len(q) + 1] = x
<1>1. /\ Append(q, x) \in Seq(S) /\ Len(Append(q, x)) = Len(q) + 1
      /\ Append(q, x)[Len(q) + 1] = x /\ Len(q) \in Nat
  BY AppendProperties, LenProperties
<1>2. Len(<<>>) = 0
  BY EmptySeq
<1> QED
  BY <1>1, <1>2

\* A command that is taken is the last one; one that is refused leaves the last.
LEMMA LastSent ==
  ASSUME SentInv, NEW cmd \in Commands, SendCmd(cmd)
  PROVE  Len(sent)' = accepted' /\ LastIs'
<1>0. accepted \in Nat /\ backlog \in Seq(Nat) /\ sent \in Seq(Commands) /\ Len(sent) = accepted
  BY DEF SentInv, DriverInv, TypeOK, Port!LinkTypeOK
<1>1. CASE open /\ Len(backlog) < Capacity
  <2>1. /\ accepted' = accepted + 1 /\ backlog' = Append(backlog, accepted + 1)
        /\ sent' = Append(sent, cmd) /\ asked' = cmd
    BY <1>1 DEF SendCmd, Port!Accept
  <2>2. PICK n \in Nat : n = Len(backlog)
    BY <1>0, LenProperties
  <2>3. backlog' # <<>> /\ Len(backlog') = n + 1 /\ backlog'[n + 1] = accepted + 1
    BY <1>0, <2>1, <2>2, LastAdded
  <2>4. Len(sent') = accepted + 1 /\ sent'[accepted + 1] = cmd
    BY <1>0, <2>1, LastAdded
  <2>5. sent'[backlog'[Len(backlog')]] = asked'
    BY <2>1, <2>3, <2>4
  <2> QED
    BY <2>1, <2>3, <2>4, <2>5 DEF LastIs
<1>2. CASE ~(open /\ Len(backlog) < Capacity)
  <2>1. UNCHANGED <<open, backlog, accepted, wire, sent, asked>>
    BY <1>2 DEF SendCmd, portVars
  <2> QED
    BY <2>1 DEF SentInv, LastIs
<1> QED
  BY <1>1, <1>2

\* A frame that leaves is the last one only if none waits behind it.
LEMMA LastLeft ==
  ASSUME SentInv, Transmit
  PROVE  Len(sent)' = accepted' /\ LastIs'
<1>0. backlog \in Seq(Nat) /\ wire \in Seq(Nat)
  BY DEF SentInv, DriverInv, TypeOK, Port!LinkTypeOK
<1>1. /\ open /\ backlog # <<>> /\ open' = open
      /\ wire' = Append(wire, Head(backlog)) /\ backlog' = Tail(backlog)
      /\ UNCHANGED <<accepted, sent, asked>>
  BY DEF Transmit, Port!Transmit, historyVars
<1>2. Head(backlog) \in Nat /\ Head(backlog) = backlog[1]
  BY <1>0, <1>1, HeadTailProperties
<1>3. PICK n \in Nat : n = Len(backlog)
  BY <1>0, LenProperties
<1>4. /\ n # 0 /\ backlog' \in Seq(Nat) /\ Len(backlog') = n - 1
      /\ \A i \in 1..(n - 1) : backlog'[i] = backlog[i + 1]
  BY <1>0, <1>1, <1>3, HeadTailProperties, EmptySeq
<1>5. asked # <<>> => sent[backlog[n]] = asked
  BY <1>1, <1>3 DEF SentInv, LastIs
<1>6. Len(sent)' = accepted'
  BY <1>1 DEF SentInv
<1>7. CASE backlog' = <<>>
  <2>1. n = 1
    BY <1>4, <1>7, EmptySeq
  <2>2. PICK m \in Nat : m = Len(wire)
    BY <1>0, LenProperties
  <2>3. wire' # <<>> /\ Len(wire') = m + 1 /\ wire'[m + 1] = backlog[1]
    BY <1>0, <1>1, <1>2, <2>2, LastAdded
  <2>4. wire'[Len(wire')] = backlog[n]
    BY <2>1, <2>3
  <2> QED
    BY <1>1, <1>5, <1>6, <1>7, <2>3, <2>4 DEF LastIs
<1>8. CASE backlog' # <<>>
  <2>1. n - 1 \in 1..(n - 1)
    BY <1>3, <1>4, <1>8, EmptySeq
  <2>2. backlog'[n - 1] = backlog[(n - 1) + 1]
    BY <1>4, <2>1
  <2>3. backlog'[Len(backlog')] = backlog[n]
    BY <1>3, <1>4, <2>2
  <2> QED
    BY <1>1, <1>5, <1>6, <1>8, <2>3 DEF LastIs
<1> QED
  BY <1>7, <1>8

LEMMA SentSteps ==
  ASSUME SentInv, [Next]_vars
  PROVE  SentInv'
<1>0. DriverInv'
  BY VescSteps DEF SentInv
<1>1. CASE Command \/ Stop \/ DisconnectStop
  <2>1. PICK cmd \in Commands : SendCmd(cmd)
    <3>1. CASE Command
      <4>1. PICK r \in Requests : (r[1] = "brake" => r[2] \in 0..Limit) /\ SendCmd(<<r[1], Clamped(r[2])>>)
        BY <3>1 DEF Command
      <4> QED
        BY <4>1, Envelope
    <3>2. CASE Stop \/ DisconnectStop
      BY <3>2, Coasts DEF Stop, DisconnectStop
    <3> QED
      BY <1>1, <3>1, <3>2
  <2> QED
    BY <1>0, <2>1, LastSent DEF SentInv
<1>2. CASE Transmit
  BY <1>0, <1>2, LastLeft DEF SentInv
<1>3. CASE ConnectOpened
  <2>1. asked' = <<>> /\ UNCHANGED <<accepted, sent>>
    BY <1>3 DEF ConnectOpened, Port!Connect
  <2> QED
    BY <1>0, <2>1 DEF SentInv, LastIs
<1>4. CASE DisconnectClose \/ PortFaults
  <2>1. UNCHANGED <<accepted, sent>> /\ (open' = FALSE \/ UNCHANGED <<open, backlog, wire, asked>>)
    BY <1>4 DEF DisconnectClose, PortFaults, PortGone, portVars
  <2> QED
    BY <1>0, <2>1 DEF SentInv, LastIs
<1>5. CASE \/ Connect \/ ConnectFailed \/ ConnectDone \/ DisconnectDone \/ HandleCanFrame
           \/ ErrorCallback \/ Tick \/ UNCHANGED vars
  <2>1. UNCHANGED <<open, backlog, accepted, wire, sent, asked>>
    BY <1>5 DEF Connect, ConnectFailed, ConnectDone, DisconnectDone, HandleCanFrame, ErrorCallback,
       Tick, vars, portVars, historyVars
  <2> QED
    BY <1>0, <2>1 DEF SentInv, LastIs
<1> QED
  BY <1>1, <1>2, <1>3, <1>4, <1>5 DEF Next, Control

LEMMA SentObeys == SentInv => Obeys
  BY DEF SentInv, LastIs, Obeys, Motor, Last

\* While the link lives and nothing waits in it, the motor does what the last
\* command that was answered kOk asked for (SendCmd of vesc_can_interface.cpp over
\* SendFrame): for every set of requests, limit and capacity, and however many
\* commands were refused in between.
THEOREM VescObeys == Spec => []Obeys
  BY SentStarts, SentSteps, SentObeys, PTL DEF Spec

-----------------------------------------------------------------------------
(* The group of AKELC motors.                                                *)

Calls == [op : Ops, v : Targets, at : Axles, ok : BOOLEAN, sum : Int]

\* The speeds added up, member by member.
Adds(h, f, n) ==
  /\ h \in [0..n -> Int] /\ h[0] = 0
  /\ \A k \in 1..n : h[k] = h[k - 1] + f[k]

\* The call under way is a call of the group that only "speed" gives a target, and
\* what it has gathered so far is about the members that had their turn.
AnswerInv ==
  fan # Rest => /\ fan.op # "none"
                /\ failed \subseteq 1..(fan.at - 1)
                /\ fan.ok <=> failed = {} /\ (fan.at = 1 \/ fan.v \in RpmRange)
ServedInv ==
  fan # Rest /\ fan.op # "read" =>
    \A b \in 1..(fan.at - 1) : b \notin failed => Serves(spin[b], fan.v)
SumInv ==
  fan # Rest /\ fan.op = "read" /\ fan.ok =>
    \A h : Adds(h, spin, Len(Motors)) => fan.sum = h[fan.at - 1]
CalmInv ==
  /\ fan.op # "speed" => fan.v = 0
  /\ calm => fan.v = 0 /\ \A a \in Axles : spin[a] = 0

GroupInv ==
  /\ GroupTypeOK /\ fan \in Calls /\ result \in Calls
  /\ AnswerInv /\ ServedInv /\ SumInv /\ CalmInv

LEMMA GroupMembers == \E n \in Nat \ {0} : Axles = 1..n /\ Len(Motors) = n
<1>1. Motors \in Seq(Range(Motors)) /\ Motors # <<>>
  BY MotorGroupAssumption
<1>2. Axles = 1..Len(Motors) /\ Len(Motors) \in Nat /\ Len(Motors) # 0
  BY <1>1, LenProperties, EmptySeq DEF Axles
<1> QED
  BY <1>2

LEMMA RpmValues == \A v : v \in RpmRange <=> v \in Int /\ -32767 <= v /\ v <= 32767
<1>1. RpmMax \in Int
  BY DEF RpmMax
<1>2. \A v : v \in RpmRange <=> v \in Int /\ -RpmMax <= v /\ v <= RpmMax
  BY <1>1 DEF RpmRange
<1>3. -32767 = -RpmMax /\ 32767 = RpmMax
  BY DEF RpmMax
<1> QED
  BY <1>2, <1>3

\* A register takes the target itself, or the nearest one it can hold.
LEMMA TakenTarget ==
  ASSUME NEW v \in Int
  PROVE  /\ Wrap16(Saturate(v)) \in RpmRange
         /\ Serves(Wrap16(Saturate(v)), v)
         /\ Saturate(v) = v <=> v \in RpmRange
<1>1. PICK s \in Int : s = Saturate(v) /\ -32767 <= s /\ s <= 32767
  BY DEF Saturate, RpmMax
<1>2. Wrap16(s) = s
  BY <1>1 DEF Wrap16
<1>3. Saturate(v) = v <=> v \in RpmRange
  BY RpmValues DEF Saturate, RpmMax
<1>4. Serves(s, v)
  BY <1>1, <1>3 DEF Saturate, Serves, RpmMax
<1> QED
  BY <1>1, <1>2, <1>3, <1>4, RpmValues

LEMMA TwoRegisters ==
  ASSUME NEW a \in Axles, spin[a] \in RpmRange
  PROVE  GetActualRpm(a) = spin[a]
<1>1. PICK s \in Int : s = spin[a] /\ -32767 <= s /\ s <= 32767
  BY RpmValues
<1>2. Registers(s)[1] = IF s < 0 THEN 65535 ELSE 0
  <2>1. PICK d \in Int : d = s \div 65536
    BY <1>1
  <2>2. d = IF s < 0 THEN -1 ELSE 0
    BY <1>1, <2>1
  <2>3. d % 65536 = IF s < 0 THEN 65535 ELSE 0
    BY <2>2
  <2> QED
    BY <2>1, <2>3 DEF Registers
<1>3. Registers(s)[2] = IF s < 0 THEN s + 65536 ELSE s
  <2>1. s % 65536 = IF s < 0 THEN s + 65536 ELSE s
    BY <1>1
  <2> QED
    BY <2>1 DEF Registers
<1> QED
  BY <1>1, <1>2, <1>3 DEF GetActualRpm

LEMMA Writing ==
  ASSUME GroupTypeOK, NEW a \in Axles, NEW v \in Int, NEW o, Write(a, v, o)
  PROVE  /\ spin' \in [Axles -> RpmRange]
         /\ \A b \in Axles : b # a => spin'[b] = spin[b]
         /\ o # "lost" => Serves(spin'[a], v)
         /\ v = 0 /\ spin[a] = 0 => spin'[a] = 0
<1>1. spin \in [Axles -> RpmRange]
  BY DEF GroupTypeOK
<1>2. PICK s \in RpmRange : s = Wrap16(Saturate(v)) /\ Serves(s, v)
  BY TakenTarget, RpmValues
<1>3. spin' = IF o = "lost" THEN spin ELSE [spin EXCEPT ![a] = s]
  BY <1>2 DEF Write
<1>4. v = 0 => s = 0
  BY <1>2, RpmValues DEF Serves
<1> QED
  BY <1>1, <1>2, <1>3, <1>4

LEMMA Marking ==
  ASSUME GroupTypeOK, NEW a \in Axles, NEW o, Mark(a, o)
  PROVE  heard' \in [Axles -> 0..OldNews]
  BY MotorGroupAssumption DEF GroupTypeOK, Mark, OldNews

LEMMA RestIsACall == Rest \in Calls /\ Rest.op = "none" /\ Rest.v = 0 /\ Rest.at = 1
<1>1. 1 \in Axles
  BY GroupMembers
<1> QED
  BY <1>1, MotorGroupAssumption DEF Rest, Calls, Ops

LEMMA GroupStarts == GroupInit => GroupInv
<1> SUFFICES ASSUME GroupInit
             PROVE  GroupInv
  OBVIOUS
<1>1. OldNews \in Nat /\ OldNews \in 0..OldNews
  BY MotorGroupAssumption DEF OldNews
<1>2. fan = Rest /\ fan \in Calls /\ fan.op = "none" /\ fan.v = 0 /\ result = Rest
  BY RestIsACall DEF GroupInit
<1>3. GroupTypeOK
  <2>1. heard \in [Axles -> 0..OldNews] /\ spin \in [Axles -> RpmRange]
    BY <1>1, RpmValues DEF GroupInit
  <2>2. online \in [Axles -> BOOLEAN] /\ line \in BOOLEAN /\ calm \in BOOLEAN
    BY DEF GroupInit
  <2>3. failed \subseteq Axles /\ left \subseteq Axles
    BY DEF GroupInit
  <2>4. fan.op \in Ops /\ fan.at \in Axles /\ fan.v \in Targets
    BY <1>2 DEF Calls
  <2> QED
    BY <2>1, <2>2, <2>3, <2>4 DEF GroupTypeOK
<1>4. calm = FALSE
  BY DEF GroupInit
<1> QED
  BY <1>2, <1>3, <1>4 DEF GroupInv, AnswerInv, ServedInv, SumInv, CalmInv

\* What a step does that no call of the group is under way for, or that leaves it
\* and the targets alone.
LEMMA BesideTheCall ==
  ASSUME GroupInv, GroupTypeOK', UNCHANGED <<fan, failed, result>>,
         UNCHANGED spin \/ Quiet,
         calm' => calm /\ \A a \in Axles : spin'[a] = 0
  PROVE  GroupInv'
<1>1. fan' \in Calls /\ result' \in Calls /\ AnswerInv'
  BY DEF GroupInv, AnswerInv
<1>2. CalmInv'
  BY DEF GroupInv, CalmInv
<1>3. CASE UNCHANGED spin
  BY <1>1, <1>2, <1>3 DEF GroupInv, ServedInv, SumInv
<1>4. CASE Quiet
  BY <1>1, <1>2, <1>4 DEF GroupInv, ServedInv, SumInv, Quiet
<1> QED
  BY <1>3, <1>4

LEMMA AkelcSteps ==
  ASSUME GroupInv,
         AkelcConnect \/ AkelcDisconnect \/ AkelcWrite \/ AkelcRead \/ GroupTick \/ UNCHANGED groupVars
  PROVE  GroupInv'
<1>0. GroupTypeOK /\ OldNews \in Nat
  BY MotorGroupAssumption DEF GroupInv, OldNews
<1>1. CASE AkelcConnect
  <2>1. PICK a \in Axles, answers \in BOOLEAN :
           /\ heard' = [heard EXCEPT ![a] = IF answers THEN 0 ELSE OldNews]
           /\ online' = [online EXCEPT ![a] = answers]
           /\ left' = left \ {a}
    BY <1>1 DEF AkelcConnect, IsReachable
  <2>2. line' = TRUE /\ UNCHANGED <<spin, fan, failed, result, calm>>
    BY <1>1 DEF AkelcConnect, PortOpen
  <2>3. GroupTypeOK'
    BY <1>0, <2>1, <2>2 DEF GroupTypeOK
  <2> QED
    BY <2>2, <2>3, BesideTheCall DEF GroupInv, CalmInv
<1>2. CASE AkelcDisconnect
  <2>1. PICK a \in Axles, o \in Outcomes :
           /\ Write(a, 0, o)
           /\ online' = [online EXCEPT ![a] = FALSE]
           /\ left' = IF spin'[a] # 0 THEN left \cup {a} ELSE left
    BY <1>2 DEF AkelcDisconnect, StopThenClose
  <2>2. line' = FALSE /\ Quiet /\ UNCHANGED <<heard, fan, failed, result, calm>>
    BY <1>2 DEF AkelcDisconnect
  <2>3. /\ spin' \in [Axles -> RpmRange]
        /\ \A b \in Axles : b # a => spin'[b] = spin[b]
        /\ spin[a] = 0 => spin'[a] = 0
    BY <1>0, <2>1, Writing
  <2>4. GroupTypeOK'
    BY <1>0, <2>1, <2>2, <2>3 DEF GroupTypeOK
  <2>5. calm' => calm /\ \A b \in Axles : spin'[b] = 0
    BY <2>2, <2>3 DEF GroupInv, CalmInv
  <2> QED
    BY <2>2, <2>4, <2>5, BesideTheCall
<1>3. CASE AkelcWrite
  <2>1. PICK a \in Axles, v \in Targets, o \in Outcomes :
           Write(a, v, o) /\ calm' = (calm /\ spin'[a] = 0)
    BY <1>3 DEF AkelcWrite
  <2>2. Quiet /\ UNCHANGED <<line, online, heard, fan, failed, result, left>>
    BY <1>3 DEF AkelcWrite, statVars
  <2>3. /\ spin' \in [Axles -> RpmRange]
        /\ \A b \in Axles : b # a => spin'[b] = spin[b]
    BY <1>0, <2>1, Writing, MotorGroupAssumption
  <2>4. calm' \in BOOLEAN
    BY <2>1
  <2>5. GroupTypeOK'
    BY <1>0, <2>2, <2>3, <2>4 DEF GroupTypeOK
  <2>6. calm' => calm /\ \A b \in Axles : spin'[b] = 0
    BY <2>1, <2>3 DEF GroupInv, CalmInv
  <2> QED
    BY <2>2, <2>5, <2>6, BesideTheCall
<1>4. CASE AkelcRead \/ GroupTick
  <2>1. UNCHANGED <<line, online, spin, fan, calm, failed, result, left>>
    BY <1>4 DEF AkelcRead, GroupTick, statVars
  <2>2. heard' \in [Axles -> 0..OldNews]
    <3>1. CASE AkelcRead
      BY <1>0, <3>1, Marking DEF AkelcRead
    <3>2. CASE GroupTick
      <4>1. heard' = [a \in Axles |-> IF heard[a] < OldNews THEN heard[a] + 1 ELSE OldNews]
        BY <3>2 DEF GroupTick
      <4> QED
        BY <1>0, <4>1 DEF GroupTypeOK
    <3> QED
      BY <1>4, <3>1, <3>2
  <2>3. GroupTypeOK'
    BY <1>0, <2>1, <2>2 DEF GroupTypeOK
  <2> QED
    BY <2>1, <2>3, BesideTheCall DEF GroupInv, CalmInv
<1>5. CASE UNCHANGED groupVars
  BY <1>5 DEF groupVars, GroupInv, GroupTypeOK, AnswerInv, ServedInv, SumInv, CalmInv
<1> QED
  BY <1>1, <1>2, <1>3, <1>4, <1>5

LEMMA CallStarts ==
  ASSUME GroupInv, GroupCall
  PROVE  GroupInv' /\ result'.op = "none"
<1>1. PICK op \in Ops \ {"none"}, v \in Targets :
         (op = "speed" \/ v = 0) /\ fan' = [Rest EXCEPT !.op = op, !.v = v]
  BY DEF GroupCall
<1>2. /\ failed' = {} /\ result' = Rest
      /\ calm' = (calm /\ fan'.v = 0)
      /\ UNCHANGED <<line, online, heard, spin, left>>
  BY DEF GroupCall
<1>3. 1 \in Axles
  BY GroupMembers
<1>4. fan' = [op |-> op, v |-> v, at |-> 1, ok |-> TRUE, sum |-> 0]
  BY <1>1 DEF Rest
<1>5. fan'.op = op /\ fan'.v = v /\ fan'.at = 1 /\ fan'.ok = TRUE /\ fan'.sum = 0
  BY <1>4
<1>6. fan' \in Calls /\ result' \in Calls /\ result'.op = "none"
  BY <1>2, <1>3, <1>4, RestIsACall DEF Calls
<1>7. calm' \in BOOLEAN
  BY <1>2
<1>8. GroupTypeOK'
  BY <1>2, <1>3, <1>5, <1>7 DEF GroupInv, GroupTypeOK
<1>9. AnswerInv'
  BY <1>1, <1>2, <1>5 DEF AnswerInv
<1>10. ServedInv'
  BY <1>5 DEF ServedInv
<1>11. SumInv'
  <2>1. \A h : Adds(h, spin, Len(Motors)) => fan'.sum = h[fan'.at - 1]
    BY <1>5 DEF Adds
  <2> QED
    BY <1>2, <2>1 DEF SumInv
<1>12. CalmInv'
  BY <1>1, <1>2, <1>5 DEF GroupInv, CalmInv
<1> QED
  BY <1>6, <1>8, <1>9, <1>10, <1>11, <1>12 DEF GroupInv

\* What a member's turn leaves: the call, and what it has gathered with that member.
TurnTaken(done) ==
  /\ done \in Calls /\ done.op = fan.op /\ done.v = fan.v /\ done.at = fan.at
  /\ spin' \in [Axles -> RpmRange] /\ heard' \in [Axles -> 0..OldNews]
  /\ failed' \subseteq 1..fan.at
  /\ done.ok <=> failed' = {} /\ fan.v \in RpmRange
  /\ fan.op # "read" => \A b \in 1..fan.at : b \notin failed' => Serves(spin'[b], fan.v)
  /\ fan.op = "read" => spin' = spin
  /\ fan.op = "read" /\ done.ok =>
       \A h : Adds(h, spin, Len(Motors)) => done.sum = h[fan.at]
  /\ calm => \A b \in Axles : spin'[b] = 0

CallGoesOn(done) ==
  IF fan.at = Len(Motors)
  THEN fan' = Rest /\ result' = done /\ calm' = (calm \/ (fan.op = "stop" /\ done.ok))
  ELSE fan' = [done EXCEPT !.at = fan.at + 1] /\ UNCHANGED <<result, calm>>

LEMMA MembersTurn ==
  ASSUME GroupInv, GroupNext
  PROVE  \E done : TurnTaken(done) /\ CallGoesOn(done)
<1> DEFINE a == fan.at
           v == fan.v
<1>1. PICK o \in IF online[a] THEN Outcomes ELSE {"lost"} :
         LET ok   == o = "taken" /\ Saturate(v) = v
             done == [fan EXCEPT !.ok = @ /\ ok,
                                 !.sum = IF fan.op = "read" /\ ok THEN @ + GetActualRpm(a) ELSE @]
         IN  /\ IF fan.op = "read" THEN Mark(a, o) /\ UNCHANGED spin
                ELSE Write(a, v, o) /\ UNCHANGED heard
             /\ failed' = IF o = "taken" THEN failed ELSE failed \cup {a}
             /\ CallGoesOn(done)
  BY DEF GroupNext, NoteMemberStatus, LastTurn, CallGoesOn
<1> DEFINE ok   == o = "taken" /\ Saturate(v) = v
           done == [fan EXCEPT !.ok = @ /\ ok,
                               !.sum = IF fan.op = "read" /\ ok THEN @ + GetActualRpm(a) ELSE @]
<1>2. /\ a \in Axles /\ v \in Targets /\ v \in Int /\ fan.op \in Ops /\ fan.ok \in BOOLEAN
      /\ fan.sum \in Int /\ fan \in Calls /\ fan # Rest
  BY MotorGroupAssumption DEF GroupInv, Calls, GroupNext, Quiet
<1>3. PICK n \in Nat \ {0} : Axles = 1..n /\ Len(Motors) = n
  BY GroupMembers
<1>4. GroupTypeOK /\ spin \in [Axles -> RpmRange] /\ heard \in [Axles -> 0..OldNews]
  BY DEF GroupInv, GroupTypeOK
<1>5. ok \in BOOLEAN /\ (ok <=> o = "taken" /\ v \in RpmRange)
  BY <1>2, TakenTarget
<1>6. GetActualRpm(a) = spin[a] /\ spin[a] \in Int
  BY <1>2, <1>4, TwoRegisters, RpmValues
<1>7. CallGoesOn(done)
  BY <1>1
<1>8. /\ fan.op = "read" => Mark(a, o) /\ UNCHANGED spin
      /\ fan.op # "read" => Write(a, v, o) /\ UNCHANGED heard
      /\ failed' = IF o = "taken" THEN failed ELSE failed \cup {a}
  BY <1>1
<1> HIDE DEF ok
<1>9. /\ done.op = fan.op /\ done.v = v /\ done.at = a /\ (done.ok <=> fan.ok /\ ok)
      /\ done.sum = IF fan.op = "read" /\ ok THEN fan.sum + spin[a] ELSE fan.sum
      /\ done \in Calls
  <2>1. PICK k \in BOOLEAN : k = (fan.ok /\ ok)
    OBVIOUS
  <2>2. PICK sum \in Int :
           sum = IF fan.op = "read" /\ ok THEN fan.sum + GetActualRpm(a) ELSE fan.sum
    BY <1>2, <1>6
  <2>3. done = [fan EXCEPT !.ok = k, !.sum = sum]
    BY <2>1, <2>2
  <2>4. done \in Calls /\ done.ok = k /\ done.sum = sum
        /\ done.op = fan.op /\ done.v = fan.v /\ done.at = fan.at
    <3> HIDE DEF done
    <3> QED
      BY <1>2, <2>3 DEF Calls
  <2> HIDE DEF done
  <2> QED
    BY <1>6, <2>1, <2>2, <2>4
<1> HIDE DEF done, a, v
<1>10. spin' \in [Axles -> RpmRange] /\ heard' \in [Axles -> 0..OldNews]
  <2>1. CASE fan.op = "read"
    BY <1>2, <1>4, <1>8, <2>1, Marking
  <2>2. CASE fan.op # "read"
    BY <1>2, <1>4, <1>8, <2>2, Writing
  <2> QED
    BY <2>1, <2>2
<1>11. /\ failed \subseteq 1..(a - 1)
       /\ fan.ok <=> failed = {} /\ (a = 1 \/ v \in RpmRange)
  BY <1>2 DEF GroupInv, AnswerInv, a, v
<1>12. failed' \subseteq 1..a
  BY <1>2, <1>3, <1>8, <1>11
<1>13. done.ok <=> failed' = {} /\ v \in RpmRange
  BY <1>5, <1>8, <1>9, <1>11
<1>14. ASSUME fan.op # "read", NEW b \in 1..a, b \notin failed'
       PROVE  Serves(spin'[b], v)
  <2>1. Write(a, v, o) /\ (o # "taken" => a \in failed')
    BY <1>8, <1>14
  <2>2. CASE b = a
    BY <1>2, <1>4, <1>14, <2>1, <2>2, Writing
  <2>3. CASE b # a
    <3>1. b \in 1..(a - 1) /\ b \in Axles /\ b \notin failed
      BY <1>2, <1>3, <1>8, <1>14, <2>3
    <3>2. Serves(spin[b], v)
      BY <1>2, <1>14, <3>1 DEF GroupInv, ServedInv, a, v
    <3>3. spin'[b] = spin[b]
      BY <1>2, <1>4, <2>1, <2>3, <3>1, Writing
    <3> QED
      BY <3>2, <3>3
  <2> QED
    BY <2>2, <2>3
<1>15. ASSUME fan.op = "read", done.ok, NEW h, Adds(h, spin, n)
       PROVE  done.sum = h[a]
  <2>1. fan.ok /\ ok
    BY <1>9, <1>15
  <2>2. fan.sum = h[a - 1]
    BY <1>2, <1>3, <1>15, <2>1 DEF GroupInv, SumInv, a
  <2>3. h[a] = h[a - 1] + spin[a]
    BY <1>2, <1>3, <1>15 DEF Adds
  <2> QED
    BY <1>9, <1>15, <2>1, <2>2, <2>3
<1>16. ASSUME calm, NEW b \in Axles
       PROVE  spin'[b] = 0
  <2>1. v = 0 /\ spin[b] = 0 /\ spin[a] = 0
    BY <1>2, <1>16 DEF GroupInv, CalmInv, v
  <2>2. CASE fan.op = "read"
    BY <1>8, <2>1, <2>2
  <2>3. CASE fan.op # "read"
    BY <1>2, <1>4, <1>8, <2>1, <2>3, Writing
  <2> QED
    BY <2>2, <2>3
<1>17. fan.op = "read" => spin' = spin
  BY <1>8
<1>18. TurnTaken(done)
  BY <1>3, <1>9, <1>10, <1>12, <1>13, <1>14, <1>15, <1>16, <1>17 DEF TurnTaken, a, v
<1> QED
  BY <1>7, <1>18

LEMMA CallSteps ==
  ASSUME GroupInv, GroupNext
  PROVE  GroupInv'
<1>1. PICK done : TurnTaken(done) /\ CallGoesOn(done)
  BY MembersTurn
<1>2. PICK n \in Nat \ {0} : Axles = 1..n /\ Len(Motors) = n
  BY GroupMembers
<1>3. UNCHANGED <<line, online, left>> /\ fan # Rest
  BY DEF GroupNext, Quiet
<1>4. fan \in Calls /\ fan.at \in Axles /\ fan.op # "none" /\ done \in Calls /\ fan.v \in Targets
  BY <1>1, <1>3 DEF GroupInv, AnswerInv, Calls, TurnTaken
<1>5. PICK a \in 1..n : a = fan.at
  BY <1>2, <1>4
<1>6. /\ line' \in BOOLEAN /\ online' \in [Axles -> BOOLEAN] /\ left' \subseteq Axles
      /\ heard' \in [Axles -> 0..OldNews] /\ spin' \in [Axles -> RpmRange]
      /\ failed' \subseteq Axles
  <2>1. line' \in BOOLEAN /\ online' \in [Axles -> BOOLEAN] /\ left' \subseteq Axles
    BY <1>3 DEF GroupInv, GroupTypeOK
  <2>2. heard' \in [Axles -> 0..OldNews] /\ spin' \in [Axles -> RpmRange]
    BY <1>1 DEF TurnTaken
  <2>3. failed' \subseteq 1..a
    BY <1>1, <1>5 DEF TurnTaken
  <2>4. 1..a \subseteq Axles
    BY <1>2
  <2> QED
    BY <2>1, <2>2, <2>3, <2>4
<1>7. CASE a = n
  <2>1. fan' = Rest /\ result' = done /\ calm' = (calm \/ (fan.op = "stop" /\ done.ok))
    BY <1>1, <1>2, <1>5, <1>7 DEF CallGoesOn
  <2>2. fan' \in Calls /\ fan'.op = "none" /\ fan'.v = 0 /\ fan'.at \in Axles /\ fan'.v \in Targets
        /\ fan'.op \in Ops
    BY <2>1, RestIsACall DEF Calls
  <2>3. calm' \in BOOLEAN
    BY <2>1 DEF GroupInv, GroupTypeOK
  <2>4. ASSUME calm', NEW b \in Axles PROVE spin'[b] = 0
    <3>1. CASE calm
      BY <1>1, <3>1 DEF TurnTaken
    <3>2. CASE fan.op = "stop" /\ done.ok
      <4>1. fan.v = 0 /\ failed' = {}
        BY <1>1, <3>2 DEF GroupInv, CalmInv, TurnTaken
      <4>2. Serves(spin'[b], 0)
        BY <1>1, <1>2, <1>5, <1>7, <3>2, <4>1 DEF TurnTaken
      <4> QED
        BY <4>2, RpmValues DEF Serves
    <3> QED
      BY <2>1, <2>4, <3>1, <3>2
  <2>5. GroupTypeOK'
    BY <1>6, <2>2, <2>3 DEF GroupTypeOK
  <2>6. CalmInv'
    BY <2>2, <2>4 DEF CalmInv
  <2> QED
    BY <1>4, <2>1, <2>2, <2>5, <2>6 DEF GroupInv, AnswerInv, ServedInv, SumInv
<1>8. CASE a # n
  <2>1. fan' = [done EXCEPT !.at = a + 1] /\ UNCHANGED <<result, calm>>
    BY <1>1, <1>2, <1>5, <1>8 DEF CallGoesOn
  <2>2. a + 1 \in Axles /\ (a + 1) - 1 = a /\ a + 1 # 1
    BY <1>2, <1>8
  <2>3. /\ fan' \in Calls /\ fan'.at = a + 1 /\ fan'.op = fan.op /\ fan'.v = fan.v
        /\ fan'.ok = done.ok /\ fan'.sum = done.sum
    BY <1>1, <1>4, <2>1, <2>2 DEF Calls, TurnTaken
  <2>4. fan'.at \in Axles /\ fan'.v \in Targets /\ fan'.op \in Ops
    BY <2>3 DEF Calls
  <2>5. GroupTypeOK'
    BY <1>6, <2>1, <2>4 DEF GroupInv, GroupTypeOK
  <2>6. AnswerInv'
    <3>1. failed' \subseteq 1..(fan'.at - 1)
      BY <1>1, <1>5, <2>2, <2>3 DEF TurnTaken
    <3>2. done.ok <=> failed' = {} /\ fan.v \in RpmRange
      BY <1>1 DEF TurnTaken
    <3>3. fan'.v \in RpmRange <=> fan.v \in RpmRange
      BY <2>3
    <3> QED
      BY <1>4, <2>2, <2>3, <3>1, <3>2, <3>3 DEF AnswerInv
  <2>7. ServedInv'
    <3>1. fan.op # "read" => \A b \in 1..a : b \notin failed' => Serves(spin'[b], fan.v)
      BY <1>1, <1>5 DEF TurnTaken
    <3> QED
      BY <2>2, <2>3, <3>1 DEF ServedInv
  <2>8. SumInv'
    <3>1. ASSUME fan.op = "read", done.ok, NEW h, Adds(h, spin', Len(Motors))
          PROVE  done.sum = h[a]
      BY <1>1, <1>5, <3>1 DEF TurnTaken
    <3>2. fan'.op = "read" /\ fan'.ok =>
            \A h : Adds(h, spin', Len(Motors)) => fan'.sum = h[fan'.at - 1]
      BY <2>2, <2>3, <3>1
    <3> QED
      BY <3>2 DEF SumInv
  <2>9. CalmInv'
    BY <1>1, <2>1, <2>3 DEF GroupInv, CalmInv, TurnTaken
  <2>10. result' \in Calls
    BY <2>1 DEF GroupInv
  <2> QED
    BY <2>3, <2>5, <2>6, <2>7, <2>8, <2>9, <2>10 DEF GroupInv
<1> QED
  BY <1>7, <1>8

LEMMA GroupStepsKeep ==
  ASSUME GroupInv, [GroupSteps]_groupVars
  PROVE  GroupInv'
  BY AkelcSteps, CallStarts, CallSteps DEF GroupSteps

\* The sum of a function on 1..n, in whatever order the members are taken.
InAnyOrder(g, f, n) ==
  \A s \in SUBSET (1..n) : \A x \in s : g[s] = f[x] + g[s \ {x}]
SumsTo(g, f, n) ==
  g \in [SUBSET (1..n) -> Int] /\ g[{}] = 0 /\ InAnyOrder(g, f, n)

LEMMA SumExists ==
  ASSUME NEW n \in Nat, NEW f \in [1..n -> Int]
  PROVE  \E g : SumsTo(g, f, n)
<1> DEFINE step == [p \in Int \X (1..n) |-> p[1] + f[p[2]]]
<1>1. step \in [Int \X (1..n) -> Int]
  OBVIOUS
<1>2. \A z \in Int, i \in 1..n : step[<<z, i>>] = z + f[i]
  OBVIOUS
<1> HIDE DEF step
<1>3. PICK g : FoldsTo(g, Int, 0, step, n)
  BY <1>1, 0 \in Int, FoldExists
<1>4. g \in [SUBSET (1..n) -> Int] /\ g[{}] = 0
  BY <1>3 DEF FoldsTo
<1>5. ASSUME NEW s \in SUBSET (1..n), s # {}
      PROVE  Max(s) \in s /\ g[s] = g[s \ {Max(s)}] + f[Max(s)]
  <2>1. Max(s) \in s
    BY <1>5, MaxIs
  <2>2. g[s] = step[<<g[s \ {Max(s)}], Max(s)>>]
    BY <1>3, <1>5 DEF FoldsTo
  <2>3. g[s \ {Max(s)}] \in Int
    BY <1>4
  <2> QED
    BY <1>2, <2>1, <2>2, <2>3
<1> DEFINE T == {k \in Nat : k <= n => InAnyOrder(g, f, k)}
<1>6. 0 \in T
  BY DEF InAnyOrder
<1>7. ASSUME NEW k \in Nat, k \in T PROVE k + 1 \in T
  <2> SUFFICES ASSUME k + 1 <= n
               PROVE  InAnyOrder(g, f, k + 1)
    OBVIOUS
  <2> SUFFICES ASSUME NEW s \in SUBSET (1..(k + 1)), NEW x \in s
               PROVE  g[s] = f[x] + g[s \ {x}]
    BY Zenon DEF InAnyOrder
  <2>1. \A r \in SUBSET (1..k) : \A y \in r : g[r] = f[y] + g[r \ {y}]
    <3>1. k <= n
      OBVIOUS
    <3>2. InAnyOrder(g, f, k)
      BY <1>7, <3>1
    <3> QED
      BY <3>2 DEF InAnyOrder
  <2>2. CASE k + 1 \notin s
    <3>1. s \in SUBSET (1..k)
      BY <2>2
    <3> QED
      BY <2>1, <3>1
  <2>3. CASE x = k + 1
    <3>1. Max(s) = k + 1 /\ s \in SUBSET (1..n) /\ s # {}
      BY <2>3, MaxOf
    <3>2. f[k + 1] \in Int /\ g[s \ {k + 1}] \in Int
      <4>1. s \ {k + 1} \in SUBSET (1..n)
        BY <3>1
      <4> QED
        BY <1>4, <4>1
    <3> QED
      BY <1>5, <2>3, <3>1, <3>2
  <2>4. CASE k + 1 \in s /\ x # k + 1
    <3> DEFINE r == s \ {k + 1}
               q == s \ {x}
    <3>1. /\ s \in SUBSET (1..n) /\ r \in SUBSET (1..k) /\ x \in r /\ r \ {x} = q \ {k + 1}
          /\ q \in SUBSET (1..(k + 1)) /\ q \in SUBSET (1..n) /\ k + 1 \in q
      BY <2>4
    <3>2. Max(s) = k + 1 /\ Max(q) = k + 1
      BY <2>4, <3>1, MaxOf
    <3>3. g[s] = g[r] + f[k + 1]
      BY <1>5, <2>4, <3>1, <3>2
    <3>4. g[q] = g[q \ {k + 1}] + f[k + 1]
      BY <1>5, <3>1, <3>2
    <3>5. g[r] = f[x] + g[r \ {x}]
      BY <2>1, <3>1
    <3>6. f[x] \in Int /\ f[k + 1] \in Int /\ g[r \ {x}] \in Int
      <4>1. r \ {x} \in SUBSET (1..n) /\ x \in 1..n /\ k + 1 \in 1..n
        BY <3>1
      <4> QED
        BY <1>4, <4>1
    <3>7. g[q] = g[r \ {x}] + f[k + 1]
      BY <3>1, <3>4
    <3> HIDE DEF r, q
    <3>8. g[s] = f[x] + g[q]
      BY <3>3, <3>5, <3>6, <3>7
    <3> QED
      BY <3>8 DEF q
  <2> QED
    BY <2>2, <2>3, <2>4
<1>8. T = Nat
  <2>1. T \subseteq Nat
    OBVIOUS
  <2> HIDE DEF T
  <2> QED
    BY <1>6, <1>7, <2>1, Induct
<1>9. InAnyOrder(g, f, n)
  <2>1. n \in T
    BY <1>8
  <2> QED
    BY <2>1
<1> QED
  BY <1>4, <1>9 DEF SumsTo

\* SumFunction takes the members in an order that only CHOOSE knows.
LEMMA SumIs ==
  ASSUME NEW n \in Nat, NEW f \in [1..n -> Int], NEW g, SumsTo(g, f, n)
  PROVE  SumFunction(f) = g[1..n]
<1> DEFINE It(i) == i = [s \in SUBSET (1..n) |->
                          IF s = {} THEN 0
                          ELSE f[CHOOSE x \in s : TRUE] + i[s \ {CHOOSE x \in s : TRUE}]]
           iter == CHOOSE i : It(i)
<1>1. DOMAIN f = 1..n
  OBVIOUS
<1>2. SumFunction(f) = iter[1..n]
  BY <1>1 DEF SumFunction, SumFunctionOnSet, FoldFunctionOnSet, MapThenFoldSet
<1>3. It(g)
  <2>1. ASSUME NEW s \in SUBSET (1..n), s # {}
        PROVE  g[s] = f[CHOOSE x \in s : TRUE] + g[s \ {CHOOSE x \in s : TRUE}]
    <3>1. (CHOOSE x \in s : TRUE) \in s
      BY <2>1
    <3> QED
      BY <3>1 DEF SumsTo, InAnyOrder
  <2>2. g = [s \in SUBSET (1..n) |-> g[s]] /\ g[{}] = 0
    BY DEF SumsTo
  <2>3. \A s \in SUBSET (1..n) :
          g[s] = IF s = {} THEN 0
                 ELSE f[CHOOSE x \in s : TRUE] + g[s \ {CHOOSE x \in s : TRUE}]
    BY <2>1, <2>2
  <2> QED
    BY <2>2, <2>3
<1>4. It(iter)
  <2> HIDE DEF It
  <2> QED
    BY <1>3
<1> HIDE DEF iter
<1>5. iter[{}] = 0
  BY <1>4
<1>6. ASSUME NEW s \in SUBSET (1..n), s # {}
      PROVE  \E x \in s : iter[s] = f[x] + iter[s \ {x}]
  <2>1. (CHOOSE x \in s : TRUE) \in s
    BY <1>6
  <2>2. iter[s] = f[CHOOSE x \in s : TRUE] + iter[s \ {CHOOSE x \in s : TRUE}]
    BY <1>4, <1>6
  <2> QED
    BY <2>1, <2>2
<1> HIDE DEF It
<1> DEFINE Same(k) == \A s \in SUBSET (1..n) : Cardinality(s) = k => iter[s] = g[s]
           T == {k \in Nat : Same(k)}
<1>7. \A s \in SUBSET (1..n) : IsFiniteSet(s)
  <2>1. IsFiniteSet(1..n)
    BY FS_Interval
  <2> QED
    BY <2>1, FS_Subset
<1>8. 0 \in T
  <2>1. \A s \in SUBSET (1..n) : Cardinality(s) = 0 => s = {}
    BY <1>7, FS_EmptySet
  <2> QED
    BY <1>5, <2>1 DEF SumsTo
<1>9. ASSUME NEW k \in Nat, k \in T PROVE k + 1 \in T
  <2>0. Same(k)
    BY <1>9
  <2> SUFFICES Same(k + 1)
    OBVIOUS
  <2> SUFFICES ASSUME NEW s \in SUBSET (1..n), Cardinality(s) = k + 1
               PROVE  iter[s] = g[s]
    OBVIOUS
  <2>1. s # {}
    <3>1. Cardinality({}) = 0 /\ k + 1 # 0
      BY FS_EmptySet
    <3> QED
      BY <3>1
  <2>2. PICK x \in s : iter[s] = f[x] + iter[s \ {x}]
    BY <1>6, <2>1
  <2>3. Cardinality(s \ {x}) = Cardinality(s) - 1
    BY <1>7, FS_RemoveElement
  <2>4. Cardinality(s \ {x}) = k /\ s \ {x} \in SUBSET (1..n)
    BY <2>3
  <2>5. iter[s \ {x}] = g[s \ {x}]
    BY <2>0, <2>4
  <2>6. g[s] = f[x] + g[s \ {x}]
    BY DEF SumsTo, InAnyOrder
  <2> QED
    BY <2>2, <2>5, <2>6
<1>10. T = Nat
  <2>1. T \subseteq Nat
    OBVIOUS
  <2> HIDE DEF T
  <2> QED
    BY <1>8, <1>9, <2>1, Induct
<1>11. Cardinality(1..n) \in Nat
  BY <1>7, FS_CardinalityType
<1>12. iter[1..n] = g[1..n]
  <2>1. Cardinality(1..n) \in T
    BY <1>10, <1>11
  <2> QED
    BY <2>1
<1> QED
  BY <1>2, <1>12

LEMMA SumAdds ==
  ASSUME NEW n \in Nat, NEW f \in [1..n -> Int]
  PROVE  \E h : Adds(h, f, n) /\ SumFunction(f) = h[n]
<1>1. PICK g : SumsTo(g, f, n)
  BY SumExists
<1> DEFINE h == [k \in 0..n |-> g[1..k]]
<1>2. h \in [0..n -> Int] /\ h[n] = g[1..n]
  BY <1>1 DEF SumsTo
<1>3. h[0] = 0
  <2>1. 1..0 = {}
    OBVIOUS
  <2> QED
    BY <1>1, <2>1 DEF SumsTo
<1>4. ASSUME NEW k \in 1..n PROVE h[k] = h[k - 1] + f[k]
  <2>1. 1..k \in SUBSET (1..n) /\ k \in 1..k /\ (1..k) \ {k} = 1..(k - 1)
    OBVIOUS
  <2>2. g[1..k] = f[k] + g[1..(k - 1)]
    <3>1. \A x \in 1..k : g[1..k] = f[x] + g[(1..k) \ {x}]
      BY <1>1, <2>1 DEF SumsTo, InAnyOrder
    <3> QED
      BY <2>1, <3>1
  <2>3. k - 1 \in 0..n /\ k \in 0..n /\ 1..(k - 1) \in SUBSET (1..n)
    OBVIOUS
  <2>4. g[1..(k - 1)] \in Int /\ f[k] \in Int
    BY <1>1, <2>3 DEF SumsTo
  <2> QED
    BY <2>2, <2>3, <2>4
<1> HIDE DEF h
<1>5. Adds(h, f, n)
  BY <1>2, <1>3, <1>4 DEF Adds
<1>6. SumFunction(f) = h[n]
  BY <1>1, <1>2, SumIs
<1> QED
  BY <1>5, <1>6

LEMMA GroupObeys ==
  ASSUME GroupInv, [GroupSteps]_groupVars, result' # result, result'.op # "none"
  PROVE  /\ result'.ok <=> failed' = {} /\ result'.v \in RpmRange
         /\ result'.op # "read" =>
              \A a \in Axles \ failed' : Serves(spin'[a], result'.v)
         /\ result'.op = "read" /\ result'.ok =>
              result'.sum = SumFunction(spin)
<1>1. GroupNext
  <2>1. ~GroupCall
    BY CallStarts
  <2> QED
    BY <2>1 DEF GroupSteps, AkelcConnect, AkelcDisconnect, AkelcWrite, AkelcRead, GroupTick, statVars,
       groupVars
<1>2. PICK done : TurnTaken(done) /\ CallGoesOn(done)
  BY <1>1, MembersTurn
<1>3. PICK n \in Nat \ {0} : Axles = 1..n /\ Len(Motors) = n
  BY GroupMembers
<1>4. fan.at = n /\ result' = done
  BY <1>2, <1>3 DEF CallGoesOn
<1>5. result'.op = fan.op /\ result'.v = fan.v
  BY <1>2, <1>4 DEF TurnTaken
<1>6. result'.ok <=> failed' = {} /\ fan.v \in RpmRange
  BY <1>2, <1>4 DEF TurnTaken
<1>7. fan.op # "read" => \A b \in 1..n : b \notin failed' => Serves(spin'[b], fan.v)
  BY <1>2, <1>4 DEF TurnTaken
<1>8. ASSUME fan.op = "read", result'.ok
      PROVE  result'.sum = SumFunction(spin)
  <2>1. spin \in [1..n -> Int]
    <3>1. spin \in [1..n -> RpmRange]
      BY <1>3 DEF GroupInv, GroupTypeOK
    <3> QED
      BY <3>1, RpmValues
  <2>2. PICK h : Adds(h, spin, n) /\ SumFunction(spin) = h[n]
    BY <2>1, SumAdds
  <2> QED
    BY <1>2, <1>3, <1>4, <1>8, <2>2 DEF TurnTaken
<1> QED
  BY <1>3, <1>5, <1>6, <1>7, <1>8

-----------------------------------------------------------------------------
(* The DDSM210, and the composition.                                         *)

\* A closed port has nothing on its way, and what is on its way back, or fresh in
\* a session, was sent in it.
WheelInv ==
  /\ wage \in 0..(WheelFresh + 1)
  /\ ~wport => wline = <<>> /\ wair = <<>>
  /\ wair # <<>> => wspoke
  /\ wconn /\ wage <= WheelFresh => wspoke

LEMMA WheelStarts == WheelInit => WheelInv
  BY Ddsm210Assumption DEF WheelInit, WheelInv

LEMMA WheelSteps ==
  ASSUME WheelInv, [WheelNext]_wheelVars
  PROVE  WheelInv'
<1> USE Ddsm210Assumption DEF WheelInv
<1>1. CASE WheelOpen
  BY <1>1 DEF WheelOpen, fbVars
<1>2. CASE WheelConnect
  BY <1>2 DEF WheelConnect, WheelReset, motorVars
<1>3. CASE WheelCommand \/ WheelDisconnect \/ SetMode \/ SetModeAsk \/ SetMotorIdSend
  BY <1>3 DEF WheelCommand, WheelDisconnect, SetMode, SetModeAsk, SetMotorIdSend, WheelSend, Stored,
     fbVars
<1>4. CASE SetModeLook \/ SetMotorId \/ SetMotorIdLook
  BY <1>4 DEF SetModeLook, SetMotorId, SetMotorIdLook, fbVars, motorVars
<1>5. CASE WheelClose
  BY <1>5 DEF WheelClose, WheelReset
<1>6. CASE WheelFeedback
  BY <1>6 DEF WheelFeedback
<1>7. CASE WheelFault
  BY <1>7 DEF WheelFault, fbVars
<1>8. CASE WheelTurns
  <2>1. wport /\ UNCHANGED <<wport, wconn, wage>>
    BY <1>8 DEF WheelTurns, fbVars
  <2>2. UNCHANGED <<wair, wspoke>> \/ wspoke'
    BY <1>8 DEF WheelTurns
  <2> QED
    BY <2>1, <2>2
<1>9. CASE WheelTick
  BY <1>9 DEF WheelTick, motorVars
<1>10. CASE UNCHANGED wheelVars
  BY <1>10 DEF wheelVars, fbVars, motorVars
<1> QED
  BY <1>1, <1>2, <1>3, <1>4, <1>5, <1>6, <1>7, <1>8, <1>9, <1>10 DEF WheelNext, WheelCaller

\* The types, with those of the replies on their way.
WheelReplies == [id : MotorIds, says : WheelModes \cup {"speed", "switched"}]
WheelTypes == WheelTypeOK /\ wair \in Seq(WheelReplies)

LEMMA WheelOnWire ==
  ASSUME NEW S, NEW q \in Seq(S), Len(q) <= MaxWire
  PROVE  /\ \A x \in S : Len(q) < MaxWire => Append(q, x) \in Seq(S) /\ Len(Append(q, x)) <= MaxWire
         /\ q # <<>> => Tail(q) \in Seq(S) /\ Len(Tail(q)) <= MaxWire /\ Head(q) \in S
         /\ <<>> \in Seq(S) /\ Len(<<>>) <= MaxWire
<1>0. Len(q) \in Nat /\ MaxWire \in Nat
  BY Ddsm210Assumption, LenProperties
<1>1. \A x \in S : Append(q, x) \in Seq(S) /\ Len(Append(q, x)) = Len(q) + 1
  BY AppendProperties
<1>2. q # <<>> => Tail(q) \in Seq(S) /\ Len(Tail(q)) = Len(q) - 1 /\ Head(q) \in S
  BY HeadTailProperties
<1>3. <<>> \in Seq(S) /\ Len(<<>>) = 0
  BY EmptySeq
<1> QED
  BY <1>0, <1>1, <1>2, <1>3

\* A frame that is sent is on the wire or refused.
LEMMA WheelSending ==
  ASSUME WheelTypes, NEW id \in MotorIds \cup {All}, NEW op \in WheelOps, WheelSend(id, op)
  PROVE  wline' \in Seq(WheelFrames) /\ Len(wline') <= MaxWire
<1> DEFINE f == [id |-> id, op |-> op]
<1>1. f \in WheelFrames
  BY DEF WheelFrames
<1>2. wline \in Seq(WheelFrames) /\ Len(wline) <= MaxWire
  BY DEF WheelTypes, WheelTypeOK
<1>3. wline' = IF Stored THEN Append(wline, f) ELSE wline
  BY DEF WheelSend
<1>4. Stored => Len(wline) < MaxWire
  BY DEF Stored
<1> HIDE DEF f
<1> QED
  BY <1>1, <1>2, <1>3, <1>4, WheelOnWire

\* A handshake under way.
LEMMA Asking ==
  ASSUME wcall \in WheelCalls, wcall[1] \in {"ask", "look"}
  PROVE  \E m \in WheelModes, n \in 1..Turns : wcall = <<wcall[1], m, n>>
  BY DEF WheelCalls, None
LEMMA Naming ==
  ASSUME wcall \in WheelCalls, wcall[1] \in {"setid", "wait"}
  PROVE  \E i \in MotorIds, n \in 0..Turns : wcall = <<wcall[1], i, n>>
  BY DEF WheelCalls, None
LEMMA HandshakeTurns ==
  /\ \A c \in {"ask", "look"}, m \in WheelModes, n \in 1..Turns : <<c, m, n>> \in WheelCalls
  /\ \A c \in {"setid", "wait"}, i \in MotorIds, n \in 0..Turns : <<c, i, n>> \in WheelCalls
  /\ None \in WheelCalls /\ <<"opened">> \in WheelCalls /\ <<"close">> \in WheelCalls
  BY DEF WheelCalls

LEMMA WheelTypesStart == WheelInit => WheelTypes
<1> SUFFICES ASSUME WheelInit
             PROVE  WheelTypes
  OBVIOUS
<1>1. /\ wline \in Seq(WheelFrames) /\ Len(wline) <= MaxWire
      /\ wair \in Seq(WheelReplies) /\ Len(wair) <= MaxWire
  BY EmptySeq, Ddsm210Assumption DEF WheelInit
<1>2. wheel \in [id : MotorIds, mode : WheelModes]
  BY DEF WheelInit
<1>3. wcall \in WheelCalls
  BY HandshakeTurns DEF WheelInit
<1>4. wmode \in WheelModes /\ wage \in 0..(WheelFresh + 1) /\ wid \in MotorIds
  BY Ddsm210Assumption DEF WheelInit, WheelModes
<1>5. wport \in BOOLEAN /\ wconn \in BOOLEAN /\ wack \in BOOLEAN /\ wspoke \in BOOLEAN
  BY DEF WheelInit
<1> QED
  BY <1>1, <1>2, <1>3, <1>4, <1>5 DEF WheelTypes, WheelTypeOK

\* What the call under way leaves of itself: the next turn, or nothing.
LEMMA HandshakeSteps ==
  ASSUME WheelTypes, SetModeAsk \/ SetModeLook \/ SetMotorIdSend \/ SetMotorIdLook
  PROVE  wcall' \in WheelCalls
<1>0. wcall \in WheelCalls /\ Turns \in Nat \ {0}
  BY Ddsm210Assumption DEF WheelTypes, WheelTypeOK
<1>1. CASE SetModeAsk
  <2>1. wcall[1] = "ask" /\ wcall' = [wcall EXCEPT ![1] = "look"]
    BY <1>1 DEF SetModeAsk
  <2>2. PICK m \in WheelModes, n \in 1..Turns : wcall = <<"ask", m, n>>
    BY <1>0, <2>1, Asking
  <2>3. wcall' = <<"look", m, n>>
    BY <2>1, <2>2
  <2> QED
    BY <2>3, HandshakeTurns
<1>2. CASE SetModeLook
  <2>1. wcall[1] = "look" /\ (wcall' = None \/ wcall' = Again([wcall EXCEPT ![1] = "ask"]))
    BY <1>2 DEF SetModeLook
  <2>2. PICK m \in WheelModes, n \in 1..Turns : wcall = <<"look", m, n>>
    BY <1>0, <2>1, Asking
  <2>3. [wcall EXCEPT ![1] = "ask"] = <<"ask", m, n>> /\ wcall[3] = n
    BY <2>2
  <2>4. wcall' = None \/ (n < Turns /\ wcall' = <<"ask", m, n + 1>>)
    BY <2>1, <2>3 DEF Again
  <2> QED
    BY <1>0, <2>4, HandshakeTurns
<1>3. CASE SetMotorIdSend
  <2>1. /\ wcall[1] = "setid"
        /\ wcall' = IF ~Stored THEN None
                    ELSE IF wcall[3] + 1 < Turns THEN [wcall EXCEPT ![3] = @ + 1]
                    ELSE <<"wait", wcall[2], 1>>
    BY <1>3 DEF SetMotorIdSend
  <2>2. PICK i \in MotorIds, n \in 0..Turns : wcall = <<"setid", i, n>>
    BY <1>0, <2>1, Naming
  <2>3. wcall[2] = i /\ wcall[3] = n /\ [wcall EXCEPT ![3] = @ + 1] = <<"setid", i, n + 1>>
    BY <2>2
  <2>4. wcall' = None \/ (n + 1 < Turns /\ wcall' = <<"setid", i, n + 1>>) \/ wcall' = <<"wait", i, 1>>
    BY <2>1, <2>3
  <2> QED
    BY <1>0, <2>4, HandshakeTurns
<1>4. CASE SetMotorIdLook
  <2>1. wcall[1] = "wait" /\ (wcall' = None \/ wcall' = Again(wcall))
    BY <1>4 DEF SetMotorIdLook
  <2>2. PICK i \in MotorIds, n \in 0..Turns : wcall = <<"wait", i, n>>
    BY <1>0, <2>1, Naming
  <2>3. wcall[3] = n /\ [wcall EXCEPT ![3] = @ + 1] = <<"wait", i, n + 1>>
    BY <2>2
  <2>4. wcall' = None \/ (n < Turns /\ wcall' = <<"wait", i, n + 1>>)
    BY <2>1, <2>3 DEF Again
  <2> QED
    BY <1>0, <2>4, HandshakeTurns
<1> QED
  BY <1>1, <1>2, <1>3, <1>4

\* What the motor makes of a frame, and what it answers.
LEMMA MotorAnswers ==
  ASSUME WheelTypes, WheelTurns
  PROVE  /\ wheel' \in [id : MotorIds, mode : WheelModes]
         /\ wair' \in Seq(WheelReplies) /\ Len(wair') <= MaxWire
         /\ wspoke' \in BOOLEAN
<1> DEFINE f == Head(wline)
           w == CASE f.op[1] = "id"   -> [wheel EXCEPT !.id = f.op[2]]
                  [] f.op[1] = "mode" -> [wheel EXCEPT !.mode = f.op[2]]
                  [] OTHER            -> wheel
           r == CASE f.op[1] = "ask"  -> w.mode
                  [] f.op[1] = "mode" -> "switched"
                  [] OTHER            -> "speed"
<1>0. /\ wline \in Seq(WheelFrames) /\ wair \in Seq(WheelReplies) /\ Len(wair) <= MaxWire
      /\ wheel \in [id : MotorIds, mode : WheelModes] /\ wspoke \in BOOLEAN /\ wline # <<>>
  BY DEF WheelTypes, WheelTypeOK, WheelTurns
<1>1. f \in WheelFrames
  BY <1>0, HeadTailProperties
<1>2. \/ UNCHANGED <<wheel, wair, wspoke>>
      \/ wheel' = w /\ UNCHANGED <<wair, wspoke>>
      \/ /\ Len(wair) < MaxWire /\ wheel' = w /\ wspoke' = TRUE
         /\ wair' = Append(wair, [id |-> w.id, says |-> r])
  BY DEF WheelTurns
<1>3. PICK op \in WheelOps : op = f.op
  BY <1>1 DEF WheelFrames
<1> HIDE DEF f
<1>4. (op[1] = "id" => op[2] \in MotorIds) /\ (op[1] = "mode" => op[2] \in WheelModes)
  BY DEF WheelOps
<1>5. w \in [id : MotorIds, mode : WheelModes]
  BY <1>0, <1>3, <1>4
<1> HIDE DEF w
<1>6. r \in WheelModes \cup {"speed", "switched"} /\ w.id \in MotorIds
  BY <1>5
<1> HIDE DEF r
<1>7. [id |-> w.id, says |-> r] \in WheelReplies
  BY <1>6 DEF WheelReplies
<1>8. Len(wair) < MaxWire =>
        /\ Append(wair, [id |-> w.id, says |-> r]) \in Seq(WheelReplies)
        /\ Len(Append(wair, [id |-> w.id, says |-> r])) <= MaxWire
  BY <1>0, <1>7, WheelOnWire
<1>9. wair' \in Seq(WheelReplies) /\ Len(wair') <= MaxWire
  BY <1>0, <1>2, <1>8
<1>10. wspoke' \in BOOLEAN
  BY <1>0, <1>2
<1> QED
  BY <1>0, <1>2, <1>5, <1>9, <1>10

LEMMA WheelTypesStep ==
  ASSUME WheelTypes, [WheelNext]_wheelVars
  PROVE  WheelTypes'
<1>0. /\ wport \in BOOLEAN /\ wconn \in BOOLEAN /\ wack \in BOOLEAN /\ wspoke \in BOOLEAN
      /\ wid \in MotorIds /\ wmode \in WheelModes /\ wage \in 0..(WheelFresh + 1)
      /\ wline \in Seq(WheelFrames) /\ Len(wline) <= MaxWire
      /\ wair \in Seq(WheelReplies) /\ Len(wair) <= MaxWire
      /\ wheel \in [id : MotorIds, mode : WheelModes] /\ wcall \in WheelCalls
      /\ WheelFresh \in Nat /\ Turns \in Nat \ {0}
  BY Ddsm210Assumption DEF WheelTypes, WheelTypeOK
<1>1. wport' \in BOOLEAN /\ wconn' \in BOOLEAN /\ wack' \in BOOLEAN
  BY <1>0 DEF WheelNext, WheelCaller, WheelOpen, WheelConnect, WheelCommand, WheelDisconnect, WheelClose,
     SetMode, SetModeAsk, SetModeLook, SetMotorId, SetMotorIdSend, SetMotorIdLook, WheelFeedback,
     WheelFault, WheelTurns, WheelTick, wheelVars, cfgVars
<1>2. wmode' \in WheelModes /\ wage' \in 0..(WheelFresh + 1)
  BY <1>0 DEF WheelNext, WheelCaller, WheelOpen, WheelConnect, WheelCommand, WheelDisconnect, WheelClose,
     SetMode, SetModeAsk, SetModeLook, SetMotorId, SetMotorIdSend, SetMotorIdLook, WheelFeedback,
     WheelFault, WheelTurns, WheelTick, WheelReset, wheelVars, fbVars
<1>3. wid' \in MotorIds
  <2>1. CASE SetMotorIdSend
    <3>1. wcall[1] = "setid" /\ wid' = wcall[2]
      BY <2>1 DEF SetMotorIdSend
    <3>2. PICK i \in MotorIds, n \in 0..Turns : wcall = <<"setid", i, n>>
      BY <1>0, <3>1, Naming
    <3> QED
      BY <3>1, <3>2
  <2>2. CASE ~SetMotorIdSend
    BY <1>0, <2>2 DEF WheelNext, WheelCaller, WheelOpen, WheelConnect, WheelCommand, WheelDisconnect,
       WheelClose, SetMode, SetModeAsk, SetModeLook, SetMotorId, SetMotorIdLook, WheelFeedback,
       WheelFault, WheelTurns, WheelTick, wheelVars, cfgVars
  <2> QED
    BY <2>1, <2>2
<1>4. wcall' \in WheelCalls
  <2>1. CASE SetModeAsk \/ SetModeLook \/ SetMotorIdSend \/ SetMotorIdLook
    BY <2>1, HandshakeSteps
  <2>2. CASE SetMode \/ SetMotorId
    <3>1. \/ \E m \in WheelModes : wcall' = <<"ask", m, 1>>
          \/ \E i \in MotorIds : wcall' = <<"setid", i, 0>>
      BY <2>2 DEF SetMode, SetMotorId
    <3>2. 1 \in 1..Turns /\ 0 \in 0..Turns
      BY <1>0
    <3> QED
      BY <3>1, <3>2, HandshakeTurns
  <2>3. CASE WheelOpen \/ WheelConnect \/ WheelDisconnect \/ WheelClose
    BY <2>3, HandshakeTurns DEF WheelOpen, WheelConnect, WheelDisconnect, WheelClose
  <2>4. CASE WheelCommand \/ WheelFeedback \/ WheelFault \/ WheelTurns \/ WheelTick \/ UNCHANGED wheelVars
    BY <1>0, <2>4 DEF WheelCommand, WheelFeedback, WheelFault, WheelTurns, WheelTick, wheelVars
  <2> QED
    BY <2>1, <2>2, <2>3, <2>4 DEF WheelNext, WheelCaller
<1>5. wline' \in Seq(WheelFrames) /\ Len(wline') <= MaxWire
  <2>1. CASE \E id \in MotorIds \cup {All}, op \in WheelOps : WheelSend(id, op)
    BY <2>1, WheelSending
  <2>2. CASE wline' = wline
    BY <1>0, <2>2
  <2>3. CASE wline' = <<>> \/ (wline # <<>> /\ wline' = Tail(wline))
    <3>1. /\ wline # <<>> => Tail(wline) \in Seq(WheelFrames) /\ Len(Tail(wline)) <= MaxWire
          /\ <<>> \in Seq(WheelFrames) /\ Len(<<>>) <= MaxWire
      <4>1. wline \in Seq(WheelFrames) /\ Len(wline) <= MaxWire
        BY <1>0
      <4> QED
        BY <4>1, WheelOnWire
    <3> QED
      BY <2>3, <3>1, Zenon
  <2>4. CASE WheelCommand \/ WheelDisconnect \/ SetModeAsk
    <3>1. <<"speed">> \in WheelOps /\ <<"ask">> \in WheelOps
      BY DEF WheelOps
    <3> QED
      BY <1>0, <2>1, <2>2, <2>4, <3>1 DEF WheelCommand, WheelDisconnect, SetModeAsk
  <2>5. CASE SetMode
    <3>1. PICK m \in WheelModes : WheelSend(wid, <<"mode", m>>)
      BY <2>5 DEF SetMode
    <3>2. <<"mode", m>> \in WheelOps
      BY DEF WheelOps
    <3> QED
      BY <1>0, <2>1, <3>1, <3>2
  <2>6. CASE SetMotorIdSend
    <3>1. wcall[1] = "setid" /\ WheelSend(All, <<"id", wcall[2]>>)
      BY <2>6 DEF SetMotorIdSend
    <3>2. PICK i \in MotorIds, n \in 0..Turns : wcall = <<"setid", i, n>>
      BY <1>0, <3>1, Naming
    <3>3. <<"id", wcall[2]>> \in WheelOps
      BY <3>2 DEF WheelOps
    <3> QED
      BY <2>1, <3>1, <3>3
  <2>7. CASE WheelClose \/ WheelFault \/ WheelTurns
    BY <2>3, <2>7 DEF WheelClose, WheelFault, WheelTurns
  <2>8. CASE \/ WheelOpen \/ WheelConnect \/ SetModeLook \/ SetMotorId \/ SetMotorIdLook
             \/ WheelFeedback \/ WheelTick \/ UNCHANGED wheelVars
    BY <2>2, <2>8 DEF WheelOpen, WheelConnect, SetModeLook, SetMotorId, SetMotorIdLook,
       WheelFeedback, WheelTick, wheelVars, motorVars
  <2> QED
    BY <2>4, <2>5, <2>6, <2>7, <2>8 DEF WheelNext, WheelCaller
<1>6. /\ wheel' \in [id : MotorIds, mode : WheelModes]
      /\ wair' \in Seq(WheelReplies) /\ Len(wair') <= MaxWire
      /\ wspoke' \in BOOLEAN
  <2>1. CASE WheelTurns
    BY <2>1, MotorAnswers
  <2>2. CASE WheelClose \/ WheelFault \/ WheelFeedback
    <3>1. wair' = <<>> \/ (wair # <<>> /\ wair' = Tail(wair))
      BY <2>2 DEF WheelClose, WheelFault, WheelFeedback
    <3>2. UNCHANGED <<wheel, wspoke>>
      BY <2>2 DEF WheelClose, WheelFault, WheelFeedback
    <3>3. /\ wair # <<>> => Tail(wair) \in Seq(WheelReplies) /\ Len(Tail(wair)) <= MaxWire
          /\ <<>> \in Seq(WheelReplies) /\ Len(<<>>) <= MaxWire
      <4>1. wair \in Seq(WheelReplies) /\ Len(wair) <= MaxWire
        BY <1>0
      <4> QED
        BY <4>1, WheelOnWire
    <3>4. wair' \in Seq(WheelReplies) /\ Len(wair') <= MaxWire
      BY <3>1, <3>3, Zenon
    <3>5. wheel' \in [id : MotorIds, mode : WheelModes] /\ wspoke' \in BOOLEAN
      BY <1>0, <3>2
    <3> QED
      BY <3>4, <3>5
  <2>3. CASE WheelOpen
    BY <1>0, <2>3 DEF WheelOpen
  <2>4. CASE \/ WheelConnect \/ WheelCommand \/ WheelDisconnect \/ SetMode \/ SetModeAsk \/ SetModeLook
             \/ SetMotorId \/ SetMotorIdSend \/ SetMotorIdLook \/ WheelTick \/ UNCHANGED wheelVars
    BY <1>0, <2>4 DEF WheelConnect, WheelCommand, WheelDisconnect, SetMode, SetModeAsk, SetModeLook,
       SetMotorId, SetMotorIdSend, SetMotorIdLook, WheelTick, wheelVars, motorVars
  <2> QED
    BY <2>1, <2>2, <2>3, <2>4 DEF WheelNext, WheelCaller
<1> QED
  BY <1>1, <1>2, <1>3, <1>4, <1>5, <1>6 DEF WheelTypes, WheelTypeOK

MotorsVars == <<which, vars, servoVars, wheelVars, groupVars, framesVars>>
MotorsInv == SentInv /\ ServoInv /\ WheelInv /\ WheelTypes /\ GroupInv

LEMMA EachSteps ==
  ASSUME [MCNext]_MotorsVars
  PROVE  [Next]_vars /\ [ServoNext]_servoVars /\ [WheelNext]_wheelVars /\ [GroupSteps]_groupVars
<1>1. MCNext => /\ Next \/ UNCHANGED vars
                /\ ServoNext \/ UNCHANGED servoVars
                /\ WheelNext \/ UNCHANGED wheelVars
                /\ GroupSteps \/ UNCHANGED groupVars
  BY DEF MCNext
<1>2. UNCHANGED MotorsVars => /\ UNCHANGED vars /\ UNCHANGED servoVars
                             /\ UNCHANGED wheelVars /\ UNCHANGED groupVars
  BY DEF MotorsVars
<1> QED
  BY <1>1, <1>2

LEMMA MotorsStart == MCInit => MotorsInv
<1> SUFFICES ASSUME MCInit
             PROVE  MotorsInv
  OBVIOUS
<1>1. Init /\ ServoInit /\ WheelInit /\ GroupInit
  BY DEF MCInit, ServoRests, WheelRests
<1> QED
  BY <1>1, SentStarts, ServoStarts, WheelStarts, WheelTypesStart, GroupStarts DEF MotorsInv

LEMMA MotorsStep ==
  ASSUME MotorsInv, [MCNext]_MotorsVars
  PROVE  MotorsInv'
<1>1. [Next]_vars /\ [ServoNext]_servoVars /\ [WheelNext]_wheelVars /\ [GroupSteps]_groupVars
  BY EachSteps
<1>2. SentInv' /\ ServoInv' /\ WheelInv'
  BY <1>1, SentSteps, ServoSteps, WheelSteps DEF MotorsInv
<1>3. WheelTypes' /\ GroupInv'
  BY <1>1, WheelTypesStep, GroupStepsKeep DEF MotorsInv
<1> QED
  BY <1>2, <1>3 DEF MotorsInv

LEMMA MotorsHealth == MotorsInv => HealthIsTrue
<1> SUFFICES ASSUME MotorsInv
             PROVE  HealthIsTrue
  OBVIOUS
<1>1. FaultStaysVisible /\ OkIsFresh
  BY DEF MotorsInv, SentInv, DriverInv, VescFaultInv, VescHeardInv, InSession, FaultStaysVisible,
     OkIsFresh, Health
<1>2. NoSilentServo
  BY Healthy DEF MotorsInv
<1>3. NoSilentWheel
  BY DEF MotorsInv, WheelInv, NoSilentWheel, WheelHealth, WheelConnected, HealthFromFreshness, IsFresh
<1> QED
  BY <1>1, <1>2, <1>3 DEF HealthIsTrue

\* A fault that was reported shows in Health(), and kOk means that the device
\* itself was heard in this session: for the VESC, every chain of servos and the
\* DDSM210, whatever their windows, limits and bounds. Of the servos those are left out
\* for whose reply a late one was taken in this session, and a single servo whose answer
\* to a new id was lost or late.
THEOREM HealthTellsTheTruth == MCSpec => []HealthIsTrue
<1>1. MotorsInv /\ [MCNext]_MotorsVars => MotorsInv'
  BY MotorsStep
<1> QED
  BY <1>1, MotorsStart, MotorsHealth, PTL DEF MCSpec, MotorsVars

\* Every driver keeps its types, the bounds of its queues among them, in every
\* behaviour of the composition.
THEOREM MotorsTyping == MCSpec => []MotorsTypeOK
<1>1. MotorsInv /\ [MCNext]_MotorsVars => MotorsInv'
  BY MotorsStep
<1>2. MotorsInv => MotorsTypeOK
  BY DEF MotorsInv, SentInv, DriverInv, ServoInv, ShapeInv, WheelTypes, GroupInv, MotorsTypeOK
<1> QED
  BY <1>1, <1>2, MotorsStart, PTL DEF MCSpec, MotorsVars

\* The last command that the VESC driver answered kOk is the motor's once the link is
\* drained, and a Stop() of a chain of servos or of a group of AKELC motors that
\* was answered kOk leaves none of them moving (SendCmd, SmsStsServoArray::Stop,
\* SpeedActuatorGroup::Stop); left out are the ids of servos for whose reply a late one
\* was taken in this session.
THEOREM MotorsObeyed == MCSpec => []MotorsObey
<1>1. MotorsInv /\ [MCNext]_MotorsVars => MotorsInv'
  BY MotorsStep
<1>2. MotorsInv => MotorsObey
  <2> SUFFICES ASSUME MotorsInv
               PROVE  Obeys /\ StopHalts /\ GroupStopHalts
    BY DEF MotorsObey
  <2>1. Obeys
    BY SentObeys DEF MotorsInv
  <2>2. StopHalts
    BY DEF MotorsInv, ServoInv, StopInv
  <2>3. GroupStopHalts
    BY DEF MotorsInv, GroupInv, CalmInv, GroupStopHalts
  <2> QED
    BY <2>1, <2>2, <2>3
<1> QED
  BY <1>1, <1>2, MotorsStart, PTL DEF MCSpec, MotorsVars

\* A call of a group has a turn with every member: it is answered kOk just if none
\* of them failed and the target was not clamped, each that did not fail took the
\* target, and what is read is the members' sum, however it is added up (SetSpeed,
\* GetSpeed and Stop of actuator_group.hpp), for groups of every size.
THEOREM GroupServes == MCSpec => GroupCommands
<1>1. MCInit => GroupInv
  BY GroupStarts DEF MCInit
<1>2. [MCNext]_MotorsVars => [GroupSteps]_groupVars
  BY EachSteps
<1>3. GroupInv /\ [MCNext]_MotorsVars => GroupInv'
  BY <1>2, GroupStepsKeep
<1>4. GroupInv /\ [MCNext]_MotorsVars =>
        [result' # result /\ result'.op # "none" =>
           /\ result'.ok <=> failed' = {} /\ result'.v \in RpmRange
           /\ result'.op # "read" =>
                \A a \in Axles \ failed' : Serves(spin'[a], result'.v)
           /\ result'.op = "read" /\ result'.ok =>
                result'.sum = SumFunction(spin)]_groupVars
  BY <1>2, GroupObeys
<1> QED
  BY <1>1, <1>3, <1>4, PTL DEF MCSpec, MotorsVars, GroupCommands
-----------------------------------------------------------------------------
(* The frames. First the pieces they are made of.                            *)

LEMMA DrivesSmall == Drives \subseteq 1..169
BY MotorFramesAssumption, Zenon

LEMMA DriveIs ==
  ASSUME NEW i \in Drives
  PROVE  i \in 0..255
BY DrivesSmall

LEMMA ZerosAre ==
  ASSUME NEW n \in Nat
  PROVE  Str(Zeros(n), n) /\ \A i \in 1..n : Zeros(n)[i] = 0
BY DEF Zeros, Str

\* A word in a string.
LEMMA PartIs ==
  ASSUME NEW n \in Nat, NEW s, Str(s, n), NEW a \in 1..n, NEW k \in 1..n, a + k - 1 <= n
  PROVE  CutOut(Part(s, a, k), s, a, k)
BY StrCut, Zenon DEF Part

LEMMA WordOf ==
  ASSUME NEW n \in Nat, NEW s, Str(s, n), NEW a \in 1..n, NEW k \in 1..n, a + k - 1 <= n,
         NEW t, CutOut(t, s, a, k)
  PROVE  Part(s, a, k) = t
<1>1. PICK u : u = Part(s, a, k) /\ CutOut(u, s, a, k)
  BY PartIs, Zenon
<1>2. Str(u, k) /\ Str(t, k) /\ \A i \in 1..k : u[i] = t[i]
  BY <1>1, Zenon DEF CutOut
<1>3. k \in Nat
  OBVIOUS
<1>4. u = t
  BY <1>2, <1>3, StrSame, Zenon
<1> QED BY <1>1, <1>4

-----------------------------------------------------------------------------
(* The frames of the DDSM210.                                                *)

\* Nine bytes and their checksum.
Sealing(b, body) ==
  /\ Str(body, 9) /\ Str(b, 10)
  /\ \A i \in 1..9 : b[i] = body[i]
  /\ b[10] = Crc8Maxim(Part(b, 1, 9))

LEMMA SealIs ==
  ASSUME NEW body, Str(body, 9)
  PROVE  Sealing(Sealed(body), body)
<1>1. 9 \in Nat /\ DOMAIN body = 1..9
  BY DEF Str
<1>2. PICK c \in 0..255 : c = Crc8Maxim(body)
  BY <1>1, MaximTyped
<1>3. Sealed(body) = Append(body, c)
  BY <1>2 DEF Sealed
<1>4. PICK b : b = Append(body, c) /\ Str(b, 10) /\ (\A i \in 1..9 : b[i] = body[i]) /\ b[10] = c
  <2>1. PICK b : b = Append(body, c) /\ Longer(b, body, 9, c)
    BY <1>1, StrAppend, Zenon
  <2>2. 9 + 1 = 10
    OBVIOUS
  <2> QED BY <2>1, <2>2, Zenon DEF Longer
<1>5. Part(b, 1, 9) = body
  <2>1. \A i \in 1..9 : 1 + i - 1 = i
    OBVIOUS
  <2>2. CutOut(body, b, 1, 9)
    BY <1>4, <2>1, ZenonT(60) DEF CutOut
  <2>3. 10 \in Nat /\ 1 \in 1..10 /\ 9 \in 1..10 /\ 1 + 9 - 1 <= 10
    OBVIOUS
  <2> QED BY <1>4, <2>2, <2>3, WordOf, Zenon
<1> QED BY <1>2, <1>3, <1>4, <1>5, Zenon DEF Sealing

\* One byte of d is not what it is in b.
ByteOff(d, b, n) ==
  \E k \in 1..n : \E c \in 0..255 : c # b[k] /\ d = [b EXCEPT ![k] = c]

LEMMA OffIs ==
  ASSUME NEW n \in Nat, NEW b, Str(b, n), NEW d, ByteOff(d, b, n)
  PROVE  Str(d, n) /\ \E k \in 1..n : d[k] # b[k] /\ \A i \in 1..n : i # k => d[i] = b[i]
<1>1. PICK k \in 1..n : \E c \in 0..255 : c # b[k] /\ d = [b EXCEPT ![k] = c]
  BY ZenonT(60) DEF ByteOff
<1>2. PICK c \in 0..255 : c # b[k] /\ d = [b EXCEPT ![k] = c]
  BY <1>1
<1>3. b \in [1..n -> 0..255]
  BY DEF Str
<1>4. d \in [1..n -> 0..255] /\ d[k] = c /\ \A i \in 1..n : i # k => d[i] = b[i]
  BY <1>2, <1>3
<1> QED BY <1>2, <1>4 DEF Str

LEMMA DamageBreaksTheSeal ==
  ASSUME NEW b, NEW body, Sealing(b, body), NEW d, ByteOff(d, b, 10)
  PROVE  d[10] # Crc8Maxim(Part(d, 1, 9))
<1>1. Str(b, 10) /\ b[10] = Crc8Maxim(Part(b, 1, 9))
  BY DEF Sealing
<1>2. 10 \in Nat /\ 9 \in Nat /\ 10 \in 1..10
  OBVIOUS
<1>3. Str(d, 10) /\ \E k \in 1..10 : d[k] # b[k] /\ \A i \in 1..10 : i # k => d[i] = b[i]
  BY <1>1, <1>2, OffIs
<1>4. PICK k \in 1..10 : d[k] # b[k] /\ \A i \in 1..10 : i # k => d[i] = b[i]
  BY <1>3
<1>5. ASSUME NEW s, Str(s, 10)
      PROVE  Str(Part(s, 1, 9), 9) /\ \A i \in 1..9 : Part(s, 1, 9)[i] = s[i]
  <2>1. \A i \in 1..9 : 1 + i - 1 = i
    OBVIOUS
  <2>2. 10 \in Nat /\ 1 \in 1..10 /\ 9 \in 1..10 /\ 1 + 9 - 1 <= 10
    OBVIOUS
  <2>3. CutOut(Part(s, 1, 9), s, 1, 9)
    BY <1>5, <2>2, PartIs, Zenon
  <2> QED BY <2>1, <2>3, Zenon DEF CutOut
<1>6. PICK u, w : u = Part(b, 1, 9) /\ w = Part(d, 1, 9)
  OBVIOUS
<1>7. Str(u, 9) /\ Str(w, 9) /\ \A i \in 1..9 : u[i] = b[i] /\ w[i] = d[i]
  BY <1>1, <1>3, <1>5, <1>6, Zenon
<1>8. CASE k = 10
  <2>1. \A i \in 1..9 : u[i] = w[i]
    <3> TAKE i \in 1..9
    <3>1. i \in 1..10 /\ i # 10
      OBVIOUS
    <3> QED BY <1>4, <1>7, <1>8, <3>1, Zenon
  <2>2. u = w
    BY <1>2, <1>7, <2>1, StrSame, Zenon
  <2> QED BY <1>1, <1>4, <1>6, <1>8, <2>2, Zenon
<1>9. CASE k # 10
  <2>1. k \in 1..9
    BY <1>9
  <2>2. d[10] = b[10]
    BY <1>2, <1>4, <1>9, Zenon
  <2>3. u[k] # w[k] /\ \A i \in 1..9 : i # k => u[i] = w[i]
    <3>1. u[k] # w[k]
      BY <1>4, <1>7, <2>1, Zenon
    <3>2. ASSUME NEW i \in 1..9, i # k PROVE u[i] = w[i]
      <4>1. i \in 1..10
        OBVIOUS
      <4> QED BY <1>4, <1>7, <3>2, <4>1, Zenon
    <3> QED BY <3>1, <3>2
  <2>4. OneByteOff(u, w, 9)
    BY <1>7, <2>1, <2>3, Zenon DEF OneByteOff, Str
  <2>5. Crc8Maxim(u) # Crc8Maxim(w)
    BY <1>2, <2>4, MaximFinds, Zenon
  <2> QED BY <1>1, <1>6, <2>2, <2>5, Zenon
<1> QED BY <1>8, <1>9

\* The bytes of a frame before its checksum.
NineAre(s, a, b, c, d, e, f, g, h, i) ==
  /\ Str(s, 9)
  /\ s[1] = a /\ s[2] = b /\ s[3] = c /\ s[4] = d /\ s[5] = e
  /\ s[6] = f /\ s[7] = g /\ s[8] = h /\ s[9] = i

\* A command with a number.
LEMMA NumberBody ==
  ASSUME NEW a \in 0..255, NEW b \in 0..255, NEW w \in Int
  PROVE  NineAre(<<a, b>> \o Be(w, 2) \o Zeros(5), a, b, Digit(w, 1), Digit(w, 0), 0, 0, 0, 0, 0)
<1>1. PICK p : p = <<a, b>> /\ Str(p, 2) /\ p[1] = a /\ p[2] = b
  BY StrTwo, ZenonT(60)
<1>2. PICK q : q = Be(w, 2) /\ Str(q, 2) /\ q[1] = Digit(w, 1) /\ q[2] = Digit(w, 0)
  BY BeTwo, Zenon
<1>3. PICK z : z = Zeros(5) /\ Str(z, 5) /\ \A i \in 1..5 : z[i] = 0
  BY ZerosAre
<1>4. PICK r : /\ r = p \o q /\ Str(r, 4)
               /\ r[1] = p[1] /\ r[2] = p[2] /\ r[3] = q[1] /\ r[4] = q[2]
  <2>1. 2 \in Nat /\ 2 + 2 = 4
    OBVIOUS
  <2>2. PICK r : r = p \o q /\ Spliced(r, p, 2, q, 2)
    BY <1>1, <1>2, <2>1, StrJoin, Zenon
  <2>3. Str(r, 4) /\ \A j \in 1..4 : r[j] = IF j <= 2 THEN p[j] ELSE q[j - 2]
    BY <2>1, <2>2, Zenon DEF Spliced
  <2>4. r[1] = p[1] /\ r[2] = p[2] /\ r[3] = q[1] /\ r[4] = q[2]
    BY <2>3
  <2> QED BY <2>2, <2>3, <2>4, Zenon
<1>5. 4 \in Nat /\ 5 \in Nat /\ 4 + 5 = 9
  OBVIOUS
<1>6. PICK s : s = r \o z /\ Spliced(s, r, 4, z, 5)
  BY <1>3, <1>4, <1>5, StrJoin, Zenon
<1>7. Str(s, 9) /\ \A j \in 1..9 : s[j] = IF j <= 4 THEN r[j] ELSE z[j - 4]
  BY <1>5, <1>6, Zenon DEF Spliced
<1>8. s[1] = r[1] /\ s[2] = r[2] /\ s[3] = r[3] /\ s[4] = r[4]
  BY <1>7
<1>9. s[5] = 0 /\ s[6] = 0 /\ s[7] = 0 /\ s[8] = 0 /\ s[9] = 0
  BY <1>3, <1>7
<1>10. s = <<a, b>> \o Be(w, 2) \o Zeros(5)
  BY <1>1, <1>2, <1>3, <1>4, <1>6, Zenon
<1> QED BY <1>1, <1>2, <1>4, <1>7, <1>8, <1>9, <1>10, Zenon DEF NineAre

\* A command without one, and the brake.
LEMMA PlainBody ==
  ASSUME NEW a \in 0..255, NEW b \in 0..255
  PROVE  NineAre(<<a, b>> \o Zeros(7), a, b, 0, 0, 0, 0, 0, 0, 0)
<1>1. PICK p : p = <<a, b>> /\ Str(p, 2) /\ p[1] = a /\ p[2] = b
  BY StrTwo, ZenonT(60)
<1>2. PICK z : z = Zeros(7) /\ Str(z, 7) /\ \A i \in 1..7 : z[i] = 0
  BY ZerosAre
<1>3. 2 \in Nat /\ 7 \in Nat /\ 2 + 7 = 9
  OBVIOUS
<1>4. PICK s : s = p \o z /\ Spliced(s, p, 2, z, 7)
  BY <1>1, <1>2, <1>3, StrJoin, Zenon
<1>5. Str(s, 9) /\ \A j \in 1..9 : s[j] = IF j <= 2 THEN p[j] ELSE z[j - 2]
  BY <1>3, <1>4, Zenon DEF Spliced
<1>6. s[1] = p[1] /\ s[2] = p[2]
  BY <1>5
<1>7. s[3] = 0 /\ s[4] = 0 /\ s[5] = 0 /\ s[6] = 0 /\ s[7] = 0 /\ s[8] = 0 /\ s[9] = 0
  BY <1>2, <1>5
<1> QED BY <1>1, <1>2, <1>4, <1>5, <1>6, <1>7, Zenon DEF NineAre

LEMMA BrakeBody ==
  ASSUME NEW a \in 0..255, NEW b \in 0..255, NEW c \in 0..255, NEW d \in 0..255
  PROVE  NineAre(<<a, b>> \o Zeros(5) \o <<c, d>>, a, b, 0, 0, 0, 0, 0, c, d)
<1>1. PICK p : p = <<a, b>> /\ Str(p, 2) /\ p[1] = a /\ p[2] = b
  BY StrTwo, ZenonT(60)
<1>2. PICK z : z = Zeros(5) /\ Str(z, 5) /\ \A i \in 1..5 : z[i] = 0
  BY ZerosAre
<1>3. 2 \in Nat /\ 5 \in Nat /\ 7 \in Nat /\ 2 + 5 = 7 /\ 7 + 2 = 9
  OBVIOUS
<1>4. PICK r : r = p \o z /\ Spliced(r, p, 2, z, 5)
  BY <1>1, <1>2, <1>3, StrJoin, Zenon
<1>5. Str(r, 7) /\ \A j \in 1..7 : r[j] = IF j <= 2 THEN p[j] ELSE z[j - 2]
  BY <1>3, <1>4, Zenon DEF Spliced
<1>6. PICK t : t = <<c, d>> /\ Str(t, 2) /\ t[1] = c /\ t[2] = d
  BY StrTwo, ZenonT(60)
<1>7. PICK s : s = r \o t /\ Spliced(s, r, 7, t, 2)
  BY <1>3, <1>5, <1>6, StrJoin, Zenon
<1>8. Str(s, 9) /\ \A j \in 1..9 : s[j] = IF j <= 7 THEN r[j] ELSE t[j - 7]
  BY <1>3, <1>7, Zenon DEF Spliced
<1>9. /\ s[1] = r[1] /\ s[2] = r[2] /\ s[3] = r[3] /\ s[4] = r[4] /\ s[5] = r[5]
      /\ s[6] = r[6] /\ s[7] = r[7] /\ s[8] = t[1] /\ s[9] = t[2]
  BY <1>8
<1>10. r[1] = p[1] /\ r[2] = p[2]
  BY <1>5
<1>11. r[3] = 0 /\ r[4] = 0 /\ r[5] = 0 /\ r[6] = 0 /\ r[7] = 0
  BY <1>2, <1>5
<1>12. s = <<a, b>> \o Zeros(5) \o <<c, d>>
  BY <1>1, <1>2, <1>4, <1>6, <1>7, Zenon
<1> QED BY <1>1, <1>6, <1>8, <1>9, <1>10, <1>11, <1>12, Zenon DEF NineAre

\* A mode, and an id for whoever hears it.
LEMMA ModeBody ==
  ASSUME NEW a \in 0..255, NEW b \in 0..255, NEW c \in 0..255
  PROVE  NineAre(<<a, b, c>> \o Zeros(6), a, b, c, 0, 0, 0, 0, 0, 0)
<1>1. PICK p : p = <<a, b, c>> /\ Str(p, 3) /\ p[1] = a /\ p[2] = b /\ p[3] = c
  <2>1. Str(<<a, b, c>>, 3)
    BY DEF Str
  <2> QED BY <2>1
<1>2. PICK z : z = Zeros(6) /\ Str(z, 6) /\ \A i \in 1..6 : z[i] = 0
  BY ZerosAre
<1>3. 3 \in Nat /\ 6 \in Nat /\ 3 + 6 = 9
  OBVIOUS
<1>4. PICK s : s = p \o z /\ Spliced(s, p, 3, z, 6)
  BY <1>1, <1>2, <1>3, StrJoin, Zenon
<1>5. Str(s, 9) /\ \A j \in 1..9 : s[j] = IF j <= 3 THEN p[j] ELSE z[j - 3]
  BY <1>3, <1>4, Zenon DEF Spliced
<1>6. s[1] = p[1] /\ s[2] = p[2] /\ s[3] = p[3]
  BY <1>5
<1>7. s[4] = 0 /\ s[5] = 0 /\ s[6] = 0 /\ s[7] = 0 /\ s[8] = 0 /\ s[9] = 0
  BY <1>2, <1>5
<1> QED BY <1>1, <1>2, <1>4, <1>5, <1>6, <1>7, Zenon DEF NineAre

LEMMA IdBody ==
  ASSUME NEW a \in 0..255, NEW b \in 0..255, NEW c \in 0..255, NEW x \in 0..255
  PROVE  NineAre(<<a, b, c, x>> \o Zeros(4) \o <<x>>, a, b, c, x, 0, 0, 0, 0, x)
<1>1. PICK p : p = <<a, b, c, x>> /\ Str(p, 4) /\ p[1] = a /\ p[2] = b /\ p[3] = c /\ p[4] = x
  <2>1. Str(<<a, b, c, x>>, 4)
    BY DEF Str
  <2> QED BY <2>1
<1>2. PICK z : z = Zeros(4) /\ Str(z, 4) /\ \A i \in 1..4 : z[i] = 0
  BY ZerosAre
<1>3. 4 \in Nat /\ 8 \in Nat /\ 1 \in Nat /\ 4 + 4 = 8 /\ 8 + 1 = 9
  OBVIOUS
<1>4. PICK r : r = p \o z /\ Spliced(r, p, 4, z, 4)
  BY <1>1, <1>2, <1>3, StrJoin, Zenon
<1>5. Str(r, 8) /\ \A j \in 1..8 : r[j] = IF j <= 4 THEN p[j] ELSE z[j - 4]
  BY <1>3, <1>4, Zenon DEF Spliced
<1>6. PICK t : t = <<x>> /\ Str(t, 1) /\ t[1] = x
  BY StrOne, Zenon
<1>7. PICK s : s = r \o t /\ Spliced(s, r, 8, t, 1)
  BY <1>3, <1>5, <1>6, StrJoin, Zenon
<1>8. Str(s, 9) /\ \A j \in 1..9 : s[j] = IF j <= 8 THEN r[j] ELSE t[j - 8]
  BY <1>3, <1>7, Zenon DEF Spliced
<1>9. /\ s[1] = r[1] /\ s[2] = r[2] /\ s[3] = r[3] /\ s[4] = r[4] /\ s[5] = r[5]
      /\ s[6] = r[6] /\ s[7] = r[7] /\ s[8] = r[8] /\ s[9] = t[1]
  BY <1>8
<1>10. r[1] = p[1] /\ r[2] = p[2] /\ r[3] = p[3] /\ r[4] = p[4]
  BY <1>5
<1>11. r[5] = 0 /\ r[6] = 0 /\ r[7] = 0 /\ r[8] = 0
  BY <1>2, <1>5
<1>12. s = <<a, b, c, x>> \o Zeros(4) \o <<x>>
  BY <1>1, <1>2, <1>4, <1>6, <1>7, Zenon
<1> QED BY <1>1, <1>6, <1>8, <1>9, <1>10, <1>11, <1>12, Zenon DEF NineAre

\* A word that was laid out in a string is read there.
LEMMA WordAt ==
  ASSUME NEW n \in Nat, NEW s, Str(s, n), NEW a \in 1..n, a + 1 <= n, NEW w \in Int,
         s[a] = Digit(w, 1), s[a + 1] = Digit(w, 0)
  PROVE  Part(s, a, 2) = Be(w, 2)
<1>1. PICK t : t = Be(w, 2) /\ Str(t, 2) /\ t[1] = Digit(w, 1) /\ t[2] = Digit(w, 0)
  BY BeTwo, Zenon
<1>2. t[1] = s[a] /\ t[2] = s[a + 1]
  BY <1>1, Zenon
<1>3. \A i \in 1..2 : t[i] = s[a + i - 1]
  <2>1. \A i \in 1..2 : i = 1 \/ i = 2
    OBVIOUS
  <2>2. a + 1 - 1 = a /\ a + 2 - 1 = a + 1
    OBVIOUS
  <2> QED BY <1>2, <2>1, <2>2
<1>4. CutOut(t, s, a, 2) /\ 2 \in 1..n /\ a + 2 - 1 <= n
  <2>1. 2 \in 1..n /\ a + 2 - 1 <= n
    OBVIOUS
  <2> QED BY <1>1, <1>3, <2>1, Zenon DEF CutOut
<1>5. Part(s, a, 2) = t
  BY <1>4, WordOf, Zenon
<1> QED BY <1>1, <1>5, Zenon

LEMMA LongAt ==
  ASSUME NEW n \in Nat, NEW s, Str(s, n), NEW a \in 1..n, a + 3 <= n, NEW w \in Int,
         s[a] = Digit(w, 3), s[a + 1] = Digit(w, 2), s[a + 2] = Digit(w, 1), s[a + 3] = Digit(w, 0)
  PROVE  Part(s, a, 4) = Be(w, 4)
<1>1. PICK t : /\ t = Be(w, 4) /\ Str(t, 4) /\ t[1] = Digit(w, 3) /\ t[2] = Digit(w, 2)
               /\ t[3] = Digit(w, 1) /\ t[4] = Digit(w, 0)
  BY BeFour, Zenon
<1>2. t[1] = s[a] /\ t[2] = s[a + 1] /\ t[3] = s[a + 2] /\ t[4] = s[a + 3]
  BY <1>1, Zenon
<1>3. \A i \in 1..4 : t[i] = s[a + i - 1]
  <2>1. \A i \in 1..4 : i = 1 \/ i = 2 \/ i = 3 \/ i = 4
    OBVIOUS
  <2>2. a + 1 - 1 = a /\ a + 2 - 1 = a + 1 /\ a + 3 - 1 = a + 2 /\ a + 4 - 1 = a + 3
    OBVIOUS
  <2> QED BY <1>2, <2>1, <2>2
<1>4. CutOut(t, s, a, 4) /\ 4 \in 1..n /\ a + 4 - 1 <= n
  <2>1. 4 \in 1..n /\ a + 4 - 1 <= n
    OBVIOUS
  <2> QED BY <1>1, <1>3, <2>1, Zenon DEF CutOut
<1>5. Part(s, a, 4) = t
  BY <1>4, WordOf, ZenonT(60)
<1> QED BY <1>1, <1>5, Zenon

LEMMA ByteAt ==
  ASSUME NEW n \in Nat, NEW s, Str(s, n), NEW a \in 1..n, NEW w \in Int, s[a] = Digit(w, 0)
  PROVE  Part(s, a, 1) = Be(w, 1)
<1>1. PICK t : t = Be(w, 1) /\ Str(t, 1) /\ t[1] = Digit(w, 0)
  BY BeOne, Zenon
<1>3. \A i \in 1..1 : t[i] = s[a + i - 1]
  <2>1. \A i \in 1..1 : i = 1
    OBVIOUS
  <2>2. a + 1 - 1 = a
    OBVIOUS
  <2> QED BY <1>1, <2>1, <2>2
<1>4. CutOut(t, s, a, 1) /\ 1 \in 1..n /\ a + 1 - 1 <= n
  <2>1. 1 \in 1..n /\ a + 1 - 1 <= n
    OBVIOUS
  <2> QED BY <1>1, <1>3, <2>1, Zenon DEF CutOut
<1>5. Part(s, a, 1) = t
  BY <1>4, WordOf, Zenon
<1> QED BY <1>1, <1>5, Zenon

\* A frame of ten bytes whose checksum is right.
TenAre(s, a, b, c, d, e, f, g, h, i) ==
  /\ Str(s, 10)
  /\ s[1] = a /\ s[2] = b /\ s[3] = c /\ s[4] = d /\ s[5] = e
  /\ s[6] = f /\ s[7] = g /\ s[8] = h /\ s[9] = i
  /\ s[10] = Crc8Maxim(Part(s, 1, 9))

LEMMA TenOf ==
  ASSUME NEW body, NEW a, NEW b, NEW c, NEW d, NEW e, NEW f, NEW g, NEW h, NEW i,
         NineAre(body, a, b, c, d, e, f, g, h, i)
  PROVE  Sealing(Sealed(body), body) /\ TenAre(Sealed(body), a, b, c, d, e, f, g, h, i)
<1>1. Str(body, 9)
  BY Zenon DEF NineAre
<1>2. PICK s : s = Sealed(body) /\ Sealing(s, body)
  BY <1>1, SealIs, Zenon
<1>3. /\ s[1] = body[1] /\ s[2] = body[2] /\ s[3] = body[3] /\ s[4] = body[4] /\ s[5] = body[5]
      /\ s[6] = body[6] /\ s[7] = body[7] /\ s[8] = body[8] /\ s[9] = body[9]
  <2>1. \A j \in 1..9 : s[j] = body[j]
    BY <1>2, Zenon DEF Sealing
  <2> QED BY <2>1
<1>4. Str(s, 10) /\ s[10] = Crc8Maxim(Part(s, 1, 9))
  BY <1>2, Zenon DEF Sealing
<1>5. TenAre(s, a, b, c, d, e, f, g, h, i)
  BY <1>3, <1>4, Zenon DEF TenAre, NineAre
<1> QED BY <1>2, <1>5, Zenon

\* What a DDSM210 makes of such a frame.
LEMMA TenRead ==
  ASSUME NEW s, NEW a, NEW b, NEW c, NEW d, NEW e, NEW f, NEW g, NEW h, NEW x,
         TenAre(s, a, b, c, d, e, f, g, h, x), NEW i \in Drives
  PROVE  /\ a \notin {i, 170} => DdsmReads(i, s) = Refused
         /\ a \in {i, 170} => /\ b = 100 /\ h = 255 => DdsmReads(i, s) = <<"brake">>
                              /\ b = 100 /\ h # 255 => DdsmReads(i, s) = <<"drive", Signed(Part(s, 3, 2))>>
                              /\ b = 160 => DdsmReads(i, s) = <<"mode", c>>
                              /\ b = 116 => DdsmReads(i, s) = <<"odom">>
                              /\ b = 117 => DdsmReads(i, s) = <<"ask">>
                              /\ b = 85 /\ c = 83 => DdsmReads(i, s) = <<"id", d>>
<1>1. /\ s[1] = a /\ s[2] = b /\ s[3] = c /\ s[4] = d /\ s[8] = h /\ s[10] = Crc8Maxim(Part(s, 1, 9))
  BY Zenon DEF TenAre
<1> QED BY <1>1 DEF DdsmReads

\* What a command asks of a DDSM210.
DdsmAsked(op, v) ==
  CASE op = "speed"    -> <<"drive", Clamp(v, -2100, 2100)>>
    [] op = "position" -> <<"drive", Clamp(v, 0, 32767)>>
    [] op = "release"  -> <<"drive", 0>>
    [] op \in {"mode", "id"} -> <<op, v % 256>>
    [] OTHER           -> <<op>>

LEMMA DdsmCommanded ==
  ASSUME NEW id \in Drives, NEW op \in DdsmOps, NEW v \in Int, NEW i \in Drives
  PROVE  /\ \E body : Sealing(DdsmFrame(id, op, v), body)
         /\ DdsmReads(i, DdsmFrame(id, op, v)) =
              IF i = id \/ op = "id" THEN DdsmAsked(op, v) ELSE Refused
<1>1. PICK f : f = DdsmFrame(id, op, v)
  OBVIOUS
<1>2. id \in 0..255 /\ id # 170 /\ i # 170
  BY DrivesSmall
<1>3. 100 \in 0..255 /\ 160 \in 0..255 /\ 116 \in 0..255 /\ 117 \in 0..255 /\ 170 \in 0..255 /\ 85 \in 0..255 /\ 83 \in 0..255 /\ 255 \in 0..255 /\ 0 \in 0..255
  OBVIOUS
<1> SUFFICES /\ \E body : Sealing(f, body)
             /\ DdsmReads(i, f) = IF i = id \/ op = "id" THEN DdsmAsked(op, v) ELSE Refused
  BY <1>1
<1>4. CASE op = "speed"
  <2>0. PICK w \in Int : w = Clamp(v, -2100, 2100) /\ Within(w, 2)
    BY DEF Clamp, Within
  <2>1. PICK body : body = <<id, 100>> \o Be(w, 2) \o Zeros(5)
    OBVIOUS
  <2>2. f = Sealed(body)
    BY <1>1, <1>4, <2>0, <2>1 DEF DdsmFrame
  <2>3. NineAre(body, id, 100, Digit(w, 1), Digit(w, 0), 0, 0, 0, 0, 0)
    BY <1>2, <1>3, <2>1, NumberBody, ZenonT(60)
  <2>4. Sealing(f, body) /\ TenAre(f, id, 100, Digit(w, 1), Digit(w, 0), 0, 0, 0, 0, 0)
    BY <2>2, <2>3, TenOf, Zenon
  <2>5. Signed(Part(f, 3, 2)) = w
    <3>1. Str(f, 10) /\ f[3] = Digit(w, 1) /\ f[4] = Digit(w, 0)
      BY <2>4, Zenon DEF TenAre
    <3>2. Part(f, 3, 2) = Be(w, 2)
      BY <3>1, WordAt
    <3> QED BY <2>0, <3>2, SignedBe
  <2>6. DdsmReads(i, f) = IF i = id \/ op = "id" THEN DdsmAsked(op, v) ELSE Refused
    BY <1>2, <1>4, <2>0, <2>4, <2>5, TenRead DEF DdsmAsked
  <2> QED BY <2>4, <2>6
<1>5. CASE op = "position"
  <2>0. PICK w \in Int : w = Clamp(v, 0, 32767) /\ Within(w, 2)
    BY DEF Clamp, Within
  <2>1. PICK body : body = <<id, 100>> \o Be(w, 2) \o Zeros(5)
    OBVIOUS
  <2>2. f = Sealed(body)
    BY <1>1, <1>5, <2>0, <2>1 DEF DdsmFrame
  <2>3. NineAre(body, id, 100, Digit(w, 1), Digit(w, 0), 0, 0, 0, 0, 0)
    BY <1>2, <1>3, <2>1, NumberBody, Zenon
  <2>4. Sealing(f, body) /\ TenAre(f, id, 100, Digit(w, 1), Digit(w, 0), 0, 0, 0, 0, 0)
    BY <2>2, <2>3, TenOf, Zenon
  <2>5. Signed(Part(f, 3, 2)) = w
    <3>1. Str(f, 10) /\ f[3] = Digit(w, 1) /\ f[4] = Digit(w, 0)
      BY <2>4, Zenon DEF TenAre
    <3>2. Part(f, 3, 2) = Be(w, 2)
      BY <3>1, WordAt
    <3> QED BY <2>0, <3>2, SignedBe
  <2>6. DdsmReads(i, f) = IF i = id \/ op = "id" THEN DdsmAsked(op, v) ELSE Refused
    BY <1>2, <1>5, <2>0, <2>4, <2>5, TenRead DEF DdsmAsked
  <2> QED BY <2>4, <2>6
<1>6. CASE op = "release"
  <2>1. PICK body : body = <<id, 100>> \o Zeros(7)
    OBVIOUS
  <2>2. f = Sealed(body)
    BY <1>1, <1>6, <2>1 DEF DdsmFrame
  <2>3. NineAre(body, id, 100, 0, 0, 0, 0, 0, 0, 0)
    BY <1>2, <1>3, <2>1, PlainBody, Zenon
  <2>4. Sealing(f, body) /\ TenAre(f, id, 100, 0, 0, 0, 0, 0, 0, 0)
    BY <2>2, <2>3, TenOf, Zenon
  <2>5. Signed(Part(f, 3, 2)) = 0
    <3>1. Str(f, 10) /\ f[3] = 0 /\ f[4] = 0 /\ Digit(0, 1) = 0 /\ Digit(0, 0) = 0
      <4>1. Digit(0, 1) = 0 /\ Digit(0, 0) = 0
        BY DigitIs
      <4> QED BY <2>4, <4>1, Zenon DEF TenAre
    <3>2. Part(f, 3, 2) = Be(0, 2)
      BY <3>1, WordAt
    <3>3. Within(0, 2)
      BY DEF Within
    <3> QED BY <3>2, <3>3, SignedBe
  <2>6. DdsmReads(i, f) = IF i = id \/ op = "id" THEN DdsmAsked(op, v) ELSE Refused
    BY <1>2, <1>6, <2>4, <2>5, TenRead DEF DdsmAsked
  <2> QED BY <2>4, <2>6
<1>7. CASE op = "brake"
  <2>1. PICK body : body = <<id, 100>> \o Zeros(5) \o <<255, 0>>
    OBVIOUS
  <2>2. f = Sealed(body)
    BY <1>1, <1>7, <2>1 DEF DdsmFrame
  <2>3. NineAre(body, id, 100, 0, 0, 0, 0, 0, 255, 0)
    BY <1>2, <1>3, <2>1, BrakeBody, ZenonT(60)
  <2>4. Sealing(f, body) /\ TenAre(f, id, 100, 0, 0, 0, 0, 0, 255, 0)
    BY <2>2, <2>3, TenOf, Zenon
  <2>6. DdsmReads(i, f) = IF i = id \/ op = "id" THEN DdsmAsked(op, v) ELSE Refused
    BY <1>2, <1>7, <2>4, TenRead DEF DdsmAsked
  <2> QED BY <2>4, <2>6
<1>8. CASE op = "mode"
  <2>0. PICK c \in 0..255 : c = v % 256
    OBVIOUS
  <2>1. PICK body : body = <<id, 160, c>> \o Zeros(6)
    OBVIOUS
  <2>2. f = Sealed(body)
    BY <1>1, <1>8, <2>0, <2>1 DEF DdsmFrame
  <2>3. NineAre(body, id, 160, c, 0, 0, 0, 0, 0, 0)
    BY <1>2, <1>3, <2>1, ModeBody, ZenonT(60)
  <2>4. Sealing(f, body) /\ TenAre(f, id, 160, c, 0, 0, 0, 0, 0, 0)
    BY <2>2, <2>3, TenOf, Zenon
  <2>6. DdsmReads(i, f) = IF i = id \/ op = "id" THEN DdsmAsked(op, v) ELSE Refused
    BY <1>2, <1>8, <2>0, <2>4, TenRead DEF DdsmAsked
  <2> QED BY <2>4, <2>6
<1>9. CASE op = "odom"
  <2>1. PICK body : body = <<id, 116>> \o Zeros(7)
    OBVIOUS
  <2>2. f = Sealed(body)
    BY <1>1, <1>9, <2>1 DEF DdsmFrame
  <2>3. NineAre(body, id, 116, 0, 0, 0, 0, 0, 0, 0)
    BY <1>2, <1>3, <2>1, PlainBody, Zenon
  <2>4. Sealing(f, body) /\ TenAre(f, id, 116, 0, 0, 0, 0, 0, 0, 0)
    BY <2>2, <2>3, TenOf, Zenon
  <2>6. DdsmReads(i, f) = IF i = id \/ op = "id" THEN DdsmAsked(op, v) ELSE Refused
    BY <1>2, <1>9, <2>4, TenRead DEF DdsmAsked
  <2> QED BY <2>4, <2>6
<1>10. CASE op = "ask"
  <2>1. PICK body : body = <<id, 117>> \o Zeros(7)
    OBVIOUS
  <2>2. f = Sealed(body)
    BY <1>1, <1>10, <2>1 DEF DdsmFrame
  <2>3. NineAre(body, id, 117, 0, 0, 0, 0, 0, 0, 0)
    BY <1>2, <1>3, <2>1, PlainBody, Zenon
  <2>4. Sealing(f, body) /\ TenAre(f, id, 117, 0, 0, 0, 0, 0, 0, 0)
    BY <2>2, <2>3, TenOf, Zenon
  <2>6. DdsmReads(i, f) = IF i = id \/ op = "id" THEN DdsmAsked(op, v) ELSE Refused
    BY <1>2, <1>10, <2>4, TenRead DEF DdsmAsked
  <2> QED BY <2>4, <2>6
<1>11. CASE op = "id"
  <2>0. PICK c \in 0..255 : c = v % 256
    OBVIOUS
  <2>1. PICK body : body = <<170, 85, 83, c>> \o Zeros(4) \o <<c>>
    OBVIOUS
  <2>2. f = Sealed(body)
    BY <1>1, <1>11, <2>0, <2>1 DEF DdsmFrame
  <2>3. NineAre(body, 170, 85, 83, c, 0, 0, 0, 0, c)
    BY <1>2, <1>3, <2>1, IdBody, ZenonT(60)
  <2>4. Sealing(f, body) /\ TenAre(f, 170, 85, 83, c, 0, 0, 0, 0, c)
    BY <2>2, <2>3, TenOf, ZenonT(60)
  <2>6. DdsmReads(i, f) = IF i = id \/ op = "id" THEN DdsmAsked(op, v) ELSE Refused
    BY <1>2, <1>11, <2>0, <2>4, TenRead DEF DdsmAsked
  <2> QED BY <2>4, <2>6
<1> QED BY <1>4, <1>5, <1>6, <1>7, <1>8, <1>9, <1>10, <1>11 DEF DdsmOps

\* Readings of a DDSM210.
LEMMA ReadingBody ==
  ASSUME NEW a \in 0..255, NEW b \in 0..255, NEW c \in 0..255, NEW d \in 0..255,
         NEW w \in Int, NEW x \in Int, NEW y \in Int
  PROVE  NineAre(<<a, b>> \o Be(w, 2) \o Be(x, 2) \o <<c>> \o Be(y, 1) \o <<d>>, a, b, Digit(w, 1), Digit(w, 0), Digit(x, 1), Digit(x, 0), c, Digit(y, 0), d)
<1>1. PICK p1 : p1 = <<a, b>> /\ Str(p1, 2) /\ p1[1] = a /\ p1[2] = b
  BY StrTwo, ZenonT(60)
<1>2. PICK p2 : p2 = Be(w, 2) /\ Str(p2, 2) /\ p2[1] = Digit(w, 1) /\ p2[2] = Digit(w, 0)
  BY BeTwo, Zenon
<1>3. PICK p3 : p3 = Be(x, 2) /\ Str(p3, 2) /\ p3[1] = Digit(x, 1) /\ p3[2] = Digit(x, 0)
  BY BeTwo, Zenon
<1>4. PICK p4 : p4 = <<c>> /\ Str(p4, 1) /\ p4[1] = c
  BY StrOne, Zenon
<1>5. PICK p5 : p5 = Be(y, 1) /\ Str(p5, 1) /\ p5[1] = Digit(y, 0)
  BY BeOne, Zenon
<1>6. PICK p6 : p6 = <<d>> /\ Str(p6, 1) /\ p6[1] = d
  BY StrOne, Zenon
<1>7. 1 \in Nat /\ 2 \in Nat /\ 4 \in Nat /\ 6 \in Nat /\ 7 \in Nat /\ 8 \in Nat /\ 9 \in Nat
      /\ 2 + 2 = 4 /\ 4 + 2 = 6 /\ 6 + 1 = 7 /\ 7 + 1 = 8 /\ 8 + 1 = 9
  OBVIOUS
<1>8. PICK r1 : r1 = p1 \o p2 /\ Spliced(r1, p1, 2, p2, 2)
  BY <1>1, <1>2, <1>7, StrJoin, Zenon
<1>9. Str(r1, 4) /\ \A j \in 1..4 : r1[j] = IF j <= 2 THEN p1[j] ELSE p2[j - 2]
  BY <1>7, <1>8, Zenon DEF Spliced
<1>10. r1[1] = a /\ r1[2] = b /\ r1[3] = Digit(w, 1) /\ r1[4] = Digit(w, 0)
  BY <1>1, <1>2, <1>9
<1>11. PICK r2 : r2 = r1 \o p3 /\ Spliced(r2, r1, 4, p3, 2)
  BY <1>9, <1>3, <1>7, StrJoin, Zenon
<1>12. Str(r2, 6) /\ \A j \in 1..6 : r2[j] = IF j <= 4 THEN r1[j] ELSE p3[j - 4]
  BY <1>7, <1>11, Zenon DEF Spliced
<1>13. r2[1] = a /\ r2[2] = b /\ r2[3] = Digit(w, 1) /\ r2[4] = Digit(w, 0) /\ r2[5] = Digit(x, 1)
      /\ r2[6] = Digit(x, 0)
  BY <1>10, <1>3, <1>12
<1>14. PICK r3 : r3 = r2 \o p4 /\ Spliced(r3, r2, 6, p4, 1)
  BY <1>12, <1>4, <1>7, StrJoin, Zenon
<1>15. Str(r3, 7) /\ \A j \in 1..7 : r3[j] = IF j <= 6 THEN r2[j] ELSE p4[j - 6]
  BY <1>7, <1>14, Zenon DEF Spliced
<1>16. r3[1] = a /\ r3[2] = b /\ r3[3] = Digit(w, 1) /\ r3[4] = Digit(w, 0) /\ r3[5] = Digit(x, 1)
      /\ r3[6] = Digit(x, 0) /\ r3[7] = c
  BY <1>13, <1>4, <1>15
<1>17. PICK r4 : r4 = r3 \o p5 /\ Spliced(r4, r3, 7, p5, 1)
  BY <1>15, <1>5, <1>7, StrJoin, Zenon
<1>18. Str(r4, 8) /\ \A j \in 1..8 : r4[j] = IF j <= 7 THEN r3[j] ELSE p5[j - 7]
  BY <1>7, <1>17, Zenon DEF Spliced
<1>19. r4[1] = a /\ r4[2] = b /\ r4[3] = Digit(w, 1) /\ r4[4] = Digit(w, 0) /\ r4[5] = Digit(x, 1)
      /\ r4[6] = Digit(x, 0) /\ r4[7] = c /\ r4[8] = Digit(y, 0)
  BY <1>16, <1>5, <1>18
<1>20. PICK r5 : r5 = r4 \o p6 /\ Spliced(r5, r4, 8, p6, 1)
  BY <1>18, <1>6, <1>7, StrJoin, Zenon
<1>21. Str(r5, 9) /\ \A j \in 1..9 : r5[j] = IF j <= 8 THEN r4[j] ELSE p6[j - 8]
  BY <1>7, <1>20, Zenon DEF Spliced
<1>22. r5[1] = a /\ r5[2] = b /\ r5[3] = Digit(w, 1) /\ r5[4] = Digit(w, 0) /\ r5[5] = Digit(x, 1)
      /\ r5[6] = Digit(x, 0) /\ r5[7] = c /\ r5[8] = Digit(y, 0) /\ r5[9] = d
  BY <1>19, <1>6, <1>21
<1>23. r5 = <<a, b>> \o Be(w, 2) \o Be(x, 2) \o <<c>> \o Be(y, 1) \o <<d>>
  BY <1>1, <1>2, <1>3, <1>4, <1>5, <1>6, <1>8, <1>11, <1>14, <1>17, <1>20, Zenon
<1>24. NineAre(r5, a, b, Digit(w, 1), Digit(w, 0), Digit(x, 1), Digit(x, 0), c, Digit(y, 0), d)
  BY <1>21, <1>22, Zenon DEF NineAre
<1> QED BY <1>23, <1>24, Zenon

LEMMA OdomBody ==
  ASSUME NEW a \in 0..255, NEW b \in 0..255, NEW w \in Int, NEW x \in Int, NEW c \in 0..255
  PROVE  NineAre(<<a, b>> \o Be(w, 4) \o Be(x, 2) \o <<c>>, a, b, Digit(w, 3), Digit(w, 2), Digit(w, 1), Digit(w, 0), Digit(x, 1), Digit(x, 0), c)
<1>1. PICK p1 : p1 = <<a, b>> /\ Str(p1, 2) /\ p1[1] = a /\ p1[2] = b
  BY StrTwo, ZenonT(60)
<1>2. PICK p2 : p2 = Be(w, 4) /\ Str(p2, 4) /\ p2[1] = Digit(w, 3) /\ p2[2] = Digit(w, 2) /\ p2[3] = Digit(w, 1) /\ p2[4] = Digit(w, 0)
  BY BeFour, Zenon
<1>3. PICK p3 : p3 = Be(x, 2) /\ Str(p3, 2) /\ p3[1] = Digit(x, 1) /\ p3[2] = Digit(x, 0)
  BY BeTwo, Zenon
<1>4. PICK p4 : p4 = <<c>> /\ Str(p4, 1) /\ p4[1] = c
  BY StrOne, Zenon
<1>5. 1 \in Nat /\ 2 \in Nat /\ 4 \in Nat /\ 6 \in Nat /\ 8 \in Nat /\ 9 \in Nat /\ 2 + 4 = 6
      /\ 6 + 2 = 8 /\ 8 + 1 = 9
  OBVIOUS
<1>6. PICK r1 : r1 = p1 \o p2 /\ Spliced(r1, p1, 2, p2, 4)
  BY <1>1, <1>2, <1>5, StrJoin, Zenon
<1>7. Str(r1, 6) /\ \A j \in 1..6 : r1[j] = IF j <= 2 THEN p1[j] ELSE p2[j - 2]
  BY <1>5, <1>6, Zenon DEF Spliced
<1>8. r1[1] = a /\ r1[2] = b /\ r1[3] = Digit(w, 3) /\ r1[4] = Digit(w, 2) /\ r1[5] = Digit(w, 1)
      /\ r1[6] = Digit(w, 0)
  BY <1>1, <1>2, <1>7
<1>9. PICK r2 : r2 = r1 \o p3 /\ Spliced(r2, r1, 6, p3, 2)
  BY <1>7, <1>3, <1>5, StrJoin, Zenon
<1>10. Str(r2, 8) /\ \A j \in 1..8 : r2[j] = IF j <= 6 THEN r1[j] ELSE p3[j - 6]
  BY <1>5, <1>9, Zenon DEF Spliced
<1>11. r2[1] = a /\ r2[2] = b /\ r2[3] = Digit(w, 3) /\ r2[4] = Digit(w, 2) /\ r2[5] = Digit(w, 1)
      /\ r2[6] = Digit(w, 0) /\ r2[7] = Digit(x, 1) /\ r2[8] = Digit(x, 0)
  BY <1>8, <1>3, <1>10
<1>12. PICK r3 : r3 = r2 \o p4 /\ Spliced(r3, r2, 8, p4, 1)
  BY <1>10, <1>4, <1>5, StrJoin, Zenon
<1>13. Str(r3, 9) /\ \A j \in 1..9 : r3[j] = IF j <= 8 THEN r2[j] ELSE p4[j - 8]
  BY <1>5, <1>12, Zenon DEF Spliced
<1>14. r3[1] = a /\ r3[2] = b /\ r3[3] = Digit(w, 3) /\ r3[4] = Digit(w, 2) /\ r3[5] = Digit(w, 1)
      /\ r3[6] = Digit(w, 0) /\ r3[7] = Digit(x, 1) /\ r3[8] = Digit(x, 0) /\ r3[9] = c
  BY <1>11, <1>4, <1>13
<1>15. r3 = <<a, b>> \o Be(w, 4) \o Be(x, 2) \o <<c>>
  BY <1>1, <1>2, <1>3, <1>4, <1>6, <1>9, <1>12, Zenon
<1>16. NineAre(r3, a, b, Digit(w, 3), Digit(w, 2), Digit(w, 1), Digit(w, 0), Digit(x, 1), Digit(x, 0), c)
  BY <1>13, <1>14, Zenon DEF NineAre
<1> QED BY <1>15, <1>16, Zenon

\* What the driver makes of such a frame.
LEMMA TenDecode ==
  ASSUME NEW s, NEW a, NEW b, NEW c, NEW d, NEW e, NEW f, NEW g, NEW h, NEW x,
         TenAre(s, a, b, c, d, e, f, g, h, x), NEW i
  PROVE  /\ a # i => DdsmDecode(i, s) = Refused
         /\ a = i /\ b = 100 =>
              DdsmDecode(i, s) = <<"speed", Signed(Part(s, 3, 2)), Signed(Part(s, 5, 2)), g, Signed(Part(s, 8, 1))>>
         /\ a = i /\ b = 116 =>
              DdsmDecode(i, s) = <<"odom", Signed(Part(s, 3, 4)), Unsigned(Part(s, 7, 2)), x>>
         /\ a = i /\ b = 117 => DdsmDecode(i, s) = <<"mode", c>>
         /\ a = i /\ b = 160 => DdsmDecode(i, s) = <<"switched", c>>
<1>1. /\ s[1] = a /\ s[2] = b /\ s[3] = c /\ s[7] = g /\ s[9] = x /\ s[10] = Crc8Maxim(Part(s, 1, 9))
  BY Zenon DEF TenAre
<1> QED BY <1>1 DEF DdsmDecode, DdsmAccepts

\* What a DDSM210 may answer.
DdsmReading(op, v) ==
  \/ /\ op = "speed"
     /\ \E w, x, c, y : /\ Within(w, 2) /\ Within(x, 2) /\ c \in 0..255 /\ Within(y, 1)
                       /\ v = <<w, x, c, y>>
  \/ /\ op = "odom"
     /\ \E w, x, c : /\ Within(w, 4) /\ x \in Nat /\ x < 256 * 256 /\ c \in 0..255
                    /\ v = <<w, x, c>>
  \/ /\ op \in {"mode", "switched"}
     /\ \E c : c \in 0..255 /\ v = <<c>>

LEMMA DdsmAnswered ==
  ASSUME NEW id \in Drives, NEW op, NEW v, DdsmReading(op, v), NEW i \in Drives
  PROVE  /\ \E body : Sealing(DdsmAnswer(id, op, v), body)
         /\ DdsmDecode(i, DdsmAnswer(id, op, v)) = IF i = id THEN <<op>> \o v ELSE Refused
<1>1. PICK f : f = DdsmAnswer(id, op, v)
  OBVIOUS
<1>2. id \in 0..255
  BY DrivesSmall
<1>3. 100 \in 0..255 /\ 160 \in 0..255 /\ 116 \in 0..255 /\ 117 \in 0..255 /\ 0 \in 0..255
  OBVIOUS
<1> SUFFICES /\ \E body : Sealing(f, body)
             /\ DdsmDecode(i, f) = IF i = id THEN <<op>> \o v ELSE Refused
  BY <1>1
<1>4. CASE op = "speed"
  <2>1. PICK w, x, c, y : /\ Within(w, 2) /\ Within(x, 2) /\ c \in 0..255 /\ Within(y, 1)
                          /\ v = <<w, x, c, y>>
    BY <1>4 DEF DdsmReading
  <2>2. w \in Int /\ x \in Int /\ y \in Int
    BY <2>1, Zenon DEF Within
  <2>3. PICK body : body = <<id, 100>> \o Be(w, 2) \o Be(x, 2) \o <<c>> \o Be(y, 1) \o <<0>>
    OBVIOUS
  <2>4. f = Sealed(body)
    BY <1>1, <1>4, <2>1, <2>3 DEF DdsmAnswer
  <2>5. NineAre(body, id, 100, Digit(w, 1), Digit(w, 0), Digit(x, 1), Digit(x, 0), c, Digit(y, 0), 0)
    <3>1. c \in 0..255
      BY <2>1
    <3>2. PICK k \in 0..255, z \in 0..255 : k = 100 /\ z = 0
      OBVIOUS
    <3> HIDE <2>1
    <3>3. NineAre(<<id, k>> \o Be(w, 2) \o Be(x, 2) \o <<c>> \o Be(y, 1) \o <<z>>,
                  id, k, Digit(w, 1), Digit(w, 0), Digit(x, 1), Digit(x, 0), c, Digit(y, 0), z)
      BY <1>2, <2>2, <3>1, ReadingBody, ZenonT(60)
    <3> QED BY <2>3, <3>2, <3>3, Zenon
  <2>6. Sealing(f, body)
        /\ TenAre(f, id, 100, Digit(w, 1), Digit(w, 0), Digit(x, 1), Digit(x, 0), c, Digit(y, 0), 0)
    BY <2>4, <2>5, TenOf, Zenon
  <2>7. /\ Str(f, 10) /\ f[3] = Digit(w, 1) /\ f[4] = Digit(w, 0)
        /\ f[5] = Digit(x, 1) /\ f[6] = Digit(x, 0) /\ f[8] = Digit(y, 0)
    BY <2>6, Zenon DEF TenAre
  <2>8. Signed(Part(f, 3, 2)) = w
    <3>1. Part(f, 3, 2) = Be(w, 2)
      BY <2>2, <2>7, WordAt
    <3> QED BY <2>1, <3>1, SignedBe
  <2>9. Signed(Part(f, 5, 2)) = x
    <3>1. Part(f, 5, 2) = Be(x, 2)
      BY <2>2, <2>7, WordAt
    <3> QED BY <2>1, <3>1, SignedBe
  <2>10. Signed(Part(f, 8, 1)) = y
    <3>1. Part(f, 8, 1) = Be(y, 1)
      BY <2>2, <2>7, ByteAt
    <3> QED BY <2>1, <3>1, SignedBe
  <2>11. DdsmDecode(i, f) = IF i = id THEN <<"speed", w, x, c, y>> ELSE Refused
    BY <2>6, <2>8, <2>9, <2>10, TenDecode
  <2>12. <<op>> \o v = <<"speed", w, x, c, y>>
    BY <1>4, <2>1, FourAfter
  <2> QED BY <2>6, <2>11, <2>12
<1>5. CASE op = "odom"
  <2>1. PICK w, x, c : /\ Within(w, 4) /\ x \in Nat /\ x < 256 * 256 /\ c \in 0..255
                       /\ v = <<w, x, c>>
    BY <1>5 DEF DdsmReading
  <2>2. w \in Int /\ x \in Int
    BY <2>1 DEF Within
  <2>3. PICK body : body = <<id, 116>> \o Be(w, 4) \o Be(x, 2) \o <<c>>
    OBVIOUS
  <2>4. f = Sealed(body)
    BY <1>1, <1>5, <2>1, <2>3 DEF DdsmAnswer
  <2>5. NineAre(body, id, 116, Digit(w, 3), Digit(w, 2), Digit(w, 1), Digit(w, 0), Digit(x, 1), Digit(x, 0), c)
    BY <1>2, <1>3, <2>1, <2>2, <2>3, OdomBody, ZenonT(60)
  <2>6. Sealing(f, body)
        /\ TenAre(f, id, 116, Digit(w, 3), Digit(w, 2), Digit(w, 1), Digit(w, 0), Digit(x, 1), Digit(x, 0), c)
    BY <2>4, <2>5, TenOf, Zenon
  <2>7. /\ Str(f, 10) /\ f[3] = Digit(w, 3) /\ f[4] = Digit(w, 2) /\ f[5] = Digit(w, 1)
        /\ f[6] = Digit(w, 0) /\ f[7] = Digit(x, 1) /\ f[8] = Digit(x, 0)
    BY <2>6, Zenon DEF TenAre
  <2>8. Signed(Part(f, 3, 4)) = w
    <3>1. Part(f, 3, 4) = Be(w, 4)
      BY <2>2, <2>7, LongAt
    <3> QED BY <2>1, <3>1, SignedBe
  <2>9. Unsigned(Part(f, 7, 2)) = x
    <3>1. Part(f, 7, 2) = Be(x, 2)
      BY <2>2, <2>7, WordAt
    <3> QED BY <2>1, <3>1, UnsignedBe
  <2>10. DdsmDecode(i, f) = IF i = id THEN <<"odom", w, x, c>> ELSE Refused
    BY <2>6, <2>8, <2>9, TenDecode
  <2>11. <<op>> \o v = <<"odom", w, x, c>>
    BY <1>5, <2>1, ThreeAfter
  <2> QED BY <2>6, <2>10, <2>11
<1>6. CASE op \in {"mode", "switched"}
  <2>1. PICK c : c \in 0..255 /\ v = <<c>>
    BY <1>6 DEF DdsmReading
  <2>2. PICK k \in {117, 160} : k = IF op = "mode" THEN 117 ELSE 160
    OBVIOUS
  <2>3. PICK body : body = <<id, k, c>> \o Zeros(6)
    OBVIOUS
  <2>4. f = Sealed(body)
    BY <1>1, <1>6, <2>1, <2>2, <2>3 DEF DdsmAnswer
  <2>5. NineAre(body, id, k, c, 0, 0, 0, 0, 0, 0)
    <3>1. k \in 0..255
      OBVIOUS
    <3> QED BY <1>2, <2>1, <2>3, <3>1, ModeBody, Zenon
  <2>6. Sealing(f, body) /\ TenAre(f, id, k, c, 0, 0, 0, 0, 0, 0)
    BY <2>4, <2>5, TenOf, Zenon
  <2>7. DdsmDecode(i, f) = IF i = id THEN <<op, c>> ELSE Refused
    BY <1>6, <2>2, <2>6, TenDecode
  <2>8. <<op>> \o v = <<op, c>>
    BY <2>1, OneAfter
  <2> QED BY <2>6, <2>7, <2>8
<1> QED BY <1>4, <1>5, <1>6 DEF DdsmReading

\* A damaged frame is refused by both.
LEMMA DdsmDamaged ==
  ASSUME NEW f, NEW body, Sealing(f, body), NEW d, ByteOff(d, f, 10), NEW i
  PROVE  DdsmReads(i, d) = Refused /\ DdsmDecode(i, d) = Refused
BY DamageBreaksTheSeal DEF DdsmReads, DdsmDecode, DdsmAccepts

-----------------------------------------------------------------------------
(* The frames of the SMS/STS servos.                                         *)

\* Two bytes, n of a body, and their sum.
Summed(f, body, n) ==
  /\ Str(body, n) /\ Str(f, n + 3)
  /\ f[1] = 255 /\ f[2] = 255 /\ (\A i \in 1..n : f[i + 2] = body[i])
  /\ f[n + 3] = CheckSum(body)

LEMMA SumTyped ==
  ASSUME NEW n \in Nat, NEW s, Str(s, n)
  PROVE  CheckSum(s) \in 0..255
<1>1. PICK t \in Int : t = FoldLeft(+, 0, s)
  BY TotalTyped
<1>2. 255 - (t % 256) \in 0..255
  OBVIOUS
<1> QED BY <1>1, <1>2 DEF CheckSum

LEMMA SummedIs ==
  ASSUME NEW n \in Nat, NEW body, Str(body, n)
  PROVE  Summed(ScsFrame(body), body, n)
<1>1. PICK c \in 0..255 : c = CheckSum(body)
  BY SumTyped
<1>2. PICK s : s = Append(body, c) /\ Longer(s, body, n, c)
  BY StrAppend, Zenon
<1>3. Str(s, n + 1) /\ (\A i \in 1..n : s[i] = body[i]) /\ s[n + 1] = c
  BY <1>2, Zenon DEF Longer
<1>4. PICK p : p = <<255, 255>> /\ Str(p, 2) /\ p[1] = 255 /\ p[2] = 255
  <2>1. Str(<<255, 255>>, 2)
    BY DEF Str
  <2> QED BY <2>1
<1>5. n + 1 \in Nat /\ 2 \in Nat /\ 2 + (n + 1) = n + 3
  OBVIOUS
<1>6. PICK f : f = p \o s /\ Spliced(f, p, 2, s, n + 1)
  <2>1. PICK m \in Nat : m = n + 1
    BY <1>5
  <2>2. Str(p, 2) /\ Str(s, m) /\ 2 \in Nat
    BY <1>3, <1>4, <1>5, <2>1, Zenon
  <2>3. Spliced(p \o s, p, 2, s, m)
    BY <2>2, StrJoin, Zenon
  <2> QED BY <2>1, <2>3, Zenon
<1>7. Str(f, n + 3) /\ \A j \in 1..(n + 3) : f[j] = IF j <= 2 THEN p[j] ELSE s[j - 2]
  BY <1>5, <1>6, Zenon DEF Spliced
<1>8. f[1] = p[1] /\ f[2] = p[2] /\ f[n + 3] = s[n + 1]
  BY <1>7
<1>9. \A i \in 1..n : f[i + 2] = s[i]
  <2> TAKE i \in 1..n
  <2>1. i + 2 \in 1..(n + 3) /\ ~(i + 2 <= 2) /\ (i + 2) - 2 = i
    OBVIOUS
  <2> QED BY <1>7, <2>1
<1>10. \A i \in 1..n : f[i + 2] = body[i]
  BY <1>3, <1>9, Zenon
<1>11. f = ScsFrame(body)
  BY <1>1, <1>2, <1>4, <1>6, Zenon DEF ScsFrame
<1> QED BY <1>1, <1>3, <1>4, <1>7, <1>8, <1>10, <1>11, Zenon DEF Summed

LEMMA SummedIntact ==
  ASSUME NEW n \in Nat \ {0}, NEW body, NEW f, Summed(f, body, n)
  PROVE  Len(f) = n + 3 /\ Part(f, 3, n) = body /\ ScsIntact(f)
<1>1. n + 3 \in Nat /\ n \in Nat /\ 3 \in 1..(n + 3) /\ n \in 1..(n + 3) /\ 3 + n - 1 <= n + 3
  OBVIOUS
<1>2. Str(f, n + 3) /\ Str(body, n) /\ \A i \in 1..n : f[i + 2] = body[i]
  BY Zenon DEF Summed
<1>3. Len(f) = n + 3
  BY <1>1, <1>2, StrIs, Zenon
<1>4. CutOut(body, f, 3, n)
  <2>1. \A i \in 1..n : 3 + i - 1 = i + 2
    OBVIOUS
  <2> QED BY <1>2, <2>1, Zenon DEF CutOut
<1>5. Part(f, 3, n) = body
  BY <1>1, <1>2, <1>4, WordOf, Zenon
<1>6. Len(f) - 3 = n
  BY <1>3
<1> QED BY <1>3, <1>5, <1>6, Zenon DEF Summed, ScsIntact

LEMMA DamageBreaksTheSum ==
  ASSUME NEW n \in Nat \ {0}, NEW body, NEW f, Summed(f, body, n), NEW d, ByteOff(d, f, n + 3)
  PROVE  ~ScsIntact(d)
<1> SUFFICES ASSUME ScsIntact(d) PROVE FALSE
  OBVIOUS
<1>1. n + 3 \in Nat /\ n \in Nat /\ 3 \in 1..(n + 3) /\ n \in 1..(n + 3) /\ 3 + n - 1 <= n + 3
  OBVIOUS
<1>2. /\ Str(f, n + 3) /\ Str(body, n) /\ f[1] = 255 /\ f[2] = 255 /\ f[n + 3] = CheckSum(body)
      /\ \A i \in 1..n : f[i + 2] = body[i]
  BY Zenon DEF Summed
<1>3. Str(d, n + 3) /\ \E k \in 1..(n + 3) : d[k] # f[k] /\ \A i \in 1..(n + 3) : i # k => d[i] = f[i]
  BY <1>1, <1>2, OffIs
<1>4. PICK k \in 1..(n + 3) : d[k] # f[k] /\ \A i \in 1..(n + 3) : i # k => d[i] = f[i]
  BY <1>3
<1>5. Len(d) = n + 3 /\ Len(d) - 3 = n
  <2>1. Len(d) = n + 3
    BY <1>1, <1>3, StrIs, Zenon
  <2> QED BY <2>1
<1>6. PICK w : w = Part(d, 3, n) /\ Str(w, n) /\ \A i \in 1..n : w[i] = d[i + 2]
  <2>1. CutOut(Part(d, 3, n), d, 3, n)
    BY <1>1, <1>3, PartIs, Zenon
  <2>2. \A i \in 1..n : 3 + i - 1 = i + 2
    OBVIOUS
  <2> QED BY <2>1, <2>2, Zenon DEF CutOut
<1>7. d[1] = 255 /\ d[2] = 255 /\ d[n + 3] = CheckSum(w)
  BY <1>5, <1>6, Zenon DEF ScsIntact
<1>8. k # 1 /\ k # 2
  BY <1>2, <1>4, <1>7, ZenonT(60)
<1>9. CASE k = n + 3
  <2>1. \A i \in 1..n : w[i] = body[i]
    <3> TAKE i \in 1..n
    <3>1. i + 2 \in 1..(n + 3) /\ i + 2 # n + 3
      OBVIOUS
    <3>2. d[i + 2] = f[i + 2]
      BY <1>4, <1>9, <3>1
    <3> QED BY <1>2, <1>6, <3>2, Zenon
  <2>2. w = body
    BY <1>1, <1>2, <1>6, <2>1, StrSame, Zenon
  <2> QED BY <1>2, <1>4, <1>7, <1>9, <2>2, Zenon
<1>10. CASE k # n + 3
  <2>1. PICK p \in 1..n : p + 2 = k
    <3>1. k - 2 \in 1..n /\ (k - 2) + 2 = k
      BY <1>8, <1>10
    <3> QED BY <3>1
  <2>2. w[p] # body[p]
    BY <1>2, <1>4, <1>6, <2>1, Zenon
  <2>3. \A i \in 1..n : i # p => w[i] = body[i]
    <3> SUFFICES ASSUME NEW i \in 1..n, i # p PROVE w[i] = body[i]
      OBVIOUS
    <3>1. i + 2 \in 1..(n + 3) /\ i + 2 # k
      BY <2>1
    <3>2. d[i + 2] = f[i + 2]
      BY <1>4, <3>1
    <3> QED BY <1>2, <1>6, <3>2, Zenon
  <2>4. OneByteOff(w, body, n)
    BY <1>2, <1>6, <2>2, <2>3, ZenonT(60) DEF OneByteOff, Str
  <2>5. PICK t \in Int, u \in Int : t = FoldLeft(+, 0, w) /\ u = FoldLeft(+, 0, body)
    <3>1. FoldLeft(+, 0, w) \in Int /\ FoldLeft(+, 0, body) \in Int
      BY <1>1, <1>2, <1>6, TotalTyped, Zenon
    <3> QED BY <3>1
  <2>6. t % 256 # u % 256
    BY <1>1, <2>4, <2>5, TotalFinds, ZenonT(60)
  <2>7. CheckSum(w) # CheckSum(body)
    <3>1. 255 - (t % 256) # 255 - (u % 256)
      BY <2>6
    <3> QED BY <2>5, <3>1 DEF CheckSum
  <2>8. n + 3 \in 1..(n + 3)
    OBVIOUS
  <2> QED BY <1>2, <1>4, <1>7, <1>10, <2>7, <2>8, Zenon
<1> QED BY <1>9, <1>10

\* A write, or a request for a reading.
WriteOf(f, id, fun, addr, data, m) ==
  /\ Str(f, m + 7) /\ Len(f) = m + 7 /\ ScsIntact(f)
  /\ f[3] = id /\ f[4] = m + 3 /\ f[5] = fun /\ f[6] = addr /\ f[7] = data[1]
  /\ Part(f, 7, m) = data

LEMMA WriteIs ==
  ASSUME NEW id \in 0..255, NEW fun \in 0..255, NEW addr \in 0..255,
         NEW m \in 1..7, NEW data, Str(data, m)
  PROVE  /\ \E body : Summed(WriteBuf(id, fun, addr, data), body, m + 4)
         /\ WriteOf(WriteBuf(id, fun, addr, data), id, fun, addr, data, m)
<1>1. /\ m \in Nat /\ 4 \in Nat /\ m + 4 \in Nat \ {0} /\ m + 4 \in Nat /\ 4 + m = m + 4
      /\ (m + 4) + 3 = m + 7 /\ m + 7 \in Nat
  OBVIOUS
<1>2. Len(data) = m
  BY <1>1, StrIs, Zenon
<1>3. PICK p : /\ p = <<id, m + 3, fun, addr>> /\ Str(p, 4)
               /\ p[1] = id /\ p[2] = m + 3 /\ p[3] = fun /\ p[4] = addr
  <2>1. PICK k \in 0..255 : k = m + 3
    OBVIOUS
  <2>2. Str(<<id, k, fun, addr>>, 4)
    BY <2>1, StrFour, Zenon
  <2> QED BY <2>1, <2>2
<1>4. PICK body : body = p \o data /\ Spliced(body, p, 4, data, m)
  BY <1>1, <1>3, StrJoin, Zenon
<1>5. Str(body, m + 4) /\ \A j \in 1..(m + 4) : body[j] = IF j <= 4 THEN p[j] ELSE data[j - 4]
  BY <1>1, <1>4, Zenon DEF Spliced
<1>6. body[1] = id /\ body[2] = m + 3 /\ body[3] = fun /\ body[4] = addr
  BY <1>3, <1>5
<1>7. \A j \in 1..m : body[j + 4] = data[j]
  <2> TAKE j \in 1..m
  <2>1. j + 4 \in 1..(m + 4) /\ ~(j + 4 <= 4) /\ (j + 4) - 4 = j
    OBVIOUS
  <2> QED BY <1>5, <2>1
<1>8. PICK f : f = ScsFrame(body) /\ Summed(f, body, m + 4)
  BY <1>1, <1>5, SummedIs, Zenon
<1>9. Len(f) = (m + 4) + 3 /\ ScsIntact(f)
  BY <1>1, <1>8, SummedIntact, Zenon
<1>10. Str(f, m + 7) /\ \A i \in 1..(m + 4) : f[i + 2] = body[i]
  BY <1>1, <1>8, Zenon DEF Summed
<1>11. f[3] = body[1] /\ f[4] = body[2] /\ f[5] = body[3] /\ f[6] = body[4] /\ f[7] = body[5]
  BY <1>10
<1>12. body[5] = data[1]
  BY <1>7
<1>13. \A j \in 1..m : data[j] = f[7 + j - 1]
  <2> TAKE j \in 1..m
  <2>1. j + 4 \in 1..(m + 4) /\ (j + 4) + 2 = 7 + j - 1
    OBVIOUS
  <2>2. f[(j + 4) + 2] = body[j + 4]
    BY <1>10, <2>1
  <2>3. body[j + 4] = data[j]
    BY <1>7
  <2> QED BY <2>1, <2>2, <2>3
<1>14. Part(f, 7, m) = data
  <2>1. CutOut(data, f, 7, m)
    BY <1>13, Zenon DEF CutOut
  <2>2. 7 \in 1..(m + 7) /\ m \in 1..(m + 7) /\ 7 + m - 1 <= m + 7
    OBVIOUS
  <2> QED BY <1>1, <1>10, <2>1, <2>2, WordOf, Zenon
<1>15. f = WriteBuf(id, fun, addr, data)
  BY <1>2, <1>3, <1>4, <1>8, Zenon DEF WriteBuf
<1>16. WriteOf(f, id, fun, addr, data, m)
  BY <1>1, <1>6, <1>9, <1>10, <1>11, <1>12, <1>14, Zenon DEF WriteOf
<1> QED BY <1>8, <1>15, <1>16, Zenon

\* What a servo makes of it.
LEMMA WrittenRead ==
  ASSUME NEW f, NEW id, NEW fun, NEW addr, NEW data, NEW m \in 1..7,
         WriteOf(f, id, fun, addr, data, m), id # 254, NEW i
  PROVE  /\ i # id => ScsReads(i, f) = Refused
         /\ i = id /\ fun = 2 => ScsReads(i, f) = <<"ask", addr, data[1]>>
         /\ i = id /\ fun = 3 /\ addr = 41 =>
              ScsReads(i, f) = <<"goal", Magnitude(data[2] + 256 * data[3], 15), data[6] + 256 * data[7]>>
         /\ i = id /\ fun = 3 /\ addr = 46 =>
              ScsReads(i, f) = <<"speed", Magnitude(data[1] + 256 * data[2], 15)>>
         /\ i = id /\ fun = 3 /\ addr \notin {41, 46} => ScsReads(i, f) = <<"set", addr, data[1]>>
<1>1. /\ ScsIntact(f) /\ f[3] = id /\ f[4] = m + 3 /\ f[5] = fun /\ f[6] = addr /\ f[7] = data[1]
      /\ Part(f, 7, m) = data /\ Len(f) - 4 = m + 3 /\ Len(f) - 7 = m
  <2>1. Len(f) = m + 7
    BY Zenon DEF WriteOf
  <2>2. (m + 7) - 4 = m + 3 /\ (m + 7) - 7 = m
    OBVIOUS
  <2> QED BY <2>1, <2>2, Zenon DEF WriteOf
<1> QED BY <1>1 DEF ScsReads

\* A sign bit and a magnitude, and the number back.
Marked(x, bit) == IF x < 0 THEN 2^bit - x ELSE x

LEMMA MarkedBack ==
  ASSUME NEW bit \in {10, 15}, NEW x \in Int, -(2^bit) < x, x < 2^bit
  PROVE  Marked(x, bit) \in Nat /\ Marked(x, bit) < 256 * 256 /\ Magnitude(Marked(x, bit), bit) = x
<1>1. 2^10 = 1024 /\ 2^15 = 32768
  OBVIOUS
<1>2. PICK p \in {1024, 32768} : p = 2^bit
  <2>1. CASE bit = 10
    BY <1>1, <2>1
  <2>2. CASE bit = 15
    BY <1>1, <2>2
  <2> QED BY <2>1, <2>2
<1>3. Magnitude(Marked(x, bit), bit) = IF (Marked(x, bit) \div p) % 2 = 1 THEN -(Marked(x, bit) - p) ELSE Marked(x, bit)
  BY <1>2 DEF Magnitude
<1>4. Marked(x, bit) = IF x < 0 THEN p - x ELSE x
  BY <1>2 DEF Marked
<1>5. CASE x < 0
  <2>1. PICK y \in Nat : y = p - x /\ p <= y /\ y < 2 * p
    BY <1>2, <1>5
  <2>2. y \div p = 1
    BY <2>1
  <2>3. -(y - p) = x /\ y < 256 * 256 /\ Marked(x, bit) = y
    BY <1>4, <1>5, <2>1
  <2> QED BY <1>3, <2>1, <2>2, <2>3
<1>6. CASE ~(x < 0)
  <2>1. x \div p = 0 /\ x \in Nat /\ x < 256 * 256
    BY <1>2, <1>6
  <2> QED BY <1>3, <1>4, <1>6, <2>1
<1> QED BY <1>5, <1>6

\* A goal: the acceleration, the position, two bytes of nothing and the speed.
SevenAre(s, a, b, c, d, e, f, g) ==
  Str(s, 7) /\ s[1] = a /\ s[2] = b /\ s[3] = c /\ s[4] = d /\ s[5] = e /\ s[6] = f /\ s[7] = g

LEMMA GoalBody ==
  ASSUME NEW a \in 0..255, NEW z \in 0..255,
         NEW w \in Nat, w < 256 * 256, NEW x \in Nat, x < 256 * 256
  PROVE  SevenAre(<<a>> \o Le(w, 2) \o <<z, z>> \o Le(x, 2), a, Le(w, 2)[1], Le(w, 2)[2], z, z, Le(x, 2)[1], Le(x, 2)[2])
<1>1. PICK p1 : p1 = <<a>> /\ Str(p1, 1) /\ p1[1] = a
  BY StrOne, Zenon
<1>2. PICK p2 : p2 = Le(w, 2) /\ Str(p2, 2)
  <2>1. Str(Le(w, 2), 2)
    BY LeIs
  <2> QED BY <2>1
<1>3. PICK p3 : p3 = <<z, z>> /\ Str(p3, 2) /\ p3[1] = z /\ p3[2] = z
  BY StrTwo, Zenon
<1>4. PICK p4 : p4 = Le(x, 2) /\ Str(p4, 2)
  <2>1. Str(Le(x, 2), 2)
    BY LeIs
  <2> QED BY <2>1
<1>5. 1 \in Nat /\ 2 \in Nat /\ 3 \in Nat /\ 5 \in Nat /\ 7 \in Nat /\ 1 + 2 = 3 /\ 3 + 2 = 5
      /\ 5 + 2 = 7
  OBVIOUS
<1>6. PICK r1 : r1 = p1 \o p2 /\ Spliced(r1, p1, 1, p2, 2)
  BY <1>1, <1>2, <1>5, StrJoin, Zenon
<1>7. Str(r1, 3) /\ \A j \in 1..3 : r1[j] = IF j <= 1 THEN p1[j] ELSE p2[j - 1]
  BY <1>5, <1>6, Zenon DEF Spliced
<1>8. r1[1] = a /\ r1[2] = Le(w, 2)[1] /\ r1[3] = Le(w, 2)[2]
  BY <1>1, <1>2, <1>7
<1>9. PICK r2 : r2 = r1 \o p3 /\ Spliced(r2, r1, 3, p3, 2)
  BY <1>7, <1>3, <1>5, StrJoin, Zenon
<1>10. Str(r2, 5) /\ \A j \in 1..5 : r2[j] = IF j <= 3 THEN r1[j] ELSE p3[j - 3]
  BY <1>5, <1>9, Zenon DEF Spliced
<1>11. r2[1] = a /\ r2[2] = Le(w, 2)[1] /\ r2[3] = Le(w, 2)[2] /\ r2[4] = z /\ r2[5] = z
  BY <1>8, <1>3, <1>10
<1>12. PICK r3 : r3 = r2 \o p4 /\ Spliced(r3, r2, 5, p4, 2)
  BY <1>10, <1>4, <1>5, StrJoin, Zenon
<1>13. Str(r3, 7) /\ \A j \in 1..7 : r3[j] = IF j <= 5 THEN r2[j] ELSE p4[j - 5]
  BY <1>5, <1>12, Zenon DEF Spliced
<1>14. r3[1] = a /\ r3[2] = Le(w, 2)[1] /\ r3[3] = Le(w, 2)[2] /\ r3[4] = z /\ r3[5] = z
      /\ r3[6] = Le(x, 2)[1] /\ r3[7] = Le(x, 2)[2]
  BY <1>11, <1>4, <1>13
<1>15. r3 = <<a>> \o Le(w, 2) \o <<z, z>> \o Le(x, 2)
  BY <1>1, <1>2, <1>3, <1>4, <1>6, <1>9, <1>12, Zenon
<1>16. SevenAre(r3, a, Le(w, 2)[1], Le(w, 2)[2], z, z, Le(x, 2)[1], Le(x, 2)[2])
  BY <1>13, <1>14, Zenon DEF SevenAre
<1> QED BY <1>15, <1>16, Zenon

LEMMA GoalIs ==
  ASSUME NEW v \in Int
  PROVE  /\ Str(Goal(v), 7)
         /\ Magnitude(Goal(v)[2] + 256 * Goal(v)[3], 15) = Clamp(v, 0, MaxStep)
         /\ Goal(v)[6] + 256 * Goal(v)[7] = MaxSpeed
<1>1. PICK c \in Int : c = Clamp(v, 0, MaxStep)
  BY DEF Clamp, MaxStep
<1>2. PICK w \in Nat : w = SignMagnitude(c) /\ w < 256 * 256 /\ Magnitude(w, 15) = c
  <2>1. -(2^15) < c /\ c < 2^15 /\ 2^15 = 32768
    BY <1>1 DEF Clamp, MaxStep
  <2>2. SignMagnitude(c) = Marked(c, 15)
    BY <2>1 DEF SignMagnitude, Marked
  <2> QED BY <2>1, <2>2, MarkedBack
<1>3. PICK x \in Nat : x = MaxSpeed /\ x < 256 * 256
  BY DEF MaxSpeed
<1>4. PICK g : g = Goal(v)
  OBVIOUS
<1>5. PICK a \in 0..255, z \in 0..255 : a = 50 /\ z = 0
  OBVIOUS
<1>6. g = <<a>> \o Le(w, 2) \o <<z, z>> \o Le(x, 2)
  BY <1>1, <1>2, <1>3, <1>4, <1>5 DEF Goal
<1>7. SevenAre(g, a, Le(w, 2)[1], Le(w, 2)[2], z, z, Le(x, 2)[1], Le(x, 2)[2])
  BY <1>2, <1>3, <1>6, GoalBody, Zenon
<1>8. /\ Str(g, 7) /\ g[2] = Le(w, 2)[1] /\ g[3] = Le(w, 2)[2]
      /\ g[6] = Le(x, 2)[1] /\ g[7] = Le(x, 2)[2]
  BY <1>7, Zenon DEF SevenAre
<1>9. Le(w, 2)[1] + 256 * Le(w, 2)[2] = w /\ Le(x, 2)[1] + 256 * Le(x, 2)[2] = x
  BY <1>2, <1>3, LeIs
<1>10. g[2] + 256 * g[3] = w /\ g[6] + 256 * g[7] = x
  BY <1>8, <1>9, Zenon
<1> QED BY <1>1, <1>2, <1>3, <1>4, <1>8, <1>10, ZenonT(60)

\* Bytes with their sum.
Summable(f) == \E n \in Nat \ {0} : \E body : Summed(f, body, n)

LEMMA WriteSummable ==
  ASSUME NEW id \in 0..255, NEW fun \in 0..255, NEW addr \in 0..255,
         NEW m \in 1..7, NEW data, Str(data, m)
  PROVE  /\ Summable(WriteBuf(id, fun, addr, data))
         /\ WriteOf(WriteBuf(id, fun, addr, data), id, fun, addr, data, m)
<1>1. PICK n \in Nat \ {0} : n = m + 4
  OBVIOUS
<1>2. PICK f : f = WriteBuf(id, fun, addr, data)
  OBVIOUS
<1>3. (\E body : Summed(f, body, n)) /\ WriteOf(f, id, fun, addr, data, m)
  BY <1>1, <1>2, WriteIs, Zenon
<1> QED BY <1>2, <1>3, Zenon DEF Summable

\* What a command asks of a servo.
ScsAsked(op, v) ==
  CASE op \in {"position", "sync"} -> <<"goal", Clamp(v, 0, MaxStep), MaxSpeed>>
    [] op = "speed"   -> <<"speed", Clamp(v, -MaxSpeed, MaxSpeed)>>
    [] op = "mode"    -> <<"set", 33, 1>>
    [] op = "torque"  -> <<"set", 40, IF v = 0 THEN 0 ELSE 1>>
    [] op = "lock"    -> <<"set", 55, IF v = 0 THEN 0 ELSE 1>>
    [] op = "neutral" -> <<"set", 40, 128>>
    [] op = "id"      -> <<"set", 5, v % 256>>
    [] op = "ask"     -> <<"ask", 56, 15>>

\* A register of one byte, for one servo.
OneServo(id) == id \in 0..255 /\ id # 254
OneRegister(fun, addr) == fun \in {2, 3} /\ addr \in (0..255) \ {41, 46}
TakesByte(i, id, fun, addr, c) ==
  /\ Summable(WriteBuf(id, fun, addr, <<c>>))
  /\ ScsReads(i, WriteBuf(id, fun, addr, <<c>>)) =
       IF i = id THEN (IF fun = 3 THEN <<"set", addr, c>> ELSE <<"ask", addr, c>>) ELSE Refused

LEMMA RegisterRead ==
  ASSUME NEW id, OneServo(id), NEW fun, NEW addr, OneRegister(fun, addr), NEW c \in 0..255, NEW i
  PROVE  TakesByte(i, id, fun, addr, c)
<1>0. id \in 0..255 /\ id # 254 /\ fun \in {2, 3} /\ addr \in (0..255) \ {41, 46}
  BY DEF OneServo, OneRegister
<1>1. PICK d : d = <<c>> /\ Str(d, 1) /\ d[1] = c
  BY StrOne, Zenon
<1>2. 1 \in 1..7 /\ fun \in 0..255 /\ addr \in 0..255
  BY <1>0
<1>3. PICK f : f = WriteBuf(id, fun, addr, d)
  OBVIOUS
<1>4. Summable(f) /\ WriteOf(f, id, fun, addr, d, 1)
  BY <1>0, <1>1, <1>2, <1>3, WriteSummable, ZenonT(60)
<1>5. ScsReads(i, f) = IF i = id THEN (IF fun = 3 THEN <<"set", addr, c>> ELSE <<"ask", addr, c>>) ELSE Refused
  BY <1>0, <1>1, <1>2, <1>4, WrittenRead
<1> QED BY <1>1, <1>3, <1>4, <1>5, Zenon DEF TakesByte

LEMMA ScsCommanded ==
  ASSUME NEW id \in Drives, NEW op \in ScsOps \ {"sync"}, NEW v \in Int, NEW i \in Drives
  PROVE  /\ Summable(ScsCommand(id, op, v))
         /\ ScsReads(i, ScsCommand(id, op, v)) = IF i = id THEN ScsAsked(op, v) ELSE Refused
<1>1. PICK f : f = ScsCommand(id, op, v)
  OBVIOUS
<1>2. id \in 0..255 /\ id # 254 /\ OneServo(id)
  BY DrivesSmall DEF OneServo
<1> SUFFICES Summable(f) /\ ScsReads(i, f) = IF i = id THEN ScsAsked(op, v) ELSE Refused
  BY <1>1
<1>3. CASE op = "position"
  <2>1. f = WriteBuf(id, 3, 41, Goal(v))
    BY <1>1, <1>3 DEF ScsCommand
  <2>2. PICK d : /\ d = Goal(v) /\ Str(d, 7) /\ d[6] + 256 * d[7] = MaxSpeed
                 /\ Magnitude(d[2] + 256 * d[3], 15) = Clamp(v, 0, MaxStep)
    BY GoalIs
  <2>3. 3 \in 0..255 /\ 41 \in 0..255 /\ 7 \in 1..7
    OBVIOUS
  <2>4. Summable(f) /\ WriteOf(f, id, 3, 41, d, 7)
    BY <1>2, <2>1, <2>2, <2>3, WriteSummable, ZenonT(60)
  <2>5. ScsReads(i, f) = IF i = id THEN <<"goal", Clamp(v, 0, MaxStep), MaxSpeed>> ELSE Refused
    BY <1>2, <2>2, <2>3, <2>4, WrittenRead
  <2> QED BY <1>3, <2>4, <2>5 DEF ScsAsked
<1>4. CASE op = "speed"
  <2>1. PICK c \in Int : c = Clamp(v, -MaxSpeed, MaxSpeed) /\ -(2^15) < c /\ c < 2^15
    <3>1. 2^15 = 32768
      OBVIOUS
    <3>2. PICK c \in Int : c = Clamp(v, -MaxSpeed, MaxSpeed) /\ -2400 <= c /\ c <= 2400
      BY DEF Clamp, MaxSpeed
    <3>3. -(2^15) < c /\ c < 2^15
      BY <3>1, <3>2
    <3> QED BY <3>2, <3>3
  <2>2. PICK w \in Nat : w = Marked(c, 15) /\ w < 256 * 256 /\ Magnitude(w, 15) = c
    BY <2>1, MarkedBack
  <2>3. SignMagnitude(c) = w
    <3>1. 2^15 = 32768
      OBVIOUS
    <3> QED BY <2>2, <3>1 DEF SignMagnitude, Marked
  <2>4. f = WriteBuf(id, 3, 46, Le(w, 2))
    BY <1>1, <1>4, <2>1, <2>3 DEF ScsCommand
  <2>5. PICK d : d = Le(w, 2) /\ Str(d, 2) /\ d[1] + 256 * d[2] = w
    <3>1. Str(Le(w, 2), 2) /\ Le(w, 2)[1] + 256 * Le(w, 2)[2] = w
      BY <2>2, LeIs
    <3> QED BY <3>1
  <2>6. 3 \in 0..255 /\ 46 \in 0..255 /\ 2 \in 1..7
    BY SMTT(40)
  <2>7. Summable(f) /\ WriteOf(f, id, 3, 46, d, 2)
    BY <1>2, <2>4, <2>5, <2>6, WriteSummable, ZenonT(60)
  <2>8. ScsReads(i, f) = IF i = id THEN <<"speed", c>> ELSE Refused
    BY <1>2, <2>2, <2>5, <2>6, <2>7, WrittenRead
  <2> QED BY <1>4, <2>1, <2>7, <2>8 DEF ScsAsked
<1>5. CASE op = "mode"
  <2>1. PICK c \in 0..255 : c = 1
    OBVIOUS
  <2>2. f = WriteBuf(id, 3, 33, <<c>>)
    BY <1>1, <1>5, <2>1 DEF ScsCommand
  <2>3. PICK k, a : k = 3 /\ a = 33 /\ OneRegister(k, a)
    BY DEF OneRegister
  <2>4. TakesByte(i, id, k, a, c)
    BY <1>2, <2>3, RegisterRead
  <2>5. Summable(f) /\ ScsReads(i, f) = IF i = id THEN <<"set", 33, c>> ELSE Refused
    BY <2>2, <2>3, <2>4 DEF TakesByte
  <2> QED BY <1>5, <2>1, <2>5 DEF ScsAsked
<1>6. CASE op = "torque"
  <2>1. PICK c \in 0..255 : c = IF v = 0 THEN 0 ELSE 1
    OBVIOUS
  <2>2. f = WriteBuf(id, 3, 40, <<c>>)
    BY <1>1, <1>6, <2>1 DEF ScsCommand
  <2>3. PICK k, a : k = 3 /\ a = 40 /\ OneRegister(k, a)
    BY DEF OneRegister
  <2>4. TakesByte(i, id, k, a, c)
    BY <1>2, <2>3, RegisterRead
  <2>5. Summable(f) /\ ScsReads(i, f) = IF i = id THEN <<"set", 40, c>> ELSE Refused
    BY <2>2, <2>3, <2>4 DEF TakesByte
  <2> QED BY <1>6, <2>1, <2>5 DEF ScsAsked
<1>7. CASE op = "lock"
  <2>1. PICK c \in 0..255 : c = IF v = 0 THEN 0 ELSE 1
    OBVIOUS
  <2>2. f = WriteBuf(id, 3, 55, <<c>>)
    BY <1>1, <1>7, <2>1 DEF ScsCommand
  <2>3. PICK k, a : k = 3 /\ a = 55 /\ OneRegister(k, a)
    BY DEF OneRegister
  <2>4. TakesByte(i, id, k, a, c)
    BY <1>2, <2>3, RegisterRead
  <2>5. Summable(f) /\ ScsReads(i, f) = IF i = id THEN <<"set", 55, c>> ELSE Refused
    BY <2>2, <2>3, <2>4 DEF TakesByte
  <2> QED BY <1>7, <2>1, <2>5 DEF ScsAsked
<1>8. CASE op = "neutral"
  <2>1. PICK c \in 0..255 : c = 128
    OBVIOUS
  <2>2. f = WriteBuf(id, 3, 40, <<c>>)
    BY <1>1, <1>8, <2>1 DEF ScsCommand
  <2>3. PICK k, a : k = 3 /\ a = 40 /\ OneRegister(k, a)
    BY DEF OneRegister
  <2>4. TakesByte(i, id, k, a, c)
    BY <1>2, <2>3, RegisterRead
  <2>5. Summable(f) /\ ScsReads(i, f) = IF i = id THEN <<"set", 40, c>> ELSE Refused
    BY <2>2, <2>3, <2>4 DEF TakesByte
  <2> QED BY <1>8, <2>1, <2>5 DEF ScsAsked
<1>9. CASE op = "id"
  <2>1. PICK c \in 0..255 : c = v % 256
    OBVIOUS
  <2>2. f = WriteBuf(id, 3, 5, <<c>>)
    BY <1>1, <1>9, <2>1 DEF ScsCommand
  <2>3. PICK k, a : k = 3 /\ a = 5 /\ OneRegister(k, a)
    BY DEF OneRegister
  <2>4. TakesByte(i, id, k, a, c)
    BY <1>2, <2>3, RegisterRead
  <2>5. Summable(f) /\ ScsReads(i, f) = IF i = id THEN <<"set", 5, c>> ELSE Refused
    BY <2>2, <2>3, <2>4 DEF TakesByte
  <2> QED BY <1>9, <2>1, <2>5 DEF ScsAsked
<1>10. CASE op = "ask"
  <2>1. PICK c \in 0..255 : c = 15
    OBVIOUS
  <2>2. f = WriteBuf(id, 2, 56, <<c>>)
    BY <1>1, <1>10, <2>1 DEF ScsCommand
  <2>3. PICK k, a : k = 2 /\ a = 56 /\ OneRegister(k, a)
    BY DEF OneRegister
  <2>4. TakesByte(i, id, k, a, c)
    BY <1>2, <2>3, RegisterRead
  <2>5. Summable(f) /\ ScsReads(i, f) = IF i = id THEN <<"ask", 56, c>> ELSE Refused
    BY <2>2, <2>3, <2>4 DEF TakesByte
  <2> QED BY <1>10, <2>1, <2>5 DEF ScsAsked
<1> QED BY <1>3, <1>4, <1>5, <1>6, <1>7, <1>8, <1>9, <1>10 DEF ScsOps

\* The goals of all the servos, in one frame.
LEMMA DrivesListed ==
  ASSUME NEW id \in Drives
  PROVE  \E n \in 1..31 : \E ids \in [1..n -> Drives] :
           /\ ids = SetToSeq(Drives) /\ Len(ids) = n
           /\ \A i \in Drives : \E k \in 1..n : ids[k] = i
<1>1. IsFiniteSet(Drives)
  <2>1. IsFiniteSet(1..169)
    <3>1. PICK m \in Int : m = 169
      OBVIOUS
    <3>2. IsFiniteSet(1..m)
      BY FS_Interval
    <3> QED BY <3>1, <3>2
  <2>2. Drives \in SUBSET (1..169)
    BY MotorFramesAssumption
  <2> QED BY <2>1, <2>2, FS_Subset
<1>2. Cardinality(Drives) \in Nat /\ ExistsBijection(1..Cardinality(Drives), Drives)
  BY <1>1, FS_CardinalityType
<1>3. PICK n \in Nat : n = Cardinality(Drives)
  BY <1>2
<1>4. n \in 1..31
  <2>1. n # 0
    BY <1>1, <1>3, FS_EmptySet
  <2>2. n <= 31
    BY <1>3, MotorFramesAssumption, ZenonT(60)
  <2> QED BY <2>1, <2>2
<1>5. \E f \in [1..n -> Drives] : IsInjective(f)
  BY <1>2, <1>3 DEF ExistsBijection, Bijection, Injection
<1>6. PICK ids \in [1..n -> Drives] : ids = SetToSeq(Drives) /\ IsInjective(ids)
  <2>1. SetToSeq(Drives) \in [1..n -> Drives] /\ IsInjective(SetToSeq(Drives))
    BY <1>3, <1>5 DEF SetToSeq
  <2> QED BY <2>1
<1>7. \A i \in Drives : \E k \in 1..n : ids[k] = i
  <2>1. ids \in Injection(1..n, Drives)
    BY <1>6 DEF Injection
  <2>2. Cardinality(1..n) = n
    BY FS_Interval
  <2>3. ids \in Surjection(1..n, Drives)
    BY <1>1, <1>3, <2>1, <2>2, FS_Injection
  <2> QED BY <2>3 DEF Surjection
<1>8. Len(ids) = n
  BY LenProperties
<1> QED BY <1>4, <1>6, <1>7, <1>8

\* What a servo makes of it.
Places(i, f) == {k \in 0..((Len(f) - 9) \div (f[7] + 1)) : f[8 + k * (f[7] + 1)] = i}
Placed(i, f) == Part(f, 9 + (CHOOSE k \in Places(i, f) : TRUE) * (f[7] + 1), f[7])

LEMMA PlacedIs ==
  ASSUME NEW f, NEW i, Places(i, f) # {}, NEW d,
         \A k \in Places(i, f) : Part(f, 9 + k * (f[7] + 1), f[7]) = d
  PROVE  Placed(i, f) = d
<1>1. PICK at : at = Places(i, f)
  OBVIOUS
<1>2. (CHOOSE k \in at : TRUE) \in at
  BY <1>1
<1> QED BY <1>1, <1>2, Zenon DEF Placed

GoalIn(d) == <<"goal", Magnitude(d[2] + 256 * d[3], 15), d[6] + 256 * d[7]>>
SyncHead(f) ==
  ScsIntact(f) /\ f[3] = 254 /\ f[5] = 131 /\ f[4] = Len(f) - 4 /\ f[6] = 41

LEMMA SyncRead ==
  ASSUME NEW f, SyncHead(f), NEW i, Places(i, f) # {}, NEW d, Placed(i, f) = d
  PROVE  ScsReads(i, f) = GoalIn(d)
<1>1. ScsReads(i, f) = <<"goal", Magnitude(Placed(i, f)[2] + 256 * Placed(i, f)[3], 15),
                         Placed(i, f)[6] + 256 * Placed(i, f)[7]>>
  BY SMTT(40) DEF SyncHead, ScsReads, Places, Placed
<1> QED BY <1>1 DEF GoalIn

\* As many servos as one synchronised write can address.
Few(n) == n \in 1..31

LEMMA SyncIs ==
  ASSUME NEW n \in Nat, Few(n), NEW ids \in [1..n -> Drives], Len(ids) = n, NEW v \in Int,
         NEW i, \E k \in 1..n : ids[k] = i
  PROVE  /\ Summable(ScsSync(ids, v))
         /\ ScsReads(i, ScsSync(ids, v)) = <<"goal", Clamp(v, 0, MaxStep), MaxSpeed>>
<1>1. PICK g : /\ g = Goal(v) /\ Str(g, 7) /\ g[6] + 256 * g[7] = MaxSpeed
               /\ Magnitude(g[2] + 256 * g[3], 15) = Clamp(v, 0, MaxStep)
  BY GoalIs
<1>2. PICK sl : sl = [k \in 1..n |-> <<ids[k]>> \o g]
  OBVIOUS
<1>3. \A k \in 1..n : Str(sl[k], 8) /\ sl[k][1] = ids[k] /\ \A j \in 1..7 : sl[k][j + 1] = g[j]
  <2> TAKE k \in 1..n
  <2>1. PICK c \in 0..255 : c = ids[k]
    <3>1. ids[k] \in Drives
      OBVIOUS
    <3>2. ids[k] \in 0..255
      BY <3>1, DriveIs, Zenon
    <3> QED BY <3>2
  <2>2. PICK p : p = <<c>> /\ Str(p, 1) /\ p[1] = c
    BY StrOne, Zenon
  <2>3. 1 \in Nat /\ 7 \in Nat /\ 1 + 7 = 8
    OBVIOUS
  <2>4. PICK s : s = p \o g /\ Spliced(s, p, 1, g, 7)
    BY <1>1, <2>2, <2>3, StrJoin, Zenon
  <2>5. Str(s, 8) /\ \A j \in 1..8 : s[j] = IF j <= 1 THEN p[j] ELSE g[j - 1]
    BY <2>3, <2>4, Zenon DEF Spliced
  <2>6. s[1] = c /\ \A j \in 1..7 : s[j + 1] = g[j]
    BY <2>2, <2>5
  <2>7. sl[k] = s
    BY <1>2, <2>1, <2>2, <2>4
  <2> QED BY <2>1, <2>5, <2>6, <2>7, Zenon
<1>4. PICK m \in Nat : m = 8 * n /\ m \in 8..248
  BY DEF Few
<1>5. PICK slots : slots = [j \in 1..m |-> sl[((j - 1) \div 8) + 1][((j - 1) % 8) + 1]]
  OBVIOUS
<1>6. Str(slots, m)
  <2>1. \A j \in 1..m : ((j - 1) \div 8) + 1 \in 1..n /\ ((j - 1) % 8) + 1 \in 1..8
    BY <1>4
  <2>2. \A k \in 1..n : \A j \in 1..8 : sl[k][j] \in 0..255
    <3> TAKE k \in 1..n
    <3>1. PICK s : s = sl[k] /\ Str(s, 8)
      BY <1>3
    <3>2. \A j \in 1..8 : s[j] \in 0..255
      BY <3>1 DEF Str
    <3> QED BY <3>1, <3>2
  <2>3. \A j \in 1..m : slots[j] \in 0..255
    BY <1>5, <2>1, <2>2
  <2>4. slots = [j \in 1..m |-> slots[j]]
    BY <1>5
  <2> QED BY <2>3, <2>4, StrFrom
<1>7. \A k \in 1..n : slots[8 * k - 7] = ids[k] /\ \A j \in 1..7 : slots[8 * k - 7 + j] = g[j]
  <2> TAKE k \in 1..n
  <2>1. ASSUME NEW j \in 0..7 PROVE slots[8 * k - 7 + j] = sl[k][j + 1]
    <3>1. PICK e \in 1..m : e = 8 * k - 7 + j
      BY <1>4
    <3>2. (e - 1) \div 8 = k - 1 /\ (e - 1) % 8 = j
      BY <3>1
    <3>3. (k - 1) + 1 = k
      OBVIOUS
    <3> QED BY <1>5, <3>1, <3>2, <3>3
  <2>2. slots[8 * k - 7] = ids[k]
    <3>1. 0 \in 0..7 /\ 8 * k - 7 + 0 = 8 * k - 7 /\ 0 + 1 = 1
      OBVIOUS
    <3>2. slots[8 * k - 7 + 0] = sl[k][0 + 1]
      BY <2>1, <3>1
    <3> QED BY <1>3, <3>1, <3>2
  <2>3. ASSUME NEW j \in 1..7 PROVE slots[8 * k - 7 + j] = g[j]
    <3>1. j \in 0..7
      OBVIOUS
    <3>2. slots[8 * k - 7 + j] = sl[k][j + 1]
      BY <2>1, <3>1
    <3> QED BY <1>3, <3>2, Zenon
  <2> QED BY <2>2, <2>3
<1>8. PICK a, b, c, d, size : a = 254 /\ b = m + 4 /\ c = 131 /\ d = 41 /\ size = 7
  OBVIOUS
<1>9. a \in 0..255 /\ b \in 0..255 /\ c \in 0..255 /\ d \in 0..255 /\ size \in 0..255
  BY <1>4, <1>8
<1>10. PICK h : h = <<a, b, c, d, size>> /\ Str(h, 5)
  BY <1>9, StrFive, ZenonT(60)
<1>11. h[1] = a /\ h[2] = b /\ h[3] = c /\ h[4] = d /\ h[5] = size
  BY <1>10
<1>12. m \in Nat /\ 5 \in Nat /\ 5 + m = m + 5 /\ m + 5 \in Nat \ {0} /\ (m + 5) + 3 = m + 8
  OBVIOUS
<1>13. PICK body : body = h \o slots /\ Spliced(body, h, 5, slots, m)
  BY <1>6, <1>10, <1>12, StrJoin, Zenon
<1>14. Str(body, m + 5) /\ \A j \in 1..(m + 5) : body[j] = IF j <= 5 THEN h[j] ELSE slots[j - 5]
  BY <1>12, <1>13, Zenon DEF Spliced
<1>15. PICK f : f = ScsFrame(body) /\ Summed(f, body, m + 5)
  <2>1. PICK q \in Nat : q = m + 5
    BY <1>12
  <2>2. Summed(ScsFrame(body), body, q)
    BY <1>14, <2>1, SummedIs, Zenon
  <2> QED BY <2>1, <2>2, Zenon
<1>16. Summable(f) /\ Len(f) = m + 8 /\ ScsIntact(f) /\ Str(f, m + 8)
  <2>1. PICK q \in Nat \ {0} : q = m + 5 /\ q + 3 = m + 8
    BY <1>12
  <2>2. Summed(f, body, q)
    BY <1>15, <2>1, Zenon
  <2>3. Summable(f) /\ Str(f, q + 3)
    <3>1. Summable(f)
      BY <2>2, Zenon DEF Summable
    <3> QED BY <2>2, <3>1 DEF Summed
  <2>4. Len(f) = q + 3 /\ ScsIntact(f)
    BY <2>2, SummedIntact, Zenon
  <2> QED BY <2>1, <2>3, <2>4, Zenon
<1>17. \A j \in 1..(m + 5) : f[j + 2] = body[j]
  BY <1>15, Zenon DEF Summed
<1>18. f[3] = 254 /\ f[4] = m + 4 /\ f[5] = 131 /\ f[6] = 41 /\ f[7] = 7
  <2>1. body[1] = a /\ body[2] = b /\ body[3] = c /\ body[4] = d /\ body[5] = size
    BY <1>11, <1>14
  <2>2. f[3] = body[1] /\ f[4] = body[2] /\ f[5] = body[3] /\ f[6] = body[4] /\ f[7] = body[5]
    BY <1>17, SMTT(40)
  <2> QED BY <1>8, <2>1, <2>2
<1>19. \A j \in 1..m : f[j + 7] = slots[j]
  <2> TAKE j \in 1..m
  <2>1. j + 5 \in 1..(m + 5) /\ ~(j + 5 <= 5) /\ (j + 5) - 5 = j /\ (j + 5) + 2 = j + 7
    OBVIOUS
  <2>2. body[j + 5] = slots[j]
    BY <1>14, <2>1
  <2>3. f[(j + 5) + 2] = body[j + 5]
    BY <1>17, <2>1
  <2> QED BY <2>1, <2>2, <2>3
<1>20. \A p \in 0..(n - 1) : f[8 + p * 8] = ids[p + 1] /\ Part(f, 9 + p * 8, 7) = g
  <2> TAKE p \in 0..(n - 1)
  <2>1. PICK q \in 1..n : q = p + 1 /\ 8 * q - 7 \in 1..m /\ (8 * q - 7) + 7 = 8 + p * 8
    BY <1>4
  <2>2. f[8 + p * 8] = ids[p + 1]
    BY <1>7, <1>19, <2>1
  <2>3. \A j \in 1..7 : g[j] = f[(9 + p * 8) + j - 1]
    <3> TAKE j \in 1..7
    <3>1. PICK e \in 1..m : e = 8 * q - 7 + j
      BY <1>4, <2>1
    <3>2. e + 7 = (9 + p * 8) + j - 1
      BY <2>1, <3>1
    <3>3. slots[e] = g[j]
      BY <1>7, <3>1
    <3>4. f[e + 7] = slots[e]
      BY <1>19
    <3> QED BY <3>2, <3>3, <3>4
  <2>4. PICK e \in 1..(m + 8) : e = 9 + p * 8 /\ e + 7 - 1 <= m + 8
    BY <1>4
  <2>5. Part(f, e, 7) = g
    <3>1. CutOut(g, f, e, 7)
      BY <1>1, <2>3, <2>4, Zenon DEF CutOut
    <3>2. 7 \in 1..(m + 8) /\ m + 8 \in Nat
      OBVIOUS
    <3> QED BY <1>16, <2>4, <3>1, <3>2, WordOf
  <2> QED BY <2>2, <2>4, <2>5
<1>21. Places(i, f) # {} /\ \A p \in Places(i, f) : Part(f, 9 + p * (f[7] + 1), f[7]) = g
  <2>1. f[7] + 1 = 8 /\ (Len(f) - 9) \div (f[7] + 1) = n - 1
    BY <1>4, <1>16, <1>18
  <2>2. Places(i, f) = {p \in 0..(n - 1) : f[8 + p * 8] = i}
    BY <2>1 DEF Places
  <2>3. PICK q \in 1..n : ids[q] = i
    OBVIOUS
  <2>4. PICK p \in 0..(n - 1) : p + 1 = q
    OBVIOUS
  <2>5. f[8 + p * 8] = i
    BY <1>20, <2>3, <2>4
  <2>6. Places(i, f) # {}
    BY <2>2, <2>5
  <2>7. ASSUME NEW e \in Places(i, f) PROVE Part(f, 9 + e * (f[7] + 1), f[7]) = g
    <3>1. e \in 0..(n - 1)
      BY <2>2
    <3>2. Part(f, 9 + e * 8, 7) = g
      BY <1>20, <3>1
    <3> QED BY <1>18, <2>1, <3>2
  <2> QED BY <2>6, <2>7
<1>22. Placed(i, f) = g
  BY <1>21, PlacedIs, Zenon
<1>23. f[4] = Len(f) - 4
  BY <1>16, <1>18
<1>24. ScsReads(i, f) = GoalIn(g)
  <2>1. SyncHead(f)
    BY <1>16, <1>18, <1>23 DEF SyncHead
  <2> QED BY <1>21, <1>22, <2>1, SyncRead, Zenon
<1>25. f = ScsSync(ids, v)
  <2>1. slots = [j \in 1..(8 * Len(ids)) |-> (<<ids[((j - 1) \div 8) + 1]>> \o Goal(v))[((j - 1) % 8) + 1]]
    <3>1. \A j \in 1..m : ((j - 1) \div 8) + 1 \in 1..n
      BY <1>4
    <3>2. \A k \in 1..n : sl[k] = <<ids[k]>> \o Goal(v)
      BY <1>1, <1>2
    <3>3. m = 8 * Len(ids)
      BY <1>4
    <3> QED BY <1>5, <3>1, <3>2, <3>3
  <2>2. (8 * Len(ids) + 4) % 256 = m + 4
    BY <1>4
  <2>3. h = <<254, (8 * Len(ids) + 4) % 256, 131, 41, 7>>
    BY <1>8, <1>10, <2>2
  <2> QED BY <1>13, <1>15, <2>1, <2>3 DEF ScsSync
<1>26. GoalIn(g) = <<"goal", Clamp(v, 0, MaxStep), MaxSpeed>>
  BY <1>1 DEF GoalIn
<1> QED BY <1>16, <1>24, <1>25, <1>26

\* The answers: an acknowledgement,
LEMMA ScsAcknowledged ==
  ASSUME NEW id \in Drives, NEW v, NEW i
  PROVE  /\ Summable(ScsAnswer(id, "ack", v))
         /\ ScsAck(i, ScsAnswer(id, "ack", v)) <=> i = id
<1>1. PICK a, b, c : a = id /\ b = 2 /\ c = 0 /\ a \in 0..255 /\ b \in 0..255 /\ c \in 0..255
  <2>1. id \in 0..255
    BY DriveIs
  <2> QED BY <2>1
<1>2. PICK body : /\ body = <<a, b, c>> /\ Str(body, 3)
                  /\ body[1] = a /\ body[2] = b /\ body[3] = c
  <2>1. Str(<<a, b, c>>, 3)
    BY <1>1 DEF Str
  <2> QED BY <2>1
<1>3. 3 \in Nat \ {0} /\ 3 \in Nat /\ 3 + 3 = 6
  OBVIOUS
<1>4. PICK f : f = ScsFrame(body) /\ Summed(f, body, 3)
  BY <1>2, <1>3, SummedIs, Zenon
<1>5. Summable(f) /\ Len(f) = 6 /\ ScsIntact(f)
  <2>1. Summable(f)
    BY <1>3, <1>4, Zenon DEF Summable
  <2>2. Len(f) = 3 + 3 /\ ScsIntact(f)
    BY <1>3, <1>4, SummedIntact, Zenon
  <2> QED BY <2>1, <2>2
<1>6. f[3] = id /\ f[4] = 2
  <2>1. f[1 + 2] = body[1] /\ f[2 + 2] = body[2]
    BY <1>4 DEF Summed
  <2> QED BY <1>1, <1>2, <2>1
<1>7. f = ScsAnswer(id, "ack", v)
  BY <1>1, <1>2, <1>4 DEF ScsAnswer
<1> QED BY <1>5, <1>6, <1>7 DEF ScsAck

\* and a reading: the position, the speed, the load, the voltage, the
\* temperature, whether it moves, the current, and the status.
Octets(a, b, c, d, e, g) ==
  a \in 0..255 /\ b \in 0..255 /\ c \in 0..255 /\ d \in 0..255 /\ e \in 0..255 /\ g \in 0..255
Words(w, x, y, z) ==
  /\ w \in Nat /\ w < 256 * 256 /\ x \in Nat /\ x < 256 * 256
  /\ y \in Nat /\ y < 256 * 256 /\ z \in Nat /\ z < 256 * 256
Measured(a, b, c, d, e, g, w, x, y, z) ==
  \E s : /\ s = <<a, b, c>> \o Le(w, 2) \o Le(x, 2) \o Le(y, 2) \o <<d, e>> \o Zeros(2) \o <<g>> \o Zeros(2) \o Le(z, 2)
       /\ Str(s, 18) /\ s[3] = c /\ s[4] = Le(w, 2)[1] /\ s[5] = Le(w, 2)[2] /\ s[6] = Le(x, 2)[1]
       /\ s[7] = Le(x, 2)[2] /\ s[8] = Le(y, 2)[1] /\ s[9] = Le(y, 2)[2] /\ s[10] = d
       /\ s[11] = e /\ s[14] = g /\ s[17] = Le(z, 2)[1] /\ s[18] = Le(z, 2)[2]

LEMMA MeasuredBody ==
  ASSUME NEW a, NEW b, NEW c, NEW d, NEW e, NEW g, Octets(a, b, c, d, e, g),
         NEW w, NEW x, NEW y, NEW z, Words(w, x, y, z)
  PROVE  Measured(a, b, c, d, e, g, w, x, y, z)
<1>0. /\ a \in 0..255 /\ b \in 0..255 /\ c \in 0..255 /\ d \in 0..255 /\ e \in 0..255 /\ g \in 0..255
      /\ w \in Nat /\ w < 256 * 256 /\ x \in Nat /\ x < 256 * 256
      /\ y \in Nat /\ y < 256 * 256 /\ z \in Nat /\ z < 256 * 256
  BY DEF Octets, Words
<1>1. PICK p1 : p1 = <<a, b, c>> /\ Str(p1, 3) /\ p1[1] = a /\ p1[2] = b /\ p1[3] = c
  <2>1. Str(<<a, b, c>>, 3)
    BY <1>0 DEF Str
  <2> QED BY <2>1
<1>2. PICK p2 : p2 = Le(w, 2) /\ Str(p2, 2)
  <2>1. Str(Le(w, 2), 2)
    BY <1>0, LeIs
  <2> QED BY <2>1
<1>3. PICK p3 : p3 = Le(x, 2) /\ Str(p3, 2)
  <2>1. Str(Le(x, 2), 2)
    BY <1>0, LeIs
  <2> QED BY <2>1
<1>4. PICK p4 : p4 = Le(y, 2) /\ Str(p4, 2)
  <2>1. Str(Le(y, 2), 2)
    BY <1>0, LeIs
  <2> QED BY <2>1
<1>5. PICK p5 : p5 = <<d, e>> /\ Str(p5, 2) /\ p5[1] = d /\ p5[2] = e
  BY <1>0, StrTwo, ZenonT(60)
<1>6. PICK p6 : p6 = Zeros(2) /\ Str(p6, 2) /\ \A j \in 1..2 : p6[j] = 0
  BY ZerosAre
<1>7. PICK p7 : p7 = <<g>> /\ Str(p7, 1) /\ p7[1] = g
  BY <1>0, StrOne, Zenon
<1>8. PICK p8 : p8 = Zeros(2) /\ Str(p8, 2) /\ \A j \in 1..2 : p8[j] = 0
  BY ZerosAre
<1>9. PICK p9 : p9 = Le(z, 2) /\ Str(p9, 2)
  <2>1. Str(Le(z, 2), 2)
    BY <1>0, LeIs
  <2> QED BY <2>1
<1>10. 1 \in Nat /\ 2 \in Nat /\ 3 \in Nat /\ 5 \in Nat /\ 7 \in Nat /\ 9 \in Nat /\ 11 \in Nat
      /\ 13 \in Nat /\ 14 \in Nat /\ 16 \in Nat /\ 18 \in Nat /\ 3 + 2 = 5 /\ 5 + 2 = 7
      /\ 7 + 2 = 9 /\ 9 + 2 = 11 /\ 11 + 2 = 13 /\ 13 + 1 = 14 /\ 14 + 2 = 16 /\ 16 + 2 = 18
  OBVIOUS
<1>11. PICK r1 : r1 = p1 \o p2 /\ Spliced(r1, p1, 3, p2, 2)
  BY <1>1, <1>2, <1>10, StrJoin, Zenon
<1>12. Str(r1, 5) /\ \A j \in 1..5 : r1[j] = IF j <= 3 THEN p1[j] ELSE p2[j - 3]
  BY <1>10, <1>11, Zenon DEF Spliced
<1>13. r1[1] = a /\ r1[2] = b /\ r1[3] = c /\ r1[4] = Le(w, 2)[1] /\ r1[5] = Le(w, 2)[2]
  BY <1>1, <1>2, <1>12
<1>14. PICK r2 : r2 = r1 \o p3 /\ Spliced(r2, r1, 5, p3, 2)
  BY <1>12, <1>3, <1>10, StrJoin, Zenon
<1>15. Str(r2, 7) /\ \A j \in 1..7 : r2[j] = IF j <= 5 THEN r1[j] ELSE p3[j - 5]
  BY <1>10, <1>14, Zenon DEF Spliced
<1>16. r2[1] = a /\ r2[2] = b /\ r2[3] = c /\ r2[4] = Le(w, 2)[1] /\ r2[5] = Le(w, 2)[2]
      /\ r2[6] = Le(x, 2)[1] /\ r2[7] = Le(x, 2)[2]
  BY <1>13, <1>3, <1>15
<1>17. PICK r3 : r3 = r2 \o p4 /\ Spliced(r3, r2, 7, p4, 2)
  BY <1>15, <1>4, <1>10, StrJoin, Zenon
<1>18. Str(r3, 9) /\ \A j \in 1..9 : r3[j] = IF j <= 7 THEN r2[j] ELSE p4[j - 7]
  BY <1>10, <1>17, Zenon DEF Spliced
<1>19. r3[1] = a /\ r3[2] = b /\ r3[3] = c /\ r3[4] = Le(w, 2)[1] /\ r3[5] = Le(w, 2)[2]
      /\ r3[6] = Le(x, 2)[1] /\ r3[7] = Le(x, 2)[2] /\ r3[8] = Le(y, 2)[1] /\ r3[9] = Le(y, 2)[2]
  BY <1>16, <1>4, <1>18
<1>20. PICK r4 : r4 = r3 \o p5 /\ Spliced(r4, r3, 9, p5, 2)
  BY <1>18, <1>5, <1>10, StrJoin, Zenon
<1>21. Str(r4, 11) /\ \A j \in 1..11 : r4[j] = IF j <= 9 THEN r3[j] ELSE p5[j - 9]
  BY <1>10, <1>20, Zenon DEF Spliced
<1>22. r4[1] = a /\ r4[2] = b /\ r4[3] = c /\ r4[4] = Le(w, 2)[1] /\ r4[5] = Le(w, 2)[2]
      /\ r4[6] = Le(x, 2)[1] /\ r4[7] = Le(x, 2)[2] /\ r4[8] = Le(y, 2)[1] /\ r4[9] = Le(y, 2)[2]
      /\ r4[10] = d /\ r4[11] = e
  BY <1>19, <1>5, <1>21
<1>23. PICK r5 : r5 = r4 \o p6 /\ Spliced(r5, r4, 11, p6, 2)
  BY <1>21, <1>6, <1>10, StrJoin, Zenon
<1>24. Str(r5, 13) /\ \A j \in 1..13 : r5[j] = IF j <= 11 THEN r4[j] ELSE p6[j - 11]
  BY <1>10, <1>23, Zenon DEF Spliced
<1>25. r5[1] = a /\ r5[2] = b /\ r5[3] = c /\ r5[4] = Le(w, 2)[1] /\ r5[5] = Le(w, 2)[2]
      /\ r5[6] = Le(x, 2)[1] /\ r5[7] = Le(x, 2)[2] /\ r5[8] = Le(y, 2)[1] /\ r5[9] = Le(y, 2)[2]
      /\ r5[10] = d /\ r5[11] = e /\ r5[12] = 0 /\ r5[13] = 0
  BY <1>22, <1>6, <1>24
<1>26. PICK r6 : r6 = r5 \o p7 /\ Spliced(r6, r5, 13, p7, 1)
  BY <1>24, <1>7, <1>10, StrJoin, Zenon
<1>27. Str(r6, 14) /\ \A j \in 1..14 : r6[j] = IF j <= 13 THEN r5[j] ELSE p7[j - 13]
  BY <1>10, <1>26, Zenon DEF Spliced
<1>28. r6[1] = a /\ r6[2] = b /\ r6[3] = c /\ r6[4] = Le(w, 2)[1] /\ r6[5] = Le(w, 2)[2]
      /\ r6[6] = Le(x, 2)[1] /\ r6[7] = Le(x, 2)[2] /\ r6[8] = Le(y, 2)[1] /\ r6[9] = Le(y, 2)[2]
      /\ r6[10] = d /\ r6[11] = e /\ r6[12] = 0 /\ r6[13] = 0 /\ r6[14] = g
  BY <1>25, <1>7, <1>27
<1>29. PICK r7 : r7 = r6 \o p8 /\ Spliced(r7, r6, 14, p8, 2)
  BY <1>27, <1>8, <1>10, StrJoin, Zenon
<1>30. Str(r7, 16) /\ \A j \in 1..16 : r7[j] = IF j <= 14 THEN r6[j] ELSE p8[j - 14]
  BY <1>10, <1>29, Zenon DEF Spliced
<1>31. r7[1] = a /\ r7[2] = b /\ r7[3] = c /\ r7[4] = Le(w, 2)[1] /\ r7[5] = Le(w, 2)[2]
      /\ r7[6] = Le(x, 2)[1] /\ r7[7] = Le(x, 2)[2] /\ r7[8] = Le(y, 2)[1] /\ r7[9] = Le(y, 2)[2]
      /\ r7[10] = d /\ r7[11] = e /\ r7[12] = 0 /\ r7[13] = 0 /\ r7[14] = g /\ r7[15] = 0
      /\ r7[16] = 0
  BY <1>28, <1>8, <1>30
<1>32. PICK r8 : r8 = r7 \o p9 /\ Spliced(r8, r7, 16, p9, 2)
  BY <1>30, <1>9, <1>10, StrJoin, Zenon
<1>33. Str(r8, 18) /\ \A j \in 1..18 : r8[j] = IF j <= 16 THEN r7[j] ELSE p9[j - 16]
  BY <1>10, <1>32, Zenon DEF Spliced
<1>34. r8[1] = a /\ r8[2] = b /\ r8[3] = c /\ r8[4] = Le(w, 2)[1] /\ r8[5] = Le(w, 2)[2]
      /\ r8[6] = Le(x, 2)[1] /\ r8[7] = Le(x, 2)[2] /\ r8[8] = Le(y, 2)[1] /\ r8[9] = Le(y, 2)[2]
      /\ r8[10] = d /\ r8[11] = e /\ r8[12] = 0 /\ r8[13] = 0 /\ r8[14] = g /\ r8[15] = 0
      /\ r8[16] = 0 /\ r8[17] = Le(z, 2)[1] /\ r8[18] = Le(z, 2)[2]
  BY <1>31, <1>9, <1>33
<1>35. r8 = <<a, b, c>> \o Le(w, 2) \o Le(x, 2) \o Le(y, 2) \o <<d, e>> \o Zeros(2) \o <<g>> \o Zeros(2) \o Le(z, 2)
  BY <1>1, <1>2, <1>3, <1>4, <1>5, <1>6, <1>7, <1>8, <1>9, <1>11, <1>14, <1>17, <1>20, <1>23, <1>26, <1>29, <1>32, Zenon
<1>36. /\ Str(r8, 18) /\ r8[3] = c /\ r8[4] = Le(w, 2)[1] /\ r8[5] = Le(w, 2)[2] /\ r8[6] = Le(x, 2)[1]
      /\ r8[7] = Le(x, 2)[2] /\ r8[8] = Le(y, 2)[1] /\ r8[9] = Le(y, 2)[2] /\ r8[10] = d
      /\ r8[11] = e /\ r8[14] = g /\ r8[17] = Le(z, 2)[1] /\ r8[18] = Le(z, 2)[2]
  BY <1>33, <1>34, Zenon
<1> QED BY <1>35, <1>36, Zenon DEF Measured

\* What a servo may measure.
Fits(x, bit) == x \in Int /\ -(2^bit) < x /\ x < 2^bit
ScsReading(v) ==
  \E p, q, u, d, e, g, h, c :
    /\ v = <<p, q, u, d, e, g, h, c>>
    /\ Fits(p, 15) /\ Fits(q, 15) /\ Fits(u, 10) /\ Fits(h, 15)
    /\ d \in 0..255 /\ e \in 0..255 /\ g \in 0..255 /\ c \in 0..255

\* A word that stands for a number.
StandsFor(w, x, bit) == w = Marked(x, bit) /\ w \in Nat /\ w < 256 * 256 /\ Magnitude(w, bit) = x

LEMMA Standing ==
  ASSUME NEW bit \in {10, 15}, NEW x, Fits(x, bit)
  PROVE  StandsFor(Marked(x, bit), x, bit)
  BY MarkedBack, ZenonT(60) DEF Fits, StandsFor

LEMMA ScsMeasured ==
  ASSUME NEW id \in Drives, NEW v, ScsReading(v)
  PROVE  /\ Summable(ScsAnswer(id, "data", v))
         /\ ScsFeedback(ScsAnswer(id, "data", v)) = v
<1>1. PICK p, q, u, d, e, g, h, c :
        /\ v = <<p, q, u, d, e, g, h, c>>
        /\ Fits(p, 15) /\ Fits(q, 15) /\ Fits(u, 10) /\ Fits(h, 15)
        /\ d \in 0..255 /\ e \in 0..255 /\ g \in 0..255 /\ c \in 0..255
  BY DEF ScsReading
<1>2. PICK a, b : a = id /\ b = 17 /\ a \in 0..255 /\ b \in 0..255
  <2>1. id \in 0..255
    BY DriveIs
  <2> QED BY <2>1
<1>3. PICK w, x, y, z : StandsFor(w, p, 15) /\ StandsFor(x, q, 15) /\ StandsFor(y, u, 10) /\ StandsFor(z, h, 15)
  BY <1>1, Standing
<1>4. /\ w \in Nat /\ w < 256 * 256 /\ x \in Nat /\ x < 256 * 256
      /\ y \in Nat /\ y < 256 * 256 /\ z \in Nat /\ z < 256 * 256
  BY <1>3 DEF StandsFor
<1>5. PICK s : /\ s = <<a, b, c>> \o Le(w, 2) \o Le(x, 2) \o Le(y, 2) \o <<d, e>> \o Zeros(2) \o <<g>> \o Zeros(2) \o Le(z, 2)
               /\ Str(s, 18) /\ s[3] = c /\ s[4] = Le(w, 2)[1] /\ s[5] = Le(w, 2)[2] /\ s[6] = Le(x, 2)[1]
               /\ s[7] = Le(x, 2)[2] /\ s[8] = Le(y, 2)[1] /\ s[9] = Le(y, 2)[2] /\ s[10] = d
               /\ s[11] = e /\ s[14] = g /\ s[17] = Le(z, 2)[1] /\ s[18] = Le(z, 2)[2]
  <2>1. Octets(a, b, c, d, e, g)
    BY <1>1, <1>2 DEF Octets
  <2>2. Words(w, x, y, z)
    BY <1>4 DEF Words
  <2>3. Measured(a, b, c, d, e, g, w, x, y, z)
    BY <2>1, <2>2, MeasuredBody, Zenon
  <2> QED BY <2>3 DEF Measured
<1>6. 18 \in Nat /\ 18 \in Nat \ {0} /\ 18 + 3 = 21
  OBVIOUS
<1>7. PICK f : f = ScsFrame(s) /\ Summed(f, s, 18)
  BY <1>5, <1>6, SummedIs, Zenon
<1>8. Summable(f) /\ Len(f) = 21 /\ ScsIntact(f)
  <2>1. Summable(f)
    BY <1>6, <1>7, Zenon DEF Summable
  <2>2. Len(f) = 18 + 3 /\ ScsIntact(f)
    BY <1>6, <1>7, SummedIntact, Zenon
  <2> QED BY <2>1, <2>2
<1>9. /\ f[5] = s[3] /\ f[6] = s[4] /\ f[7] = s[5] /\ f[8] = s[6] /\ f[9] = s[7] /\ f[10] = s[8]
      /\ f[11] = s[9] /\ f[12] = s[10] /\ f[13] = s[11] /\ f[16] = s[14] /\ f[19] = s[17] /\ f[20] = s[18]
  <2>1. \A i \in 1..18 : f[i + 2] = s[i]
    BY <1>7, Zenon DEF Summed
  <2> QED BY <2>1
<1>10. /\ f[5] = c /\ f[12] = d /\ f[13] = e /\ f[16] = g
       /\ f[6] + 256 * f[7] = w /\ f[8] + 256 * f[9] = x
       /\ f[10] + 256 * f[11] = y /\ f[19] + 256 * f[20] = z
  <2>1. /\ Le(w, 2)[1] + 256 * Le(w, 2)[2] = w /\ Le(x, 2)[1] + 256 * Le(x, 2)[2] = x
        /\ Le(y, 2)[1] + 256 * Le(y, 2)[2] = y /\ Le(z, 2)[1] + 256 * Le(z, 2)[2] = z
    BY <1>4, LeIs
  <2> QED BY <1>5, <1>9, <2>1, ZenonT(60)
<1>11. ScsFeedback(f) = <<p, q, u, d, e, g, h, c>>
  <2>1. ScsRead(f, 15)
    BY <1>8 DEF ScsRead
  <2>2. /\ Magnitude(f[6] + 256 * f[7], 15) = p /\ Magnitude(f[8] + 256 * f[9], 15) = q
        /\ Magnitude(f[10] + 256 * f[11], 10) = u /\ Magnitude(f[19] + 256 * f[20], 15) = h
    BY <1>3, <1>10 DEF StandsFor
  <2>3. ScsFeedback(f) = <<Magnitude(f[6] + 256 * f[7], 15), Magnitude(f[8] + 256 * f[9], 15),
                           Magnitude(f[10] + 256 * f[11], 10), f[12], f[13], f[16],
                           Magnitude(f[19] + 256 * f[20], 15), f[5]>>
    <3>1. /\ 6 + 0 = 6 /\ 6 + (0 + 1) = 7 /\ 6 + 2 = 8 /\ 6 + (2 + 1) = 9 /\ 6 + 4 = 10
          /\ 6 + (4 + 1) = 11 /\ 6 + 6 = 12 /\ 6 + 7 = 13 /\ 6 + 10 = 16 /\ 6 + 13 = 19 /\ 6 + (13 + 1) = 20
      OBVIOUS
    <3> QED BY <2>1, <3>1, ZenonT(60) DEF ScsFeedback
  <2> QED BY <1>10, <2>2, <2>3, Zenon
<1>12. f = ScsAnswer(id, "data", v)
  <2>1. /\ v[1] = p /\ v[2] = q /\ v[3] = u /\ v[4] = d /\ v[5] = e /\ v[6] = g /\ v[7] = h /\ v[8] = c
    BY <1>1
  <2>2. /\ w = (IF p < 0 THEN 2^15 - p ELSE p) /\ x = (IF q < 0 THEN 2^15 - q ELSE q)
        /\ y = (IF u < 0 THEN 2^10 - u ELSE u) /\ z = (IF h < 0 THEN 2^15 - h ELSE h)
    BY <1>3, Zenon DEF StandsFor, Marked
  <2>3. "data" # "ack"
    OBVIOUS
  <2>4. ScsAnswer(id, "data", v) =
          ScsFrame(<<id, 17, c>> \o Le(IF p < 0 THEN 2^15 - p ELSE p, 2) \o Le(IF q < 0 THEN 2^15 - q ELSE q, 2)
                   \o Le(IF u < 0 THEN 2^10 - u ELSE u, 2) \o <<d, e>>
                   \o Zeros(2) \o <<g>> \o Zeros(2) \o Le(IF h < 0 THEN 2^15 - h ELSE h, 2))
    BY <2>1, <2>3 DEF ScsAnswer
  <2> HIDE <2>1
  <2> QED BY <1>2, <1>5, <1>7, <2>2, <2>4, ZenonT(60)
<1> QED BY <1>1, <1>8, <1>11, <1>12, Zenon

\* A damaged frame is refused, by a servo and by the driver.
LEMMA ScsDamaged ==
  ASSUME NEW f, Summable(f), NEW d, ByteOff(d, f, Len(f)), NEW i
  PROVE  ScsReads(i, d) = Refused /\ ~ScsAck(i, d) /\ ScsFeedback(d) = Refused
<1>1. PICK n \in Nat \ {0} : \E body : Summed(f, body, n)
  BY DEF Summable
<1>2. PICK body : Summed(f, body, n)
  BY <1>1
<1>3. Len(f) = n + 3
  BY <1>2, SummedIntact, Zenon
<1>4. ByteOff(d, f, n + 3)
  BY <1>3
<1>5. ~ScsIntact(d)
  BY <1>2, <1>4, DamageBreaksTheSum, Zenon
<1> QED BY <1>5 DEF ScsReads, ScsAck, ScsFeedback, ScsRead

-----------------------------------------------------------------------------
(* The frames of the VESC.                                                   *)

\* A CAN id is a number and the id of a drive.
\* An extended id is a command and a drive.
Splits(x, k, id) == x \div 256 = k /\ x % 256 = id

LEMMA IdSplits ==
  ASSUME NEW k \in Nat, NEW id \in Drives
  PROVE  Splits(k * 256 + id, k, id)
<1>1. id \in 0..255
  BY DriveIs
<1> QED BY <1>1 DEF Splits

LEMMA IdsDiffer ==
  ASSUME NEW k \in Nat, NEW m \in Nat, NEW id \in Drives, NEW i \in Drives, k * 256 + id = m * 256 + i
  PROVE  k = m /\ id = i
<1>1. PICK x : x = k * 256 + id
  OBVIOUS
<1>2. Splits(x, k, id)
  BY <1>1, IdSplits
<1>3. PICK y : y = m * 256 + i
  OBVIOUS
<1>4. Splits(y, m, i)
  BY <1>3, IdSplits
<1>5. x = y
  BY <1>1, <1>3
<1> QED BY <1>2, <1>4, <1>5 DEF Splits

LEMMA AmountIs ==
  ASSUME NEW v \in Amounts
  PROVE  v \in Int /\ Within(v, 4)
<1>1. PICK low \in Int, high \in Int :
        /\ low = (-128) * (256 * 256 * 256)
        /\ high = 127 * (256 * 256 * 256) + (256 * 256 * 256 - 1)
  OBVIOUS
<1>2. v \in low..high
  <2>1. v \in ((-128) * (256 * 256 * 256))..(127 * (256 * 256 * 256) + (256 * 256 * 256 - 1))
    BY MotorFramesAssumption, ZenonT(60)
  <2> QED BY <1>1, <2>1, Zenon
<1>3. v \in Int /\ low <= v /\ v <= high
  BY <1>2
<1>4. -(128 * 256 * 256 * 256) = low /\ high = 128 * 256 * 256 * 256 - 1
  BY <1>1
<1>5. -(128 * 256 * 256 * 256) <= v /\ v < 128 * 256 * 256 * 256
  BY <1>3, <1>4
<1> QED BY <1>3, <1>5 DEF Within

\* A command to a servo on a VESC.
ToServo(a, b, c, w) ==
  \E s : s = <<a, b, c>> \o Be(w, 2) /\ s[3] = c /\ Signed(Part(s, 4, 2)) = w

LEMMA ServoBody ==
  ASSUME NEW a \in 0..255, NEW b \in 0..255, NEW c \in 0..255, NEW w, Within(w, 2)
  PROVE  ToServo(a, b, c, w)
<1>1. PICK p : p = <<a, b, c>> /\ Str(p, 3) /\ p[3] = c
  <2>1. Str(<<a, b, c>>, 3)
    BY DEF Str
  <2> QED BY <2>1
<1>2. w \in Int
  BY DEF Within
<1>3. PICK q : q = Be(w, 2) /\ Str(q, 2) /\ q[1] = Digit(w, 1) /\ q[2] = Digit(w, 0)
  BY <1>2, BeTwo, Zenon
<1>4. 2 \in Nat /\ 3 \in Nat /\ 5 \in Nat /\ 3 + 2 = 5 /\ 4 \in 1..5 /\ 4 + 1 = 5 /\ 5 <= 5
  OBVIOUS
<1>5. PICK s : s = p \o q /\ Spliced(s, p, 3, q, 2)
  BY <1>1, <1>3, <1>4, StrJoin, Zenon
<1>6. Str(s, 5) /\ \A j \in 1..5 : s[j] = IF j <= 3 THEN p[j] ELSE q[j - 3]
  BY <1>4, <1>5, Zenon DEF Spliced
<1>7. s[3] = c /\ s[4] = Digit(w, 1) /\ s[5] = Digit(w, 0)
  BY <1>1, <1>3, <1>6
<1>8. Part(s, 4, 2) = Be(w, 2)
  BY <1>2, <1>4, <1>6, <1>7, WordAt
<1>9. Signed(Part(s, 4, 2)) = w
  BY <1>8, SignedBe
<1> QED BY <1>1, <1>3, <1>5, <1>7, <1>9, Zenon DEF ToServo

\* What a command asks of a VESC.
VescAsked(op, v) ==
  CASE op = "servo"   -> <<op, Clamp(v, 0, 1000)>>
    [] op = "current" -> <<op, Clamp(v, -20000, 20000)>>
    [] op = "brake"   -> <<op, Clamp(v, 0, 20000)>>
    [] op = "rpm"     -> <<op, v>>
    [] OTHER          -> <<op, Clamp(v, 0, 100000)>>

\* The number of a command.
LEMMA VescNumber ==
  ASSUME NEW op \in VescOps
  PROVE  /\ op = "servo" \/ \E k \in 1..5 : VescCommands[k] = op
         /\ \A k \in 1..5 : VescCommands[k] = op =>
              (CHOOSE n \in DOMAIN VescCommands \cup {9} : IF n = 9 THEN op = "servo" ELSE VescCommands[n] = op) = k
         /\ op = "servo" =>
              (CHOOSE n \in DOMAIN VescCommands \cup {9} : IF n = 9 THEN op = "servo" ELSE VescCommands[n] = op) = 9
<1>1. DOMAIN VescCommands = 1..5
  BY DEF VescCommands
<1>2. /\ VescCommands[1] = "duty" /\ VescCommands[2] = "current" /\ VescCommands[3] = "brake"
      /\ VescCommands[4] = "rpm" /\ VescCommands[5] = "position"
  BY DEF VescCommands
<1>3. \A k \in 1..5 : k = 1 \/ k = 2 \/ k = 3 \/ k = 4 \/ k = 5
  OBVIOUS
<1>4. \A k \in 1..5 : VescCommands[k] # "servo"
  BY <1>2, <1>3
<1>5. \A k \in 1..5 : \A n \in 1..5 : VescCommands[k] = VescCommands[n] => k = n
  BY <1>2, <1>3
<1>6. op = "servo" \/ \E k \in 1..5 : VescCommands[k] = op
  BY <1>1 DEF VescOps, Range
<1> DEFINE P(n) == IF n = 9 THEN op = "servo" ELSE VescCommands[n] = op
            S == (1..5) \cup {9}
<1>8. ASSUME NEW k \in 1..5, VescCommands[k] = op
      PROVE  (CHOOSE n \in S : P(n)) = k
  <2>1. k \in S /\ P(k)
    BY <1>8
  <2>2. \A n \in S : P(n) => n = k
    BY <1>4, <1>5, <1>8
  <2> QED BY <2>1, <2>2
<1>9. ASSUME op = "servo"
      PROVE  (CHOOSE n \in S : P(n)) = 9
  <2>1. 9 \in S /\ P(9)
    BY <1>9
  <2>2. \A n \in S : P(n) => n = 9
    BY <1>4, <1>9
  <2> QED BY <2>1, <2>2
<1> QED BY <1>1, <1>6, <1>8, <1>9

\* The two parts of a command's frame.
VescIndex(op) ==
  CHOOSE n \in DOMAIN VescCommands \cup {9} : IF n = 9 THEN op = "servo" ELSE VescCommands[n] = op
VescData(id, op, v) ==
  CASE op = "servo" -> <<id, 0, 12>> \o Be(Clamp(v, 0, 1000), 2)
    [] op \in {"duty", "position"} -> Be(Clamp(v, 0, 100000), 4)
    [] op = "current" -> Be(Clamp(v, -20000, 20000), 4)
    [] op = "brake" -> Be(Clamp(v, 0, 20000), 4)
    [] op = "rpm"   -> Be(v, 4)

LEMMA VescFrameIs ==
  ASSUME NEW id, NEW op, NEW v
  PROVE  /\ VescFrame(id, op, v).id = (VescIndex(op) - 1) * 256 + id
         /\ VescFrame(id, op, v).data = VescData(id, op, v)
<1>1. VescFrame(id, op, v) = [id |-> (VescIndex(op) - 1) * 256 + id, data |-> VescData(id, op, v)]
  BY DEF VescFrame, VescIndex, VescData
<1> QED BY <1>1

LEMMA VescCommanded ==
  ASSUME NEW id \in Drives, NEW op \in VescOps, NEW v \in Amounts, NEW i \in Drives
  PROVE  VescReads(i, VescFrame(id, op, v)) = IF i = id THEN VescAsked(op, v) ELSE Refused
<1>1. PICK n : n = VescIndex(op)
  OBVIOUS
<1>2. PICK f : /\ f = VescFrame(id, op, v)
               /\ f.id = (n - 1) * 256 + id /\ f.data = VescData(id, op, v)
  BY <1>1, VescFrameIs, ZenonT(60)
<1>3. v \in Int /\ Within(v, 4)
  BY AmountIs
<1> SUFFICES VescReads(i, f) = IF i = id THEN VescAsked(op, v) ELSE Refused
  BY <1>2
<1>4. CASE op = "servo"
  <2>1. n = 9
    BY <1>1, <1>4, VescNumber, Zenon DEF VescIndex
  <2>2. PICK w : w = Clamp(v, 0, 1000) /\ Within(w, 2)
    <3>1. Clamp(v, 0, 1000) \in 0..1000
      BY <1>3 DEF Clamp
    <3> QED BY <3>1 DEF Within
  <2>3. PICK k \in Nat : k = 8
    OBVIOUS
  <2>4. f.id = k * 256 + id /\ f.data = <<id, 0, 12>> \o Be(w, 2)
    <3>1. f.data = <<id, 0, 12>> \o Be(w, 2)
      BY <1>2, <1>4, <2>2 DEF VescData
    <3>2. 9 - 1 = k
      BY <2>3
    <3> QED BY <1>2, <2>1, <3>1, <3>2, Zenon
  <2>5. f.data[3] = 12 /\ Signed(Part(f.data, 4, 2)) = w
    <3>1. PICK b, c : b = 0 /\ c = 12 /\ b \in 0..255 /\ c \in 0..255
      OBVIOUS
    <3>2. id \in 0..255
      BY DriveIs
    <3>3. b \in 0..255 /\ c \in 0..255 /\ Within(w, 2)
      BY <2>2, <3>1
    <3>4. PICK s : s = <<id, b, c>> \o Be(w, 2) /\ s[3] = c /\ Signed(Part(s, 4, 2)) = w
      <4>1. ToServo(id, b, c, w)
        BY <3>2, <3>3, ServoBody, Zenon
      <4> QED BY <4>1 DEF ToServo
    <3> QED BY <2>4, <3>1, <3>4
  <2>6. f.id \div 256 = k /\ f.id % 256 = id
    <3>1. Splits(k * 256 + id, k, id)
      BY IdSplits
    <3> QED BY <2>4, <3>1 DEF Splits
  <2>7. VescReads(i, f) = IF i = id THEN <<"servo", w>> ELSE Refused
    BY <2>3, <2>5, <2>6 DEF VescReads
  <2> QED BY <1>4, <2>2, <2>7 DEF VescAsked
<1>5. CASE op # "servo"
  <2>1. PICK k \in 1..5 : VescCommands[k] = op
    BY <1>5, VescNumber
  <2>2. n = k
    BY <1>1, <2>1, VescNumber, Zenon DEF VescIndex
  <2>3. op \in {"duty", "current", "brake", "rpm", "position"}
    BY <2>1 DEF VescCommands
  <2>4. PICK w : f.data = Be(w, 4) /\ Within(w, 4) /\ VescAsked(op, v) = <<op, w>>
    <3>1. PICK w : w = IF op \in {"duty", "position"} THEN Clamp(v, 0, 100000)
                       ELSE IF op = "current" THEN Clamp(v, -20000, 20000)
                       ELSE IF op = "brake" THEN Clamp(v, 0, 20000) ELSE v
      OBVIOUS
    <3>2. Within(w, 4)
      <4>1. CASE op = "rpm"
        BY <1>3, <3>1, <4>1
      <4>2. CASE op # "rpm"
        <5>1. w \in Int /\ -20000 <= w /\ w <= 100000
          <6>1. CASE op \in {"duty", "position"}
            BY <1>3, <3>1, <6>1 DEF Clamp
          <6>2. CASE op = "current"
            BY <1>3, <3>1, <6>2 DEF Clamp
          <6>3. CASE op = "brake"
            BY <1>3, <3>1, <6>3 DEF Clamp
          <6> QED BY <2>3, <4>2, <6>1, <6>2, <6>3
        <5>2. -(128 * 256 * 256 * 256) <= w /\ w < 128 * 256 * 256 * 256
          BY <5>1
        <5> QED BY <5>1, <5>2 DEF Within
      <4> QED BY <4>1, <4>2
    <3>3. VescAsked(op, v) = <<op, w>>
      BY <2>3, <3>1 DEF VescAsked
    <3>4. f.data = Be(w, 4)
      BY <1>2, <2>3, <3>1 DEF VescData
    <3> QED BY <3>2, <3>3, <3>4
  <2>5. Signed(f.data) = w
    BY <2>4, SignedBe
  <2>6. PICK m \in Nat : m = k - 1 /\ m < 5 /\ m + 1 = k
    OBVIOUS
  <2>7. f.id = m * 256 + id
    BY <1>2, <2>2, <2>6, Zenon
  <2>8. f.id \div 256 = m /\ f.id % 256 = id
    <3>1. Splits(m * 256 + id, m, id)
      BY IdSplits
    <3> QED BY <2>7, <3>1 DEF Splits
  <2>9. VescReads(i, f) = IF i = id THEN <<op, w>> ELSE Refused
    BY <2>1, <2>5, <2>6, <2>8 DEF VescReads
  <2> QED BY <2>4, <2>9
<1> QED BY <1>4, <1>5

\* The eight bytes of a report.
EightAre(s, a, b, c, d, e, f, g, h) ==
  /\ Str(s, 8) /\ s[1] = a /\ s[2] = b /\ s[3] = c /\ s[4] = d
  /\ s[5] = e /\ s[6] = f /\ s[7] = g /\ s[8] = h

LEMMA ReportBody ==
  ASSUME NEW w \in Int, NEW x \in Int, NEW y \in Int
  PROVE  EightAre(Be(w, 4) \o Be(x, 2) \o Be(y, 2), Digit(w, 3), Digit(w, 2), Digit(w, 1), Digit(w, 0), Digit(x, 1), Digit(x, 0), Digit(y, 1), Digit(y, 0))
<1>1. PICK p1 : p1 = Be(w, 4) /\ Str(p1, 4) /\ p1[1] = Digit(w, 3) /\ p1[2] = Digit(w, 2) /\ p1[3] = Digit(w, 1) /\ p1[4] = Digit(w, 0)
  BY BeFour, Zenon
<1>2. PICK p2 : p2 = Be(x, 2) /\ Str(p2, 2) /\ p2[1] = Digit(x, 1) /\ p2[2] = Digit(x, 0)
  BY BeTwo, Zenon
<1>3. PICK p3 : p3 = Be(y, 2) /\ Str(p3, 2) /\ p3[1] = Digit(y, 1) /\ p3[2] = Digit(y, 0)
  BY BeTwo, Zenon
<1>4. 2 \in Nat /\ 4 \in Nat /\ 6 \in Nat /\ 8 \in Nat /\ 4 + 2 = 6 /\ 6 + 2 = 8
  OBVIOUS
<1>5. PICK r1 : r1 = p1 \o p2 /\ Spliced(r1, p1, 4, p2, 2)
  BY <1>1, <1>2, <1>4, StrJoin, Zenon
<1>6. Str(r1, 6) /\ \A j \in 1..6 : r1[j] = IF j <= 4 THEN p1[j] ELSE p2[j - 4]
  BY <1>4, <1>5, Zenon DEF Spliced
<1>7. r1[1] = Digit(w, 3) /\ r1[2] = Digit(w, 2) /\ r1[3] = Digit(w, 1) /\ r1[4] = Digit(w, 0)
      /\ r1[5] = Digit(x, 1) /\ r1[6] = Digit(x, 0)
  BY <1>1, <1>2, <1>6
<1>8. PICK r2 : r2 = r1 \o p3 /\ Spliced(r2, r1, 6, p3, 2)
  BY <1>6, <1>3, <1>4, StrJoin, Zenon
<1>9. Str(r2, 8) /\ \A j \in 1..8 : r2[j] = IF j <= 6 THEN r1[j] ELSE p3[j - 6]
  BY <1>4, <1>8, Zenon DEF Spliced
<1>10. r2[1] = Digit(w, 3) /\ r2[2] = Digit(w, 2) /\ r2[3] = Digit(w, 1) /\ r2[4] = Digit(w, 0)
      /\ r2[5] = Digit(x, 1) /\ r2[6] = Digit(x, 0) /\ r2[7] = Digit(y, 1) /\ r2[8] = Digit(y, 0)
  BY <1>7, <1>3, <1>9
<1>11. r2 = Be(w, 4) \o Be(x, 2) \o Be(y, 2)
  BY <1>1, <1>2, <1>3, <1>5, <1>8, Zenon
<1>12. EightAre(r2, Digit(w, 3), Digit(w, 2), Digit(w, 1), Digit(w, 0), Digit(x, 1), Digit(x, 0), Digit(y, 1), Digit(y, 0))
  BY <1>9, <1>10, Zenon DEF EightAre
<1> QED BY <1>11, <1>12, Zenon

LEMMA LongsBody ==
  ASSUME NEW w \in Int, NEW x \in Int
  PROVE  EightAre(Be(w, 4) \o Be(x, 4), Digit(w, 3), Digit(w, 2), Digit(w, 1), Digit(w, 0), Digit(x, 3), Digit(x, 2), Digit(x, 1), Digit(x, 0))
<1>1. PICK p1 : p1 = Be(w, 4) /\ Str(p1, 4) /\ p1[1] = Digit(w, 3) /\ p1[2] = Digit(w, 2) /\ p1[3] = Digit(w, 1) /\ p1[4] = Digit(w, 0)
  BY BeFour, Zenon
<1>2. PICK p2 : p2 = Be(x, 4) /\ Str(p2, 4) /\ p2[1] = Digit(x, 3) /\ p2[2] = Digit(x, 2) /\ p2[3] = Digit(x, 1) /\ p2[4] = Digit(x, 0)
  BY BeFour, Zenon
<1>3. 4 \in Nat /\ 8 \in Nat /\ 4 + 4 = 8
  OBVIOUS
<1>4. PICK r1 : r1 = p1 \o p2 /\ Spliced(r1, p1, 4, p2, 4)
  BY <1>1, <1>2, <1>3, StrJoin, Zenon
<1>5. Str(r1, 8) /\ \A j \in 1..8 : r1[j] = IF j <= 4 THEN p1[j] ELSE p2[j - 4]
  BY <1>3, <1>4, Zenon DEF Spliced
<1>6. r1[1] = Digit(w, 3) /\ r1[2] = Digit(w, 2) /\ r1[3] = Digit(w, 1) /\ r1[4] = Digit(w, 0)
      /\ r1[5] = Digit(x, 3) /\ r1[6] = Digit(x, 2) /\ r1[7] = Digit(x, 1) /\ r1[8] = Digit(x, 0)
  BY <1>1, <1>2, <1>5
<1>7. r1 = Be(w, 4) \o Be(x, 4)
  BY <1>1, <1>2, <1>4, Zenon
<1>8. EightAre(r1, Digit(w, 3), Digit(w, 2), Digit(w, 1), Digit(w, 0), Digit(x, 3), Digit(x, 2), Digit(x, 1), Digit(x, 0))
  BY <1>5, <1>6, Zenon DEF EightAre
<1> QED BY <1>7, <1>8, Zenon

LEMMA ShortsBody ==
  ASSUME NEW w \in Int, NEW x \in Int, NEW y \in Int, NEW z \in Int
  PROVE  EightAre(Be(w, 2) \o Be(x, 2) \o Be(y, 2) \o Be(z, 2), Digit(w, 1), Digit(w, 0), Digit(x, 1), Digit(x, 0), Digit(y, 1), Digit(y, 0), Digit(z, 1), Digit(z, 0))
<1>1. PICK p1 : p1 = Be(w, 2) /\ Str(p1, 2) /\ p1[1] = Digit(w, 1) /\ p1[2] = Digit(w, 0)
  BY BeTwo, Zenon
<1>2. PICK p2 : p2 = Be(x, 2) /\ Str(p2, 2) /\ p2[1] = Digit(x, 1) /\ p2[2] = Digit(x, 0)
  BY BeTwo, Zenon
<1>3. PICK p3 : p3 = Be(y, 2) /\ Str(p3, 2) /\ p3[1] = Digit(y, 1) /\ p3[2] = Digit(y, 0)
  BY BeTwo, Zenon
<1>4. PICK p4 : p4 = Be(z, 2) /\ Str(p4, 2) /\ p4[1] = Digit(z, 1) /\ p4[2] = Digit(z, 0)
  BY BeTwo, Zenon
<1>5. 2 \in Nat /\ 4 \in Nat /\ 6 \in Nat /\ 8 \in Nat /\ 2 + 2 = 4 /\ 4 + 2 = 6 /\ 6 + 2 = 8
  OBVIOUS
<1>6. PICK r1 : r1 = p1 \o p2 /\ Spliced(r1, p1, 2, p2, 2)
  BY <1>1, <1>2, <1>5, StrJoin, Zenon
<1>7. Str(r1, 4) /\ \A j \in 1..4 : r1[j] = IF j <= 2 THEN p1[j] ELSE p2[j - 2]
  BY <1>5, <1>6, Zenon DEF Spliced
<1>8. r1[1] = Digit(w, 1) /\ r1[2] = Digit(w, 0) /\ r1[3] = Digit(x, 1) /\ r1[4] = Digit(x, 0)
  BY <1>1, <1>2, <1>7
<1>9. PICK r2 : r2 = r1 \o p3 /\ Spliced(r2, r1, 4, p3, 2)
  BY <1>7, <1>3, <1>5, StrJoin, Zenon
<1>10. Str(r2, 6) /\ \A j \in 1..6 : r2[j] = IF j <= 4 THEN r1[j] ELSE p3[j - 4]
  BY <1>5, <1>9, Zenon DEF Spliced
<1>11. r2[1] = Digit(w, 1) /\ r2[2] = Digit(w, 0) /\ r2[3] = Digit(x, 1) /\ r2[4] = Digit(x, 0)
      /\ r2[5] = Digit(y, 1) /\ r2[6] = Digit(y, 0)
  BY <1>8, <1>3, <1>10
<1>12. PICK r3 : r3 = r2 \o p4 /\ Spliced(r3, r2, 6, p4, 2)
  BY <1>10, <1>4, <1>5, StrJoin, Zenon
<1>13. Str(r3, 8) /\ \A j \in 1..8 : r3[j] = IF j <= 6 THEN r2[j] ELSE p4[j - 6]
  BY <1>5, <1>12, Zenon DEF Spliced
<1>14. r3[1] = Digit(w, 1) /\ r3[2] = Digit(w, 0) /\ r3[3] = Digit(x, 1) /\ r3[4] = Digit(x, 0)
      /\ r3[5] = Digit(y, 1) /\ r3[6] = Digit(y, 0) /\ r3[7] = Digit(z, 1) /\ r3[8] = Digit(z, 0)
  BY <1>11, <1>4, <1>13
<1>15. r3 = Be(w, 2) \o Be(x, 2) \o Be(y, 2) \o Be(z, 2)
  BY <1>1, <1>2, <1>3, <1>4, <1>6, <1>9, <1>12, Zenon
<1>16. EightAre(r3, Digit(w, 1), Digit(w, 0), Digit(x, 1), Digit(x, 0), Digit(y, 1), Digit(y, 0), Digit(z, 1), Digit(z, 0))
  BY <1>13, <1>14, Zenon DEF EightAre
<1> QED BY <1>15, <1>16, Zenon

LEMMA BatteryBody ==
  ASSUME NEW w \in Int, NEW x \in Int, NEW a \in 0..255, NEW b \in 0..255
  PROVE  EightAre(Be(w, 4) \o Be(x, 2) \o <<a, b>>, Digit(w, 3), Digit(w, 2), Digit(w, 1), Digit(w, 0), Digit(x, 1), Digit(x, 0), a, b)
<1>1. PICK p1 : p1 = Be(w, 4) /\ Str(p1, 4) /\ p1[1] = Digit(w, 3) /\ p1[2] = Digit(w, 2) /\ p1[3] = Digit(w, 1) /\ p1[4] = Digit(w, 0)
  BY BeFour, Zenon
<1>2. PICK p2 : p2 = Be(x, 2) /\ Str(p2, 2) /\ p2[1] = Digit(x, 1) /\ p2[2] = Digit(x, 0)
  BY BeTwo, Zenon
<1>3. PICK p3 : p3 = <<a, b>> /\ Str(p3, 2) /\ p3[1] = a /\ p3[2] = b
  BY StrTwo, ZenonT(60)
<1>4. 2 \in Nat /\ 4 \in Nat /\ 6 \in Nat /\ 8 \in Nat /\ 4 + 2 = 6 /\ 6 + 2 = 8
  OBVIOUS
<1>5. PICK r1 : r1 = p1 \o p2 /\ Spliced(r1, p1, 4, p2, 2)
  BY <1>1, <1>2, <1>4, StrJoin, Zenon
<1>6. Str(r1, 6) /\ \A j \in 1..6 : r1[j] = IF j <= 4 THEN p1[j] ELSE p2[j - 4]
  BY <1>4, <1>5, Zenon DEF Spliced
<1>7. r1[1] = Digit(w, 3) /\ r1[2] = Digit(w, 2) /\ r1[3] = Digit(w, 1) /\ r1[4] = Digit(w, 0)
      /\ r1[5] = Digit(x, 1) /\ r1[6] = Digit(x, 0)
  BY <1>1, <1>2, <1>6
<1>8. PICK r2 : r2 = r1 \o p3 /\ Spliced(r2, r1, 6, p3, 2)
  BY <1>6, <1>3, <1>4, StrJoin, Zenon
<1>9. Str(r2, 8) /\ \A j \in 1..8 : r2[j] = IF j <= 6 THEN r1[j] ELSE p3[j - 6]
  BY <1>4, <1>8, Zenon DEF Spliced
<1>10. r2[1] = Digit(w, 3) /\ r2[2] = Digit(w, 2) /\ r2[3] = Digit(w, 1) /\ r2[4] = Digit(w, 0)
      /\ r2[5] = Digit(x, 1) /\ r2[6] = Digit(x, 0) /\ r2[7] = a /\ r2[8] = b
  BY <1>7, <1>3, <1>9
<1>11. r2 = Be(w, 4) \o Be(x, 2) \o <<a, b>>
  BY <1>1, <1>2, <1>3, <1>5, <1>8, Zenon
<1>12. EightAre(r2, Digit(w, 3), Digit(w, 2), Digit(w, 1), Digit(w, 0), Digit(x, 1), Digit(x, 0), a, b)
  BY <1>9, <1>10, Zenon DEF EightAre
<1> QED BY <1>11, <1>12, Zenon

\* What a VESC may report.
VescReading(op, v) ==
  \/ /\ op = "status1"
     /\ \E w, x, y : Within(w, 4) /\ Within(x, 2) /\ Within(y, 2) /\ v = <<w, x, y>>
  \/ /\ op \in {"status2", "status3"}
     /\ \E w, x : Within(w, 4) /\ Within(x, 4) /\ v = <<w, x>>
  \/ /\ op = "status4"
     /\ \E w, x, y, z : /\ Within(w, 2) /\ Within(x, 2) /\ Within(y, 2) /\ Within(z, 2)
                        /\ v = <<w, x, y, z>>
  \/ /\ op = "status5"
     /\ \E w, x : Within(w, 4) /\ Within(x, 2) /\ v = <<w, x>>

\* The value of a word, from where it starts.
Short(d, a) == Signed(Part(d, a, 2))
Long(d, a) == Signed(Part(d, a, 4))

LEMMA ShortAt ==
  ASSUME NEW d, Str(d, 8), NEW a \in 1..7, NEW w, Within(w, 2), d[a] = Digit(w, 1), d[a + 1] = Digit(w, 0)
  PROVE  Short(d, a) = w
<1>1. w \in Int /\ 8 \in Nat /\ a \in 1..8 /\ a + 1 <= 8
  BY DEF Within
<1>2. Part(d, a, 2) = Be(w, 2)
  BY <1>1, WordAt
<1> QED BY <1>2, SignedBe DEF Short

LEMMA LongValueAt ==
  ASSUME NEW d, Str(d, 8), NEW a \in 1..5, NEW w, Within(w, 4), d[a] = Digit(w, 3),
         d[a + 1] = Digit(w, 2), d[a + 2] = Digit(w, 1), d[a + 3] = Digit(w, 0)
  PROVE  Long(d, a) = w
<1>1. w \in Int /\ 8 \in Nat /\ a \in 1..8 /\ a + 3 <= 8
  BY DEF Within
<1>2. Part(d, a, 4) = Be(w, 4)
  BY <1>1, LongAt
<1> QED BY <1>2, SignedBe DEF Long

\* What the driver makes of eight bytes.
CanId(m, i) == m * 256 + i

LEMMA EightDecoded ==
  ASSUME NEW f, NEW k \in Nat, NEW id \in Drives, f.id = k * 256 + id, Len(f.data) = 8, NEW i \in Drives
  PROVE  /\ i # id => VescDecode(i, f) = Refused
         /\ i = id /\ k = 9 =>
              VescDecode(i, f) = <<"status1", Long(f.data, 1), Short(f.data, 5), Short(f.data, 7)>>
         /\ i = id /\ k = 14 => VescDecode(i, f) = <<"status2", Long(f.data, 1), Long(f.data, 5)>>
         /\ i = id /\ k = 15 => VescDecode(i, f) = <<"status3", Long(f.data, 1), Long(f.data, 5)>>
         /\ i = id /\ k = 16 =>
              VescDecode(i, f) = <<"status4", Short(f.data, 1), Short(f.data, 3), Short(f.data, 5), Short(f.data, 7)>>
         /\ i = id /\ k = 27 => VescDecode(i, f) = <<"status5", Long(f.data, 1), Short(f.data, 5)>>
<1>1. /\ Statuses.status1 = 9 /\ Statuses.status2 = 14 /\ Statuses.status3 = 15
      /\ Statuses.status4 = 16 /\ Statuses.status5 = 27
  BY DEF Statuses
<1>2. ASSUME NEW m \in Nat PROVE f.id = CanId(m, i) <=> k = m /\ id = i
  <2>1. CASE f.id = m * 256 + i
    <3>1. k * 256 + id = m * 256 + i
      BY <2>1
    <3> QED BY <2>1, <3>1, IdsDiffer DEF CanId
  <2> QED BY <2>1 DEF CanId
<1>3. /\ f.id = Statuses.status1 * 256 + i <=> k = 9 /\ id = i
      /\ f.id = Statuses.status2 * 256 + i <=> k = 14 /\ id = i
      /\ f.id = Statuses.status3 * 256 + i <=> k = 15 /\ id = i
      /\ f.id = Statuses.status4 * 256 + i <=> k = 16 /\ id = i
      /\ f.id = Statuses.status5 * 256 + i <=> k = 27 /\ id = i
  <2>1. /\ f.id = CanId(9, i) <=> k = 9 /\ id = i
        /\ f.id = CanId(14, i) <=> k = 14 /\ id = i
        /\ f.id = CanId(15, i) <=> k = 15 /\ id = i
        /\ f.id = CanId(16, i) <=> k = 16 /\ id = i
        /\ f.id = CanId(27, i) <=> k = 27 /\ id = i
    BY <1>2
  <2> QED BY <1>1, <2>1 DEF CanId
<1>4. ~(Len(f.data) < 8) /\ 0 + 1 = 1 /\ 2 + 1 = 3 /\ 4 + 1 = 5 /\ 6 + 1 = 7
  OBVIOUS
<1> HIDE DEF Statuses
<1> QED BY <1>3, <1>4 DEF VescDecode, Short, Long

LEMMA VescReported ==
  ASSUME NEW id \in Drives, NEW op, NEW v, VescReading(op, v), NEW i \in Drives
  PROVE  /\ Str(VescReport(id, op, v).data, 8)
         /\ VescDecode(i, VescReport(id, op, v)) = IF i = id THEN <<op>> \o v ELSE Refused
<1>1. PICK f : f = VescReport(id, op, v)
  OBVIOUS
<1> SUFFICES /\ Str(f.data, 8)
             /\ VescDecode(i, f) = IF i = id THEN <<op>> \o v ELSE Refused
  BY <1>1
<1>2. /\ Statuses["status1"] = 9 /\ Statuses["status2"] = 14 /\ Statuses["status3"] = 15
      /\ Statuses["status4"] = 16 /\ Statuses["status5"] = 27
  BY DEF Statuses
<1>3. ASSUME NEW d, Str(d, 8) PROVE Len(d) = 8
  <2>1. 8 \in Nat
    OBVIOUS
  <2> QED BY <1>3, <2>1, StrIs
<1>4. CASE op = "status1"
  <2>1. PICK w, x, y : Within(w, 4) /\ Within(x, 2) /\ Within(y, 2) /\ v = <<w, x, y>>
    BY <1>4 DEF VescReading
  <2>2. w \in Int /\ x \in Int /\ y \in Int
    BY <2>1 DEF Within
  <2>3. PICK d : d = Be(w, 4) \o Be(x, 2) \o Be(y, 2)
    OBVIOUS
  <2>4. PICK k \in Nat : k = 9
    OBVIOUS
  <2>5. f.id = k * 256 + id /\ f.data = d
    <3>1. v[1] = w /\ v[2] = x /\ v[3] = y
      BY <2>1
    <3>2. Statuses[op] = k
      BY <1>2, <1>4, <2>4
    <3>3. f = [id |-> Statuses[op] * 256 + id, data |-> d]
      BY <1>1, <1>4, <2>3, <3>1 DEF VescReport
    <3> QED BY <3>2, <3>3
  <2>6. EightAre(d, Digit(w, 3), Digit(w, 2), Digit(w, 1), Digit(w, 0), Digit(x, 1), Digit(x, 0), Digit(y, 1), Digit(y, 0))
    BY <2>2, <2>3, ReportBody, Zenon
  <2>7. Long(d, 1) = w /\ Short(d, 5) = x /\ Short(d, 7) = y
    <3> HIDE DEF Short, Long
    <3> QED BY <2>1, <2>6, ShortAt, LongValueAt DEF EightAre
  <2>8. Len(f.data) = 8 /\ Str(f.data, 8)
    BY <1>3, <2>5, <2>6 DEF EightAre
  <2>9. VescDecode(i, f) = IF i = id THEN <<op, w, x, y>> ELSE Refused
    BY <1>4, <2>4, <2>5, <2>7, <2>8, EightDecoded
  <2>10. <<op>> \o v = <<op, w, x, y>>
    BY <1>4, <2>1, ThreeAfter, Zenon
  <2> QED BY <2>8, <2>9, <2>10
<1>5. CASE op \in {"status2", "status3"}
  <2>1. PICK w, x : Within(w, 4) /\ Within(x, 4) /\ v = <<w, x>>
    BY <1>5 DEF VescReading
  <2>2. w \in Int /\ x \in Int
    BY <2>1 DEF Within
  <2>3. PICK d : d = Be(w, 4) \o Be(x, 4)
    OBVIOUS
  <2>4. PICK k \in Nat : k = IF op = "status2" THEN 14 ELSE 15
    OBVIOUS
  <2>5. f.id = k * 256 + id /\ f.data = d
    <3>1. v[1] = w /\ v[2] = x
      BY <2>1
    <3>2. Statuses[op] = k
      BY <1>2, <1>5, <2>4
    <3>3. f = [id |-> Statuses[op] * 256 + id, data |-> d]
      BY <1>1, <1>5, <2>3, <3>1 DEF VescReport
    <3> QED BY <3>2, <3>3
  <2>6. EightAre(d, Digit(w, 3), Digit(w, 2), Digit(w, 1), Digit(w, 0), Digit(x, 3), Digit(x, 2), Digit(x, 1), Digit(x, 0))
    BY <2>2, <2>3, LongsBody, Zenon
  <2>7. Long(d, 1) = w /\ Long(d, 5) = x
    <3> HIDE DEF Short, Long
    <3> QED BY <2>1, <2>6, ShortAt, LongValueAt DEF EightAre
  <2>8. Len(f.data) = 8 /\ Str(f.data, 8)
    BY <1>3, <2>5, <2>6 DEF EightAre
  <2>9. VescDecode(i, f) = IF i = id THEN <<op, w, x>> ELSE Refused
    <3>1. CASE op = "status2"
      BY <2>4, <2>5, <2>7, <2>8, <3>1, EightDecoded
    <3>2. CASE op = "status3"
      BY <2>4, <2>5, <2>7, <2>8, <3>2, EightDecoded
    <3> QED BY <1>5, <3>1, <3>2
  <2>10. <<op>> \o v = <<op, w, x>>
    BY <1>5, <2>1, TwoAfter, Zenon
  <2> QED BY <2>8, <2>9, <2>10
<1>6. CASE op = "status4"
  <2>1. PICK w, x, y, z : /\ Within(w, 2) /\ Within(x, 2) /\ Within(y, 2) /\ Within(z, 2)
                             /\ v = <<w, x, y, z>>
    BY <1>6 DEF VescReading
  <2>2. w \in Int /\ x \in Int /\ y \in Int /\ z \in Int
    BY <2>1 DEF Within
  <2>3. PICK d : d = Be(w, 2) \o Be(x, 2) \o Be(y, 2) \o Be(z, 2)
    OBVIOUS
  <2>4. PICK k \in Nat : k = 16
    OBVIOUS
  <2>5. f.id = k * 256 + id /\ f.data = d
    <3>1. v[1] = w /\ v[2] = x /\ v[3] = y /\ v[4] = z
      BY <2>1
    <3>2. Statuses[op] = k
      BY <1>2, <1>6, <2>4
    <3>3. f = [id |-> Statuses[op] * 256 + id, data |-> d]
      BY <1>1, <1>6, <2>3, <3>1 DEF VescReport
    <3> QED BY <3>2, <3>3
  <2>6. EightAre(d, Digit(w, 1), Digit(w, 0), Digit(x, 1), Digit(x, 0), Digit(y, 1), Digit(y, 0), Digit(z, 1), Digit(z, 0))
    BY <2>2, <2>3, ShortsBody, Zenon
  <2>7. Short(d, 1) = w /\ Short(d, 3) = x /\ Short(d, 5) = y /\ Short(d, 7) = z
    <3> HIDE DEF Short, Long
    <3> QED BY <2>1, <2>6, ShortAt, LongValueAt DEF EightAre
  <2>8. Len(f.data) = 8 /\ Str(f.data, 8)
    BY <1>3, <2>5, <2>6 DEF EightAre
  <2>9. VescDecode(i, f) = IF i = id THEN <<op, w, x, y, z>> ELSE Refused
    BY <1>6, <2>4, <2>5, <2>7, <2>8, EightDecoded
  <2>10. <<op>> \o v = <<op, w, x, y, z>>
    BY <1>6, <2>1, FourAfter, Zenon
  <2> QED BY <2>8, <2>9, <2>10
<1>7. CASE op = "status5"
  <2>1. PICK w, x : Within(w, 4) /\ Within(x, 2) /\ v = <<w, x>>
    BY <1>7 DEF VescReading
  <2>2. w \in Int /\ x \in Int
    BY <2>1 DEF Within
  <2>3. PICK d : d = Be(w, 4) \o Be(x, 2) \o <<0, 0>>
    OBVIOUS
  <2>4. PICK k \in Nat : k = 27
    OBVIOUS
  <2>5. f.id = k * 256 + id /\ f.data = d
    <3>1. v[1] = w /\ v[2] = x
      BY <2>1
    <3>2. Statuses[op] = k
      BY <1>2, <1>7, <2>4
    <3>3. f = [id |-> Statuses[op] * 256 + id, data |-> d]
      BY <1>1, <1>7, <2>3, <3>1 DEF VescReport
    <3> QED BY <3>2, <3>3
  <2>6. EightAre(d, Digit(w, 3), Digit(w, 2), Digit(w, 1), Digit(w, 0), Digit(x, 1), Digit(x, 0), 0, 0)
    <3>1. PICK a \in 0..255, b \in 0..255 : a = 0 /\ b = 0
      OBVIOUS
    <3>2. EightAre(Be(w, 4) \o Be(x, 2) \o <<a, b>>, Digit(w, 3), Digit(w, 2), Digit(w, 1), Digit(w, 0),
                   Digit(x, 1), Digit(x, 0), a, b)
      BY <2>2, BatteryBody, Zenon
    <3> QED BY <2>3, <3>1, <3>2, Zenon
  <2>7. Long(d, 1) = w /\ Short(d, 5) = x
    <3> HIDE DEF Short, Long
    <3> QED BY <2>1, <2>6, ShortAt, LongValueAt DEF EightAre
  <2>8. Len(f.data) = 8 /\ Str(f.data, 8)
    BY <1>3, <2>5, <2>6 DEF EightAre
  <2>9. VescDecode(i, f) = IF i = id THEN <<op, w, x>> ELSE Refused
    BY <1>7, <2>4, <2>5, <2>7, <2>8, EightDecoded
  <2>10. <<op>> \o v = <<op, w, x>>
    BY <1>7, <2>1, TwoAfter, Zenon
  <2> QED BY <2>8, <2>9, <2>10
<1> QED BY <1>4, <1>5, <1>6, <1>7 DEF VescReading

\* Seven bytes are no report.
LEMMA TooShort ==
  ASSUME NEW f, Len(f.data) = 7, NEW i
  PROVE  VescDecode(i, f) = Refused
<1>1. 7 < 8
  OBVIOUS
<1>2. Len(f.data) < 8
  BY <1>1, Zenon
<1> QED BY <1>2 DEF VescDecode

LEMMA VescShort ==
  ASSUME NEW f, Str(f.data, 8), NEW d, d.data = Part(f.data, 1, 7), NEW i
  PROVE  VescDecode(i, d) = Refused
<1>1. 8 \in Nat /\ 7 \in Nat /\ 1 \in 1..8 /\ 7 \in 1..8 /\ 1 + 7 - 1 <= 8
  OBVIOUS
<1>2. CutOut(Part(f.data, 1, 7), f.data, 1, 7)
  BY <1>1, PartIs, Zenon
<1>3. Str(Part(f.data, 1, 7), 7)
  BY <1>2, Zenon DEF CutOut
<1>4. Len(d.data) = 7
  <2>1. PICK t : t = Part(f.data, 1, 7) /\ Str(t, 7)
    BY <1>3
  <2>2. Len(t) = 7
    BY <1>1, <2>1, StrIs, ZenonT(60)
  <2> QED BY <2>1, <2>2
<1> QED BY <1>4, TooShort, Zenon

-----------------------------------------------------------------------------
(* A message on its way.                                                     *)

\* A command, a reply as it was shipped, and what is left when it was damaged.
IsCommand(s, w) ==
  /\ s.command = TRUE /\ s.id \in Drives /\ s.v \in Amounts
  /\ \/ s.make = "ddsm" /\ s.op \in DdsmOps /\ w = Serial(DdsmFrame(s.id, s.op, s.v))
     \/ s.make = "scs" /\ s.op \in ScsOps /\ w = Serial(ScsCommand(s.id, s.op, s.v))
     \/ s.make = "vesc" /\ s.op \in VescOps /\ w = VescFrame(s.id, s.op, s.v)
ServoReply(op, v) == (op = "ack" /\ v = <<>>) \/ (op = "data" /\ ScsReading(v))
IsReply(s, w) ==
  /\ s.command = FALSE /\ s.id \in Drives
  /\ \/ s.make = "ddsm" /\ DdsmReading(s.op, s.v) /\ w = Serial(DdsmAnswer(s.id, s.op, s.v))
     \/ s.make = "scs" /\ ServoReply(s.op, s.v) /\ w = Serial(ScsAnswer(s.id, s.op, s.v))
     \/ s.make = "vesc" /\ VescReading(s.op, s.v) /\ w = VescReport(s.id, s.op, s.v)
IsBroken(s, w) ==
  /\ s.command \in BOOLEAN
  /\ \/ /\ s.make = "ddsm" /\ (s.command = TRUE \/ s.op \notin {"ack", "data"})
        /\ \A i : DdsmReads(i, w.data) = Refused /\ DdsmDecode(i, w.data) = Refused
     \/ /\ s.make = "scs" /\ (s.command = TRUE \/ s.op \in {"ack", "data"})
        /\ \A i : ScsReads(i, w.data) = Refused /\ ~ScsAck(i, w.data) /\ ScsFeedback(w.data) = Refused
     \/ /\ s.make = "vesc" /\ s.command = FALSE /\ s.op \notin {"ack", "data"}
        /\ \A i : VescDecode(i, w) = Refused

FramesInv ==
  \E s, w : /\ s = shipped /\ w = onwire
            /\ \/ bad = FALSE /\ (IsCommand(s, w) \/ IsReply(s, w))
               \/ bad = TRUE /\ IsBroken(s, w)

LEMMA CommandsShip ==
  ASSUME NEW m \in FrameCommands
  PROVE  IsCommand(Shipment(m, TRUE), EncodedCommand(m))
<1>1. CASE m \in [make : {"ddsm"}, op : DdsmOps, id : Drives, v : Amounts]
  <2>1. m.make = "ddsm" /\ m.op \in DdsmOps /\ m.id \in Drives /\ m.v \in Amounts
    BY <1>1
  <2>2. EncodedCommand(m) = Serial(DdsmFrame(m.id, m.op, m.v))
    BY <2>1 DEF EncodedCommand
  <2>3. PICK s : s = Shipment(m, TRUE)
    OBVIOUS
  <2>4. s = [make |-> m.make, op |-> m.op, id |-> m.id, v |-> m.v, command |-> TRUE]
    BY <2>3 DEF Shipment
  <2>5. s.make = m.make /\ s.op = m.op /\ s.id = m.id /\ s.v = m.v /\ s.command = TRUE
    BY <2>4
  <2> QED BY <2>1, <2>2, <2>3, <2>5, Zenon DEF IsCommand
<1>2. CASE m \in [make : {"scs"}, op : ScsOps, id : Drives, v : Amounts]
  <2>1. m.make = "scs" /\ m.op \in ScsOps /\ m.id \in Drives /\ m.v \in Amounts
    BY <1>2
  <2>2. EncodedCommand(m) = Serial(ScsCommand(m.id, m.op, m.v))
    BY <2>1 DEF EncodedCommand
  <2>3. PICK s : s = Shipment(m, TRUE)
    OBVIOUS
  <2>4. s = [make |-> m.make, op |-> m.op, id |-> m.id, v |-> m.v, command |-> TRUE]
    BY <2>3 DEF Shipment
  <2>5. s.make = m.make /\ s.op = m.op /\ s.id = m.id /\ s.v = m.v /\ s.command = TRUE
    BY <2>4
  <2> QED BY <2>1, <2>2, <2>3, <2>5, Zenon DEF IsCommand
<1>3. CASE m \in [make : {"vesc"}, op : VescOps, id : Drives, v : Amounts]
  <2>1. m.make = "vesc" /\ m.op \in VescOps /\ m.id \in Drives /\ m.v \in Amounts
    BY <1>3
  <2>2. EncodedCommand(m) = VescFrame(m.id, m.op, m.v)
    BY <2>1 DEF EncodedCommand
  <2>3. PICK s : s = Shipment(m, TRUE)
    OBVIOUS
  <2>4. s = [make |-> m.make, op |-> m.op, id |-> m.id, v |-> m.v, command |-> TRUE]
    BY <2>3 DEF Shipment
  <2>5. s.make = m.make /\ s.op = m.op /\ s.id = m.id /\ s.v = m.v /\ s.command = TRUE
    BY <2>4
  <2> QED BY <2>1, <2>2, <2>3, <2>5, Zenon DEF IsCommand
<1> QED BY <1>1, <1>2, <1>3 DEF FrameCommands

\* The readings of the model are ones that the devices may report.
ReplyOf(mk, op, v) ==
  \/ mk = "ddsm" /\ DdsmReading(op, v)
  \/ mk = "scs" /\ ServoReply(op, v)
  \/ mk = "vesc" /\ VescReading(op, v)

LEMMA Extremes ==
  /\ \A w \in I16 : Within(w, 2)
  /\ \A w \in I32 : Within(w, 4)
  /\ \A w \in {-128, 127} : Within(w, 1)
  /\ \A w \in Small : w \in 0..255
  /\ \A w \in {0, 40000} : w \in Nat /\ w < 256 * 256
<1>1. ASSUME NEW w \in I32 PROVE Within(w, 4)
  <2>1. PICK hi \in Int : hi = 2147483647 /\ hi = 128 * 256 * 256 * 256 - 1
    OBVIOUS
  <2>2. w \in Int /\ -hi <= w /\ w <= hi
    BY <2>1 DEF I32
  <2>3. -(128 * 256 * 256 * 256) <= w /\ w < 128 * 256 * 256 * 256
    BY <2>1, <2>2
  <2> QED BY <2>2, <2>3 DEF Within
<1>2. ASSUME NEW w \in I16 PROVE Within(w, 2)
  BY DEF I16, Within
<1>3. ASSUME NEW w \in {-128, 127} PROVE Within(w, 1)
  BY DEF Within
<1> QED BY <1>1, <1>2, <1>3 DEF Small

LEMMA ReadingOf ==
  ASSUME NEW p, NEW q, NEW u, NEW d, NEW e, NEW g, NEW h, NEW c,
         Fits(p, 15), Fits(q, 15), Fits(u, 10), Fits(h, 15),
         d \in 0..255, e \in 0..255, g \in 0..255, c \in 0..255
  PROVE  ScsReading(<<p, q, u, d, e, g, h, c>>)
  BY Zenon DEF ScsReading

LEMMA RepliesAre ==
  ASSUME NEW m \in Replies
  PROVE  m.id \in Drives /\ ReplyOf(m.make, m.op, m.v)
<1>1. CASE m \in [make : {"ddsm"}, op : {"speed"}, id : Drives, v : I16 \X I16 \X Small \X {-128, 127}]
  <2>1. m.make = "ddsm" /\ m.op = "speed" /\ m.id \in Drives /\ m.v \in I16 \X I16 \X Small \X {-128, 127}
    BY <1>1
  <2>2. PICK w \in I16, x \in I16, c \in Small, y \in {-128, 127} : m.v = <<w, x, c, y>>
    BY <2>1
  <2>3. DdsmReading(m.op, m.v)
    BY <2>1, <2>2, Extremes DEF DdsmReading
  <2> QED BY <2>1, <2>3 DEF ReplyOf
<1>2. CASE m \in [make : {"ddsm"}, op : {"odom"}, id : Drives, v : I32 \X {0, 40000} \X Small]
  <2>1. m.make = "ddsm" /\ m.op = "odom" /\ m.id \in Drives /\ m.v \in I32 \X {0, 40000} \X Small
    BY <1>2
  <2>2. PICK w \in I32, x \in {0, 40000}, c \in Small : m.v = <<w, x, c>>
    BY <2>1
  <2>3. DdsmReading(m.op, m.v)
    BY <2>1, <2>2, Extremes DEF DdsmReading
  <2> QED BY <2>1, <2>3 DEF ReplyOf
<1>3. CASE m \in [make : {"ddsm"}, op : {"mode", "switched"}, id : Drives, v : {<<b>> : b \in Small}]
  <2>1. m.make = "ddsm" /\ m.op \in {"mode", "switched"} /\ m.id \in Drives
    BY <1>3
  <2>2. PICK c \in Small : m.v = <<c>>
    BY <1>3
  <2>3. DdsmReading(m.op, m.v)
    BY <2>1, <2>2, Extremes DEF DdsmReading
  <2> QED BY <2>1, <2>3 DEF ReplyOf
<1>4. CASE m \in [make : {"scs"}, op : {"ack"}, id : Drives, v : {<<>>}]
  BY <1>4 DEF ReplyOf, ServoReply
<1>5. CASE m \in [make : {"scs"}, op : {"data"}, id : Drives,
                  v : {-4095, 4095} \X {-2400, 0, 300} \X {-1000, 1000} \X Small \X Small \X {0, 1}
                      \X {-500, 500} \X {0, 32}]
  <2>1. /\ m.make = "scs" /\ m.op = "data" /\ m.id \in Drives
        /\ m.v \in {-4095, 4095} \X {-2400, 0, 300} \X {-1000, 1000} \X Small \X Small \X {0, 1}
                   \X {-500, 500} \X {0, 32}
    BY <1>5
  <2>2. PICK p \in {-4095, 4095}, q \in {-2400, 0, 300}, u \in {-1000, 1000}, d \in Small, e \in Small,
             g \in {0, 1}, h \in {-500, 500}, c \in {0, 32} : m.v = <<p, q, u, d, e, g, h, c>>
    BY <2>1
  <2>3. Fits(p, 15) /\ Fits(q, 15) /\ Fits(u, 10) /\ Fits(h, 15)
    <3>1. 2^10 = 1024 /\ 2^15 = 32768
      OBVIOUS
    <3> QED BY <3>1 DEF Fits
  <2>4. d \in 0..255 /\ e \in 0..255 /\ g \in 0..255 /\ c \in 0..255
    BY Extremes
  <2>5. ScsReading(m.v)
    BY <2>2, <2>3, <2>4, ReadingOf
  <2> QED BY <2>1, <2>5 DEF ReplyOf, ServoReply
<1>6. CASE m \in [make : {"vesc"}, op : {"status1"}, id : Drives, v : I32 \X I16 \X I16]
  <2>1. m.make = "vesc" /\ m.op = "status1" /\ m.id \in Drives /\ m.v \in I32 \X I16 \X I16
    BY <1>6
  <2>2. PICK w \in I32, x \in I16, y \in I16 : m.v = <<w, x, y>>
    BY <2>1
  <2>3. VescReading(m.op, m.v)
    BY <2>1, <2>2, Extremes DEF VescReading
  <2> QED BY <2>1, <2>3 DEF ReplyOf
<1>7. CASE m \in [make : {"vesc"}, op : {"status2", "status3"}, id : Drives, v : I32 \X I32]
  <2>1. m.make = "vesc" /\ m.op \in {"status2", "status3"} /\ m.id \in Drives /\ m.v \in I32 \X I32
    BY <1>7
  <2>2. PICK w \in I32, x \in I32 : m.v = <<w, x>>
    BY <2>1
  <2>3. VescReading(m.op, m.v)
    BY <2>1, <2>2, Extremes DEF VescReading
  <2> QED BY <2>1, <2>3 DEF ReplyOf
<1>8. CASE m \in [make : {"vesc"}, op : {"status4"}, id : Drives, v : I16 \X I16 \X {0} \X I16]
  <2>1. m.make = "vesc" /\ m.op = "status4" /\ m.id \in Drives /\ m.v \in I16 \X I16 \X {0} \X I16
    BY <1>8
  <2>2. PICK w \in I16, x \in I16, y \in {0}, z \in I16 : m.v = <<w, x, y, z>>
    BY <2>1
  <2>3. Within(y, 2)
    BY DEF Within
  <2>4. VescReading(m.op, m.v)
    BY <2>1, <2>2, <2>3, Extremes DEF VescReading
  <2> QED BY <2>1, <2>4 DEF ReplyOf
<1>9. CASE m \in [make : {"vesc"}, op : {"status5"}, id : Drives, v : I32 \X I16]
  <2>1. m.make = "vesc" /\ m.op = "status5" /\ m.id \in Drives /\ m.v \in I32 \X I16
    BY <1>9
  <2>2. PICK w \in I32, x \in I16 : m.v = <<w, x>>
    BY <2>1
  <2>3. VescReading(m.op, m.v)
    BY <2>1, <2>2, Extremes DEF VescReading
  <2> QED BY <2>1, <2>3 DEF ReplyOf
<1> QED BY <1>1, <1>2, <1>3, <1>4, <1>5, <1>6, <1>7, <1>8, <1>9 DEF Replies

LEMMA RepliesShip ==
  ASSUME NEW m \in Replies
  PROVE  IsReply(Shipment(m, FALSE), EncodedReply(m))
<1>1. m.id \in Drives /\ ReplyOf(m.make, m.op, m.v)
  BY RepliesAre
<1>2. PICK s : /\ s = Shipment(m, FALSE) /\ s.make = m.make /\ s.op = m.op /\ s.id = m.id
               /\ s.v = m.v /\ s.command = FALSE
  <2>1. PICK s : s = Shipment(m, FALSE)
    OBVIOUS
  <2>2. s = [make |-> m.make, op |-> m.op, id |-> m.id, v |-> m.v, command |-> FALSE]
    BY <2>1 DEF Shipment
  <2>3. s.make = m.make /\ s.op = m.op /\ s.id = m.id /\ s.v = m.v /\ s.command = FALSE
    BY <2>2
  <2> QED BY <2>1, <2>3
<1>3. CASE m.make = "ddsm"
  <2>1. EncodedReply(m) = Serial(DdsmAnswer(m.id, m.op, m.v))
    BY <1>3 DEF EncodedReply
  <2>2. DdsmReading(m.op, m.v)
    BY <1>1, <1>3 DEF ReplyOf
  <2> QED BY <1>1, <1>2, <1>3, <2>1, <2>2, Zenon DEF IsReply
<1>4. CASE m.make = "scs"
  <2>1. EncodedReply(m) = Serial(ScsAnswer(m.id, m.op, m.v))
    BY <1>4 DEF EncodedReply
  <2>2. ServoReply(m.op, m.v)
    BY <1>1, <1>4 DEF ReplyOf
  <2> QED BY <1>1, <1>2, <1>4, <2>1, <2>2, Zenon DEF IsReply
<1>5. CASE m.make = "vesc"
  <2>1. EncodedReply(m) = VescReport(m.id, m.op, m.v)
    BY <1>5 DEF EncodedReply
  <2>2. VescReading(m.op, m.v)
    BY <1>1, <1>5 DEF ReplyOf
  <2> QED BY <1>1, <1>2, <1>5, <2>1, <2>2, Zenon DEF IsReply
<1> QED BY <1>1, <1>3, <1>4, <1>5 DEF ReplyOf

\* Every command of a servo, the one to all of them included.
LEMMA ScsRequested ==
  ASSUME NEW id \in Drives, NEW op \in ScsOps, NEW v \in Int, NEW i \in Drives
  PROVE  /\ Summable(ScsCommand(id, op, v))
         /\ ScsReads(i, ScsCommand(id, op, v)) =
              IF i = id \/ op = "sync" THEN ScsAsked(op, v) ELSE Refused
<1>1. CASE op # "sync"
  <2>1. op \in ScsOps \ {"sync"}
    BY <1>1
  <2>2. PICK f : f = ScsCommand(id, op, v)
    OBVIOUS
  <2>3. Summable(f) /\ ScsReads(i, f) = IF i = id THEN ScsAsked(op, v) ELSE Refused
    BY <2>1, <2>2, ScsCommanded
  <2> QED BY <1>1, <2>2, <2>3, Zenon
<1>2. CASE op = "sync"
  <2>1. PICK n \in 1..31 : \E ids \in [1..n -> Drives] :
          /\ ids = SetToSeq(Drives) /\ Len(ids) = n
          /\ \A j \in Drives : \E k \in 1..n : ids[k] = j
    BY DrivesListed, Zenon
  <2>2. PICK ids \in [1..n -> Drives] :
          /\ ids = SetToSeq(Drives) /\ Len(ids) = n
          /\ \A j \in Drives : \E k \in 1..n : ids[k] = j
    BY <2>1
  <2>3. n \in Nat /\ Few(n)
    BY DEF Few
  <2>4. PICK f : f = ScsCommand(id, op, v) /\ f = ScsSync(ids, v)
    BY <1>2, <2>2 DEF ScsCommand
  <2>5. \E k \in 1..n : ids[k] = i
    BY <2>2
  <2>6. Summable(f) /\ ScsReads(i, f) = <<"goal", Clamp(v, 0, MaxStep), MaxSpeed>>
    BY <2>2, <2>3, <2>4, <2>5, SyncIs, SMTT(40)
  <2>7. ScsAsked(op, v) = <<"goal", Clamp(v, 0, MaxStep), MaxSpeed>>
    BY <1>2 DEF ScsAsked
  <2> QED BY <1>2, <2>4, <2>6, <2>7, Zenon
<1> QED BY <1>1, <1>2

\* What may happen to a frame.
Hurt(s, w, d) ==
  IF s.make = "vesc" THEN s.command = FALSE /\ d = [w EXCEPT !.data = Part(@, 1, 7)]
  ELSE \E i \in DOMAIN w.data : \E b \in Damaged(w.data[i], Damage) : d = [w EXCEPT !.data[i] = b]

\* One byte of a string.
LEMMA HurtByte ==
  ASSUME NEW n \in Nat, NEW f, Str(f, n), NEW s, s.make # "vesc", NEW d, Hurt(s, Serial(f), d)
  PROVE  ByteOff(d.data, f, n)
<1>1. PICK w : w = [id |-> 0, data |-> f] /\ w = Serial(f) /\ w.data = f
  BY DEF Serial
<1>2. PICK k \in DOMAIN f : \E b \in Damaged(f[k], Damage) : d = [w EXCEPT !.data[k] = b]
  BY <1>1 DEF Hurt
<1>3. PICK b \in Damaged(f[k], Damage) : d = [w EXCEPT !.data[k] = b]
  BY <1>2
<1>4. k \in 1..n /\ f[k] \in 0..255
  BY StrIs
<1>5. Damage \subseteq (SUBSET Byte) \ {{}}
  BY MotorFramesAssumption, ZenonT(60)
<1>6. PICK x \in 0..255 : x = f[k]
  BY <1>4
<1>7. b \in 0..255 /\ b # x
  BY <1>5, <1>6, DamagedIs
<1>8. d.data = [f EXCEPT ![k] = b]
  BY <1>1, <1>3
<1> QED BY <1>4, <1>6, <1>7, <1>8 DEF ByteOff

LEMMA SealHurt ==
  ASSUME NEW f, NEW body, Sealing(f, body), NEW s, s.make = "ddsm", s.command \in BOOLEAN,
         s.command = TRUE \/ s.op \notin {"ack", "data"}, NEW d, Hurt(s, Serial(f), d)
  PROVE  IsBroken(s, d)
<1>1. 10 \in Nat /\ Str(f, 10) /\ s.make # "vesc"
  BY DEF Sealing
<1>2. ByteOff(d.data, f, 10)
  BY <1>1, HurtByte, Zenon
<1>3. \A i : DdsmReads(i, d.data) = Refused /\ DdsmDecode(i, d.data) = Refused
  BY <1>2, DdsmDamaged
<1> QED BY <1>3, Zenon DEF IsBroken

LEMMA SumHurt ==
  ASSUME NEW f, Summable(f), NEW s, s.make = "scs", s.command \in BOOLEAN,
         s.command = TRUE \/ s.op \in {"ack", "data"}, NEW d, Hurt(s, Serial(f), d)
  PROVE  IsBroken(s, d)
<1>1. PICK n \in Nat \ {0} : \E body : Summed(f, body, n)
  BY DEF Summable
<1>2. PICK body : Summed(f, body, n)
  BY <1>1
<1>3. PICK m \in Nat : m = n + 3 /\ Len(f) = m /\ Str(f, m)
  <2>1. Len(f) = n + 3
    BY <1>2, SummedIntact, Zenon
  <2>2. n + 3 \in Nat
    OBVIOUS
  <2>3. Str(f, n + 3)
    BY <1>2, Zenon DEF Summed
  <2> QED BY <2>1, <2>2, <2>3
<1>4. s.make # "vesc"
  OBVIOUS
<1>5. ByteOff(d.data, f, m)
  BY <1>3, <1>4, HurtByte, Zenon
<1>6. ByteOff(d.data, f, Len(f))
  BY <1>3, <1>5, Zenon
<1>7. \A i : ScsReads(i, d.data) = Refused /\ ~ScsAck(i, d.data) /\ ScsFeedback(d.data) = Refused
  BY <1>6, ScsDamaged
<1> QED BY <1>7, Zenon DEF IsBroken

LEMMA HurtBreaks ==
  ASSUME NEW s, NEW w, IsCommand(s, w) \/ IsReply(s, w), NEW d, Hurt(s, w, d)
  PROVE  IsBroken(s, d)
<1>1. CASE IsCommand(s, w)
  <2>1. /\ s.command = TRUE /\ s.command \in BOOLEAN /\ s.id \in Drives /\ s.v \in Amounts /\ s.v \in Int
    BY <1>1, AmountIs DEF IsCommand
  <2>2. CASE s.make = "ddsm" /\ s.op \in DdsmOps /\ w = Serial(DdsmFrame(s.id, s.op, s.v))
    <3>1. PICK f : f = DdsmFrame(s.id, s.op, s.v) /\ w = Serial(f)
      BY <2>2
    <3>2. PICK body : Sealing(f, body)
      BY <2>1, <2>2, <3>1, DdsmCommanded
    <3> QED BY <2>1, <2>2, <3>1, <3>2, SealHurt, Zenon
  <2>3. CASE s.make = "scs" /\ s.op \in ScsOps /\ w = Serial(ScsCommand(s.id, s.op, s.v))
    <3>1. PICK f : f = ScsCommand(s.id, s.op, s.v) /\ w = Serial(f)
      BY <2>3
    <3>2. Summable(f)
      BY <2>1, <2>3, <3>1, ScsRequested
    <3> QED BY <2>1, <2>3, <3>1, <3>2, SumHurt, Zenon
  <2>4. s.make # "vesc"
    BY <2>1 DEF Hurt
  <2> QED BY <1>1, <2>2, <2>3, <2>4 DEF IsCommand
<1>2. CASE IsReply(s, w)
  <2>1. s.command = FALSE /\ s.command \in BOOLEAN /\ s.id \in Drives
    BY <1>2 DEF IsReply
  <2>2. CASE s.make = "ddsm" /\ DdsmReading(s.op, s.v) /\ w = Serial(DdsmAnswer(s.id, s.op, s.v))
    <3>1. PICK f : f = DdsmAnswer(s.id, s.op, s.v) /\ w = Serial(f)
      BY <2>2
    <3>2. PICK body : Sealing(f, body)
      BY <2>1, <2>2, <3>1, DdsmAnswered
    <3>3. s.op \notin {"ack", "data"}
      BY <2>2 DEF DdsmReading
    <3> QED BY <2>1, <2>2, <3>1, <3>2, <3>3, SealHurt, Zenon
  <2>3. CASE s.make = "scs" /\ ServoReply(s.op, s.v) /\ w = Serial(ScsAnswer(s.id, s.op, s.v))
    <3>1. PICK f : f = ScsAnswer(s.id, s.op, s.v) /\ w = Serial(f)
      BY <2>3
    <3>2. s.op \in {"ack", "data"} /\ Summable(f)
      <4>1. CASE s.op = "ack"
        BY <2>1, <3>1, <4>1, ScsAcknowledged
      <4>2. CASE s.op = "data" /\ ScsReading(s.v)
        BY <2>1, <3>1, <4>2, ScsMeasured
      <4> QED BY <2>3, <4>1, <4>2 DEF ServoReply
    <3> QED BY <2>1, <2>3, <3>1, <3>2, SumHurt, Zenon
  <2>4. CASE s.make = "vesc" /\ VescReading(s.op, s.v) /\ w = VescReport(s.id, s.op, s.v)
    <3>1. Str(w.data, 8)
      BY <2>1, <2>4, VescReported
    <3>2. d.data = Part(w.data, 1, 7)
      <4>1. d = [w EXCEPT !.data = Part(@, 1, 7)]
        BY <2>4 DEF Hurt
      <4>2. PICK x, y : w = [id |-> x, data |-> y]
        BY <2>4 DEF VescReport
      <4> QED BY <4>1, <4>2
    <3>3. \A i : VescDecode(i, d) = Refused
      BY <3>1, <3>2, VescShort
    <3>4. s.op \notin {"ack", "data"}
      BY <2>4 DEF VescReading
    <3> QED BY <2>1, <2>4, <3>3, <3>4, Zenon DEF IsBroken
  <2> QED BY <1>2, <2>2, <2>3, <2>4 DEF IsReply
<1> QED BY <1>1, <1>2

\* What a motor, and a driver, makes of what comes.
ToMotor(s, w, i) ==
  CASE s.make = "ddsm" -> DdsmReads(i, w.data)
    [] s.make = "scs"  -> ScsReads(i, w.data)
    [] s.make = "vesc" -> VescReads(i, w)
ToDriver(s, w, i) ==
  CASE s.make = "ddsm" -> DdsmDecode(i, w.data)
    [] s.make = "vesc" -> VescDecode(i, w)
    [] s.op = "ack"    -> IF ScsAck(i, w.data) THEN <<"ack">> ELSE Refused
    [] s.op = "data"   -> ScsFeedback(w.data)

LEMMA CommandIsRead ==
  ASSUME NEW s, NEW w, IsCommand(s, w), NEW i \in Drives
  PROVE  ToMotor(s, w, i) = IF i = s.id \/ ForAll(s) THEN Asked(s) ELSE Refused
<1>1. s.id \in Drives /\ s.v \in Amounts /\ s.v \in Int
  BY AmountIs DEF IsCommand
<1>2. CASE s.make = "ddsm" /\ s.op \in DdsmOps /\ w = Serial(DdsmFrame(s.id, s.op, s.v))
  <2>1. PICK f : f = DdsmFrame(s.id, s.op, s.v) /\ w = Serial(f)
    BY <1>2
  <2>2. w.data = f
    BY <2>1 DEF Serial
  <2>3. DdsmReads(i, f) = IF i = s.id \/ s.op = "id" THEN DdsmAsked(s.op, s.v) ELSE Refused
    BY <1>1, <1>2, <2>1, DdsmCommanded
  <2>4. ForAll(s) <=> s.op = "id"
    BY <1>2 DEF ForAll
  <2>5. Asked(s) = DdsmAsked(s.op, s.v)
    BY <1>2 DEF Asked, DdsmAsked
  <2>6. ToMotor(s, w, i) = DdsmReads(i, w.data)
    BY <1>2 DEF ToMotor
  <2> QED BY <2>2, <2>3, <2>4, <2>5, <2>6, Zenon
<1>3. CASE s.make = "scs" /\ s.op \in ScsOps /\ w = Serial(ScsCommand(s.id, s.op, s.v))
  <2>1. PICK f : f = ScsCommand(s.id, s.op, s.v) /\ w = Serial(f)
    BY <1>3
  <2>2. w.data = f
    BY <2>1 DEF Serial
  <2>3. ScsReads(i, f) = IF i = s.id \/ s.op = "sync" THEN ScsAsked(s.op, s.v) ELSE Refused
    BY <1>1, <1>3, <2>1, ScsRequested
  <2>4. ForAll(s) <=> s.op = "sync"
    BY <1>3 DEF ForAll
  <2>5. Asked(s) = ScsAsked(s.op, s.v)
    BY <1>3 DEF Asked, ScsAsked, ScsOps
  <2>6. ToMotor(s, w, i) = ScsReads(i, w.data)
    BY <1>3 DEF ToMotor
  <2> QED BY <2>2, <2>3, <2>4, <2>5, <2>6, Zenon
<1>4. CASE s.make = "vesc" /\ s.op \in VescOps /\ w = VescFrame(s.id, s.op, s.v)
  <2>1. VescReads(i, w) = IF i = s.id THEN VescAsked(s.op, s.v) ELSE Refused
    BY <1>1, <1>4, VescCommanded
  <2>2. ~ForAll(s)
    BY <1>4 DEF ForAll
  <2>3. Asked(s) = VescAsked(s.op, s.v)
    BY <1>4 DEF Asked, VescAsked
  <2>4. ToMotor(s, w, i) = VescReads(i, w)
    BY <1>4 DEF ToMotor
  <2> QED BY <2>1, <2>2, <2>3, <2>4, Zenon
<1> QED BY <1>2, <1>3, <1>4 DEF IsCommand

LEMMA ReplyIsRead ==
  ASSUME NEW s, NEW w, IsReply(s, w), NEW i \in Drives, i = s.id \/ s.op # "data"
  PROVE  ToDriver(s, w, i) = IF i = s.id THEN Reported(s) ELSE Refused
<1>1. s.id \in Drives
  BY DEF IsReply
<1>2. CASE s.make = "ddsm" /\ DdsmReading(s.op, s.v) /\ w = Serial(DdsmAnswer(s.id, s.op, s.v))
  <2>1. PICK f : f = DdsmAnswer(s.id, s.op, s.v) /\ w = Serial(f)
    BY <1>2
  <2>2. w.data = f
    BY <2>1 DEF Serial
  <2>3. DdsmDecode(i, f) = IF i = s.id THEN <<s.op>> \o s.v ELSE Refused
    BY <1>1, <1>2, <2>1, DdsmAnswered, ZenonT(60)
  <2>4. s.op \notin {"ack", "data"}
    BY <1>2 DEF DdsmReading
  <2>5. Reported(s) = <<s.op>> \o s.v
    BY <2>4 DEF Reported
  <2>6. ToDriver(s, w, i) = DdsmDecode(i, w.data)
    BY <1>2, <2>4 DEF ToDriver
  <2> QED BY <2>2, <2>3, <2>5, <2>6, Zenon
<1>3. CASE s.make = "scs" /\ ServoReply(s.op, s.v) /\ w = Serial(ScsAnswer(s.id, s.op, s.v))
  <2>1. PICK f : f = ScsAnswer(s.id, s.op, s.v) /\ w = Serial(f)
    BY <1>3
  <2>2. w.data = f
    BY <2>1 DEF Serial
  <2>3. CASE s.op = "ack" /\ s.v = <<>>
    <3>1. ScsAck(i, f) <=> i = s.id
      BY <1>1, <2>1, <2>3, ScsAcknowledged
    <3>2. Reported(s) = <<"ack">>
      BY <2>3 DEF Reported
    <3>3. ToDriver(s, w, i) = IF ScsAck(i, w.data) THEN <<"ack">> ELSE Refused
      BY <1>3, <2>3 DEF ToDriver
    <3> QED BY <2>2, <3>1, <3>2, <3>3, Zenon
  <2>4. CASE s.op = "data" /\ ScsReading(s.v)
    <3>1. ScsFeedback(f) = s.v
      BY <1>1, <2>1, <2>4, ScsMeasured
    <3>2. Reported(s) = s.v
      BY <2>4 DEF Reported
    <3>3. ToDriver(s, w, i) = ScsFeedback(w.data)
      BY <1>3, <2>4 DEF ToDriver
    <3>4. i = s.id
      BY <2>4
    <3> QED BY <2>2, <3>1, <3>2, <3>3, <3>4, Zenon
  <2> QED BY <1>3, <2>3, <2>4 DEF ServoReply
<1>4. CASE s.make = "vesc" /\ VescReading(s.op, s.v) /\ w = VescReport(s.id, s.op, s.v)
  <2>1. VescDecode(i, w) = IF i = s.id THEN <<s.op>> \o s.v ELSE Refused
    BY <1>1, <1>4, VescReported
  <2>2. s.op \notin {"ack", "data"}
    BY <1>4 DEF VescReading
  <2>3. Reported(s) = <<s.op>> \o s.v
    BY <2>2 DEF Reported
  <2>4. ToDriver(s, w, i) = VescDecode(i, w)
    BY <1>4, <2>2 DEF ToDriver
  <2> QED BY <2>1, <2>3, <2>4, Zenon
<1> QED BY <1>2, <1>3, <1>4 DEF IsReply

\* What is broken is refused.
LEMMA BrokenIsRefused ==
  ASSUME NEW s, NEW w, IsBroken(s, w), NEW i
  PROVE  /\ s.command = TRUE => ToMotor(s, w, i) = Refused
         /\ s.command = FALSE => ToDriver(s, w, i) = Refused
<1>1. CASE /\ s.make = "ddsm" /\ (s.command = TRUE \/ s.op \notin {"ack", "data"})
           /\ \A j : DdsmReads(j, w.data) = Refused /\ DdsmDecode(j, w.data) = Refused
  <2>1. ToMotor(s, w, i) = DdsmReads(i, w.data)
    BY <1>1 DEF ToMotor
  <2>2. s.op \notin {"ack", "data"} => ToDriver(s, w, i) = DdsmDecode(i, w.data)
    BY <1>1 DEF ToDriver
  <2> QED BY <1>1, <2>1, <2>2
<1>2. CASE /\ s.make = "scs" /\ (s.command = TRUE \/ s.op \in {"ack", "data"})
           /\ \A j : ScsReads(j, w.data) = Refused /\ ~ScsAck(j, w.data) /\ ScsFeedback(w.data) = Refused
  <2>1. ToMotor(s, w, i) = ScsReads(i, w.data)
    BY <1>2 DEF ToMotor
  <2>2. s.op = "ack" => ToDriver(s, w, i) = IF ScsAck(i, w.data) THEN <<"ack">> ELSE Refused
    BY <1>2 DEF ToDriver
  <2>3. s.op = "data" => ToDriver(s, w, i) = ScsFeedback(w.data)
    BY <1>2 DEF ToDriver
  <2> QED BY <1>2, <2>1, <2>2, <2>3
<1>3. CASE /\ s.make = "vesc" /\ s.command = FALSE /\ s.op \notin {"ack", "data"}
           /\ \A j : VescDecode(j, w) = Refused
  <2>1. ToDriver(s, w, i) = VescDecode(i, w)
    BY <1>3 DEF ToDriver
  <2> QED BY <1>3, <2>1
<1> QED BY <1>1, <1>2, <1>3 DEF IsBroken

\* A frame that may be on the wire means what it was made for.
LEMMA FramesMeaning == FramesInv => FramesMeanTheCommand
<1> SUFFICES ASSUME FramesInv, NEW i \in Drives
             PROVE  IF shipped.command
                    THEN ReadByMotor(i) = IF ~bad /\ (i = shipped.id \/ ForAll(shipped)) THEN Asked(shipped) ELSE Refused
                    ELSE i = shipped.id \/ shipped.op # "data" =>
                           ReadByDriver(i) = IF ~bad /\ i = shipped.id THEN Reported(shipped) ELSE Refused
  BY DEF FramesMeanTheCommand
<1>1. PICK s, w : /\ s = shipped /\ w = onwire
                  /\ \/ bad = FALSE /\ (IsCommand(s, w) \/ IsReply(s, w))
                     \/ bad = TRUE /\ IsBroken(s, w)
  BY DEF FramesInv
<1>2. ReadByMotor(i) = ToMotor(s, w, i) /\ ReadByDriver(i) = ToDriver(s, w, i)
  BY <1>1, Zenon DEF ReadByMotor, ReadByDriver, ToMotor, ToDriver
<1>3. CASE bad = FALSE /\ IsCommand(s, w)
  <2>1. s.command = TRUE
    BY <1>3 DEF IsCommand
  <2>2. ToMotor(s, w, i) = IF i = s.id \/ ForAll(s) THEN Asked(s) ELSE Refused
    BY <1>3, CommandIsRead
  <2> QED BY <1>1, <1>2, <1>3, <2>1, <2>2
<1>4. CASE bad = FALSE /\ IsReply(s, w)
  <2>1. s.command = FALSE
    BY <1>4 DEF IsReply
  <2>2. i = s.id \/ s.op # "data" => ToDriver(s, w, i) = IF i = s.id THEN Reported(s) ELSE Refused
    BY <1>4, ReplyIsRead
  <2> QED BY <1>1, <1>2, <1>4, <2>1, <2>2
<1>5. CASE bad = TRUE /\ IsBroken(s, w)
  <2>1. s.command \in BOOLEAN
    BY <1>5 DEF IsBroken
  <2>2. /\ s.command = TRUE => ToMotor(s, w, i) = Refused
        /\ s.command = FALSE => ToDriver(s, w, i) = Refused
    BY <1>5, BrokenIsRefused
  <2> QED BY <1>1, <1>2, <1>5, <2>1, <2>2
<1> QED BY <1>1, <1>3, <1>4, <1>5

LEMMA FramesStart == FramesInit => FramesInv
<1> SUFFICES ASSUME FramesInit
             PROVE  FramesInv
  OBVIOUS
<1>1. bad = FALSE
  BY DEF FramesInit
<1>2. CASE \E m \in FrameCommands : shipped = Shipment(m, TRUE) /\ onwire = EncodedCommand(m)
  <2>1. PICK m \in FrameCommands : shipped = Shipment(m, TRUE) /\ onwire = EncodedCommand(m)
    BY <1>2
  <2>2. PICK s, w : s = Shipment(m, TRUE) /\ w = EncodedCommand(m)
    OBVIOUS
  <2>3. IsCommand(s, w)
    BY <2>2, CommandsShip
  <2> QED BY <1>1, <2>1, <2>2, <2>3, Zenon DEF FramesInv
<1>3. CASE \E m \in Replies : shipped = Shipment(m, FALSE) /\ onwire = EncodedReply(m)
  <2>1. PICK m \in Replies : shipped = Shipment(m, FALSE) /\ onwire = EncodedReply(m)
    BY <1>3
  <2>2. PICK s, w : s = Shipment(m, FALSE) /\ w = EncodedReply(m)
    OBVIOUS
  <2>3. IsReply(s, w)
    BY <2>2, RepliesShip
  <2> QED BY <1>1, <2>1, <2>2, <2>3, Zenon DEF FramesInv
<1> QED BY <1>2, <1>3 DEF FramesInit

LEMMA FramesStep ==
  ASSUME FramesInv, [FramesNext]_framesVars
  PROVE  FramesInv'
<1>1. CASE UNCHANGED framesVars
  BY <1>1 DEF FramesInv, framesVars
<1>2. CASE DamageOnTheWay
  <2>1. ~bad /\ bad' = TRUE /\ shipped' = shipped
    BY <1>2 DEF DamageOnTheWay
  <2>2. PICK s, w : s = shipped /\ w = onwire /\ (IsCommand(s, w) \/ IsReply(s, w))
    BY <2>1 DEF FramesInv
  <2>3. PICK d : d = onwire'
    OBVIOUS
  <2>4. s.command \in BOOLEAN
    BY <2>2 DEF IsCommand, IsReply
  <2>5. Hurt(s, w, d)
    BY <1>2, <2>2, <2>3, <2>4 DEF DamageOnTheWay, Hurt
  <2>6. IsBroken(s, d)
    BY <2>2, <2>5, HurtBreaks
  <2> QED BY <2>1, <2>2, <2>3, <2>6 DEF FramesInv
<1> QED BY <1>1, <1>2 DEF FramesNext

\* A frame of a motor driver means what it was made for: a whole command is read by
\* the motor it is for, and by no other, as the value that was asked for or the
\* nearest the motor may be given; a whole reading is stored as the device meant it;
\* and a frame of which any byte was damaged, in any bits, is refused (the frames of
\* ddsm_210_frame.cpp, SCS.cpp, SMS_STS.cpp, vesc_cmd_packet.cpp and
\* vesc_status_packet.cpp): for all amounts of 32 bits, all ids, every set of drives
\* that a synchronised write has room for.
THEOREM FramesMeanWhatWasAsked == MCSpec => []MotorFramesMean
<1> DEFINE Inv == which = "frames" => FramesInv
<1>1. MCInit => Inv
  BY FramesStart DEF MCInit
<1>2. Inv /\ [MCNext]_MotorsVars => Inv'
  <2> SUFFICES ASSUME Inv, [MCNext]_MotorsVars, which' = "frames"
               PROVE  FramesInv'
    OBVIOUS
  <2>1. which' = which
    BY DEF MCNext, MotorsVars
  <2>2. FramesInv
    BY <2>1
  <2>3. [FramesNext]_framesVars
    BY <2>1 DEF MCNext, MotorsVars
  <2> QED BY <2>2, <2>3, FramesStep
<1>3. Inv => MotorFramesMean
  BY FramesMeaning DEF MotorFramesMean
<1> QED BY <1>1, <1>2, <1>3, PTL DEF MCSpec, MotorsVars
=============================================================================
