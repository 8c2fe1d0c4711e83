---------------------------- MODULE MotorFrames ----------------------------
(***************************************************************************)
(* What the motor drivers put on the wire, and what they make of what      *)
(* comes back: the frames of the DDSM210 (ddsm_210_frame.cpp), of the      *)
(* SMS/STS servos (servo/SCS.cpp, SMS_STS.cpp) and of the VESC             *)
(* (vesc_cmd_packet.cpp, vesc_status_packet.cpp, HandleCanFrame).          *)
(* A message is encoded, a byte of it may be damaged, and it is read.      *)
(* Values are in units of the wire: the rounding to them is left out.      *)
(***************************************************************************)
EXTENDS Bytes

CONSTANTS
  Amounts,     \* values of a command or a reading
  Drives,      \* ids of the motors on a bus
  Damage       \* sets of bits damaged in a byte

\* Amounts are numbers of 32 bits, ids leave out the ones that speak to all, and
\* a synchronised write counts its bytes, eight of each servo, in one byte.
ASSUME MotorFramesAssumption ==
  /\ Amounts \subseteq ((-128) * (256 * 256 * 256))..(127 * (256 * 256 * 256) + (256 * 256 * 256 - 1))
  /\ Drives \subseteq 1..169 /\ Cardinality(Drives) <= 31
  /\ Damage \subseteq (SUBSET Byte) \ {{}}

VARIABLES
  shipped,    \* what was shipped: the make, command or reply, the id and the values
  onwire,     \* the frame: its CAN id, 0 on a serial line, and its bytes
  bad         \* history: it was damaged on its way

framesVars == <<shipped, onwire, bad>>

Refused == <<"refused">>
Clamp(v, low, high) == IF v < low THEN low ELSE IF v > high THEN high ELSE v
Zeros(n) == [i \in 1..n |-> 0]
Part(bytes, first, n) == SubSeq(bytes, first, first + n - 1)

-----------------------------------------------------------------------------
(* DDSM210: ten bytes, the last one a CRC of the others.                     *)

Sealed(body) == Append(body, Crc8Maxim(body))

\* Speeds in tenths of a revolution per minute, positions in 32767ths of a turn.
DdsmFrame(id, op, v) ==
  Sealed(CASE op = "speed"    -> <<id, 100>> \o Be(Clamp(v, -2100, 2100), 2) \o Zeros(5)
           [] op = "position" -> <<id, 100>> \o Be(Clamp(v, 0, 32767), 2) \o Zeros(5)
           [] op = "brake"    -> <<id, 100>> \o Zeros(5) \o <<255, 0>>
           [] op = "release"  -> <<id, 100>> \o Zeros(7)
           [] op = "mode"     -> <<id, 160, v % 256>> \o Zeros(6)
           [] op = "odom"     -> <<id, 116>> \o Zeros(7)
           [] op = "ask"      -> <<id, 117>> \o Zeros(7)
           [] op = "id"       -> <<170, 85, 83, v % 256>> \o Zeros(4) \o <<v % 256>>)

\* The checksum, and the id of this motor.
DdsmAccepts(id, b) == b[10] = Crc8Maxim(Part(b, 1, 9)) /\ b[1] = id

\* The constructor of Ddsm210Frame from a buffer, and its getters.
DdsmDecode(id, b) ==
  IF ~DdsmAccepts(id, b) THEN Refused
  ELSE CASE b[2] = 100 -> <<"speed", Signed(Part(b, 3, 2)), Signed(Part(b, 5, 2)), b[7], Signed(Part(b, 8, 1))>>
         [] b[2] = 116 -> <<"odom", Signed(Part(b, 3, 4)), Unsigned(Part(b, 7, 2)), b[9]>>
         [] b[2] = 117 -> <<"mode", b[3]>>
         [] b[2] = 160 -> <<"switched", b[3]>>
         [] OTHER      -> Refused

\* External: what a DDSM210 makes of a frame, and what it answers.
DdsmReads(id, b) ==
  IF b[10] # Crc8Maxim(Part(b, 1, 9)) \/ b[1] \notin {id, 170} THEN Refused
  ELSE CASE b[2] = 100 -> IF b[8] = 255 THEN <<"brake">> ELSE <<"drive", Signed(Part(b, 3, 2))>>
         [] b[2] = 160 -> <<"mode", b[3]>>
         [] b[2] = 116 -> <<"odom">>
         [] b[2] = 117 -> <<"ask">>
         [] b[2] = 85 /\ b[3] = 83 -> <<"id", b[4]>>
DdsmAnswer(id, op, v) ==
  Sealed(CASE op = "speed" -> <<id, 100>> \o Be(v[1], 2) \o Be(v[2], 2) \o <<v[3]>> \o Be(v[4], 1) \o <<0>>
           [] op = "odom"  -> <<id, 116>> \o Be(v[1], 4) \o Be(v[2], 2) \o <<v[3]>>
           [] op = "mode"  -> <<id, 117, v[1]>> \o Zeros(6)
           [] op = "switched" -> <<id, 160, v[1]>> \o Zeros(6))

-----------------------------------------------------------------------------
(* SMS/STS: two bytes FF, id, length, function, data, an inverted sum.       *)

CheckSum(body) == 255 - (FoldLeft(+, 0, body) % 256)
ScsFrame(body) == <<255, 255>> \o Append(body, CheckSum(body))

\* Mistake: a negative value is shipped in two's complement.
TwosComplement(v) == v % 65536

\* A sign bit and a magnitude.
SignMagnitude(v) == IF v < 0 THEN 32768 - v ELSE v
Magnitude(word, bit) == IF (word \div 2^bit) % 2 = 1 THEN -(word - 2^bit) ELSE word

\* writeBuf.
WriteBuf(id, fun, addr, data) == ScsFrame(<<id, Len(data) + 3, fun, addr>> \o data)

MaxStep == 4095
MaxSpeed == 2400
Goal(v) == <<50>> \o Le(SignMagnitude(Clamp(v, 0, MaxStep)), 2) \o <<0, 0>> \o Le(MaxSpeed, 2)

\* snycWrite: the goals of all the servos in one frame.
ScsSync(ids, v) ==
  LET slot(k) == <<ids[k]>> \o Goal(v)
      slots == [j \in 1..(8 * Len(ids)) |-> slot(((j - 1) \div 8) + 1)[((j - 1) % 8) + 1]]
  IN  ScsFrame(<<254, (8 * Len(ids) + 4) % 256, 131, 41, 7>> \o slots)

\* WritePosEx, WriteSpe, WheelMode, EnableTorque, unLockEprom, CalibrationOfs
\* and the write of an id; FeedBack asks for 15 bytes from the position on.
ScsCommand(id, op, v) ==
  CASE op = "position" -> WriteBuf(id, 3, 41, Goal(v))
    [] op = "speed" -> WriteBuf(id, 3, 46, Le(SignMagnitude(Clamp(v, -MaxSpeed, MaxSpeed)), 2))
    [] op = "mode"  -> WriteBuf(id, 3, 33, <<1>>)
    [] op = "torque" -> WriteBuf(id, 3, 40, <<IF v = 0 THEN 0 ELSE 1>>)
    [] op = "lock"  -> WriteBuf(id, 3, 55, <<IF v = 0 THEN 0 ELSE 1>>)
    [] op = "neutral" -> WriteBuf(id, 3, 40, <<128>>)
    [] op = "id"    -> WriteBuf(id, 3, 5, <<v % 256>>)
    [] op = "ask"   -> WriteBuf(id, 2, 56, <<15>>)
    [] op = "sync"  -> ScsSync(SetToSeq(Drives), v)

\* Ack and Read, for what they got from readSCS.
ScsIntact(b) == b[1] = 255 /\ b[2] = 255 /\ b[Len(b)] = CheckSum(Part(b, 3, Len(b) - 3))
ScsAck(id, b) == Len(b) = 6 /\ ScsIntact(b) /\ b[3] = id /\ b[4] = 2
ScsRead(b, n) == Len(b) = n + 6 /\ ScsIntact(b)

\* FeedBack and the getters: position, speed, load, voltage, temperature,
\* moving and current; and the status byte.
ScsFeedback(b) ==
  LET mem(i) == b[6 + i]
      word(i, bit) == Magnitude(mem(i) + 256 * mem(i + 1), bit)
  IN  IF ~ScsRead(b, 15) THEN Refused
      ELSE <<word(0, 15), word(2, 15), word(4, 10), mem(6), mem(7), mem(10), word(13, 15), b[5]>>

\* External: the registers a servo takes from a frame, and what it answers.
ScsReads(id, b) ==
  LET n == Len(b)
      word(d, i) == d[i] + 256 * d[i + 1]
      regs(first, d) == CASE first = 41 -> <<"goal", Magnitude(word(d, 2), 15), word(d, 6)>>
                          [] first = 46 -> <<"speed", Magnitude(word(d, 1), 15)>>
                          [] OTHER      -> <<"set", first, d[1]>>
  IN  IF ~ScsIntact(b) THEN Refused
      ELSE IF b[3] = 254 /\ b[5] = 131 /\ b[4] = n - 4
      THEN LET at == {i \in 0..((n - 9) \div (b[7] + 1)) : b[8 + i * (b[7] + 1)] = id}
           IN  IF at = {} THEN Refused
               ELSE regs(b[6], Part(b, 9 + (CHOOSE i \in at : TRUE) * (b[7] + 1), b[7]))
      ELSE IF b[3] # id \/ b[4] # n - 4 THEN Refused
      ELSE IF b[5] = 3 THEN regs(b[6], Part(b, 7, n - 7)) ELSE <<"ask", b[6], b[7]>>
ScsAnswer(id, op, v) ==
  IF op = "ack" THEN ScsFrame(<<id, 2, 0>>)
  ELSE LET w(x, bit) == Le(IF x < 0 THEN 2^bit - x ELSE x, 2)
       IN  ScsFrame(<<id, 17, v[8]>> \o w(v[1], 15) \o w(v[2], 15) \o w(v[3], 10) \o <<v[4], v[5]>>
                    \o Zeros(2) \o <<v[6]>> \o Zeros(2) \o w(v[7], 15))

-----------------------------------------------------------------------------
(* VESC: extended ids, the command in the second byte and the drive's id in  *)
(* the first.                                                                *)

VescCommands == <<"duty", "current", "brake", "rpm", "position">>

\* VescSet...CmdPacket: each value clamped to its own range.
VescFrame(id, op, v) ==
  LET n == CHOOSE n \in DOMAIN VescCommands \cup {9} : IF n = 9 THEN op = "servo" ELSE VescCommands[n] = op
  IN  [id |-> (n - 1) * 256 + id,
       data |-> CASE op = "servo" -> <<id, 0, 12>> \o Be(Clamp(v, 0, 1000), 2)
                  [] op \in {"duty", "position"} -> Be(Clamp(v, 0, 100000), 4)
                  [] op = "current" -> Be(Clamp(v, -20000, 20000), 4)
                  [] op = "brake" -> Be(Clamp(v, 0, 20000), 4)
                  [] op = "rpm"   -> Be(v, 4)]

Statuses == [status1 |-> 9, status2 |-> 14, status3 |-> 15, status4 |-> 16, status5 |-> 27]

\* HandleCanFrame and the status packets.
VescDecode(id, f) ==
  LET d == f.data
      i16(i) == Signed(Part(d, i + 1, 2))
      i32(i) == Signed(Part(d, i + 1, 4))
  IN  IF Len(d) < 8 THEN Refused
      ELSE CASE f.id = Statuses.status1 * 256 + id -> <<"status1", i32(0), i16(4), i16(6)>>
             [] f.id = Statuses.status2 * 256 + id -> <<"status2", i32(0), i32(4)>>
             [] f.id = Statuses.status3 * 256 + id -> <<"status3", i32(0), i32(4)>>
             [] f.id = Statuses.status4 * 256 + id -> <<"status4", i16(0), i16(2), i16(4), i16(6)>>
             [] f.id = Statuses.status5 * 256 + id -> <<"status5", i32(0), i16(4)>>
             [] OTHER -> Refused

\* External: what a VESC makes of a frame, and what it reports.
VescReads(id, f) ==
  LET n == f.id \div 256
  IN  IF f.id % 256 # id THEN Refused
      ELSE IF n < 5 THEN <<VescCommands[n + 1], Signed(f.data)>>
      ELSE IF n = 8 /\ f.data[3] = 12 THEN <<"servo", Signed(Part(f.data, 4, 2))>>
      ELSE Refused
VescReport(id, op, v) ==
  [id |-> Statuses[op] * 256 + id,
   data |-> CASE op = "status1" -> Be(v[1], 4) \o Be(v[2], 2) \o Be(v[3], 2)
              [] op \in {"status2", "status3"} -> Be(v[1], 4) \o Be(v[2], 4)
              [] op = "status4" -> Be(v[1], 2) \o Be(v[2], 2) \o Be(v[3], 2) \o Be(v[4], 2)
              [] op = "status5" -> Be(v[1], 4) \o Be(v[2], 2) \o <<0, 0>>]

-----------------------------------------------------------------------------
(* A message on its way.                                                     *)

DdsmOps == {"speed", "position", "brake", "release", "mode", "odom", "ask", "id"}
ScsOps == {"position", "speed", "mode", "torque", "lock", "neutral", "id", "ask", "sync"}
VescOps == Range(VescCommands) \cup {"servo"}
FrameCommands ==
  [make : {"ddsm"}, op : DdsmOps, id : Drives, v : Amounts]
  \cup [make : {"scs"}, op : ScsOps, id : Drives, v : Amounts]
  \cup [make : {"vesc"}, op : VescOps, id : Drives, v : Amounts]

\* Readings: the extremes of a word, and a few bytes.
I16 == {-32768, -2, 300, 32767}
I32 == {-2147483647, -2, 70000, 2147483647}
Small == {0, 200}
Replies ==
  [make : {"ddsm"}, op : {"speed"}, id : Drives, v : I16 \X I16 \X Small \X {-128, 127}]
  \cup [make : {"ddsm"}, op : {"odom"}, id : Drives, v : I32 \X {0, 40000} \X Small]
  \cup [make : {"ddsm"}, op : {"mode", "switched"}, id : Drives, v : {<<b>> : b \in Small}]
  \cup [make : {"scs"}, op : {"ack"}, id : Drives, v : {<<>>}]
  \cup [make : {"scs"}, op : {"data"}, id : Drives,
        v : {-4095, 4095} \X {-2400, 0, 300} \X {-1000, 1000} \X Small \X Small \X {0, 1}
            \X {-500, 500} \X {0, 32}]
  \cup [make : {"vesc"}, op : {"status1"}, id : Drives, v : I32 \X I16 \X I16]
  \cup [make : {"vesc"}, op : {"status2", "status3"}, id : Drives, v : I32 \X I32]
  \cup [make : {"vesc"}, op : {"status4"}, id : Drives, v : I16 \X I16 \X {0} \X I16]
  \cup [make : {"vesc"}, op : {"status5"}, id : Drives, v : I32 \X I16]

Serial(bytes) == [id |-> 0, data |-> bytes]
EncodedCommand(m) ==
  CASE m.make = "ddsm" -> Serial(DdsmFrame(m.id, m.op, m.v))
    [] m.make = "scs"  -> Serial(ScsCommand(m.id, m.op, m.v))
    [] m.make = "vesc" -> VescFrame(m.id, m.op, m.v)
EncodedReply(m) ==
  CASE m.make = "ddsm" -> Serial(DdsmAnswer(m.id, m.op, m.v))
    [] m.make = "scs"  -> Serial(ScsAnswer(m.id, m.op, m.v))
    [] m.make = "vesc" -> VescReport(m.id, m.op, m.v)

Shipment(m, command) == [make |-> m.make, op |-> m.op, id |-> m.id, v |-> m.v, command |-> command]

FramesInit ==
  /\ \/ \E m \in FrameCommands : shipped = Shipment(m, TRUE) /\ onwire = EncodedCommand(m)
     \/ \E m \in Replies : shipped = Shipment(m, FALSE) /\ onwire = EncodedReply(m)
  /\ bad = FALSE

\* A serial line damages a byte; a CAN frame arrives as it is or not at all,
\* but one of another make may have the id of a report and fewer bytes.
DamageOnTheWay ==
  /\ ~bad
  /\ bad' = TRUE
  /\ IF shipped.make = "vesc"
     THEN ~shipped.command /\ onwire' = [onwire EXCEPT !.data = Part(@, 1, 7)]
     ELSE \E i \in DOMAIN onwire.data : \E b \in Damaged(onwire.data[i], Damage) :
            onwire' = [onwire EXCEPT !.data[i] = b]
  /\ UNCHANGED shipped

FramesNext == DamageOnTheWay
FramesSpec == FramesInit /\ [][FramesNext]_framesVars

-----------------------------------------------------------------------------
(* Properties.                                                               *)

\* What a command asks of the motor: the value itself, or the end of the range
\* that is nearest.
Asked(m) ==
  LET v == m.v IN
  CASE m.make = "ddsm" ->
         (CASE m.op = "speed"    -> <<"drive", Clamp(v, -2100, 2100)>>
            [] m.op = "position" -> <<"drive", Clamp(v, 0, 32767)>>
            [] m.op = "release"  -> <<"drive", 0>>
            [] m.op \in {"mode", "id"} -> <<m.op, v % 256>>
            [] OTHER             -> <<m.op>>)
    [] m.make = "scs" ->
         (CASE m.op \in {"position", "sync"} -> <<"goal", Clamp(v, 0, MaxStep), MaxSpeed>>
            [] m.op = "speed"   -> <<"speed", Clamp(v, -MaxSpeed, MaxSpeed)>>
            [] m.op = "mode"    -> <<"set", 33, 1>>
            [] m.op = "torque"  -> <<"set", 40, IF v = 0 THEN 0 ELSE 1>>
            [] m.op = "lock"    -> <<"set", 55, IF v = 0 THEN 0 ELSE 1>>
            [] m.op = "neutral" -> <<"set", 40, 128>>
            [] m.op = "id"      -> <<"set", 5, v % 256>>
            [] m.op = "ask"     -> <<"ask", 56, 15>>)
    [] m.make = "vesc" ->
         (CASE m.op = "servo"   -> <<m.op, Clamp(v, 0, 1000)>>
            [] m.op = "current" -> <<m.op, Clamp(v, -20000, 20000)>>
            [] m.op = "brake"   -> <<m.op, Clamp(v, 0, 20000)>>
            [] m.op = "rpm"     -> <<m.op, v>>
            [] OTHER            -> <<m.op, Clamp(v, 0, 100000)>>)

ForAll(m) == (m.make = "ddsm" /\ m.op = "id") \/ (m.make = "scs" /\ m.op = "sync")
ReadByMotor(i) ==
  CASE shipped.make = "ddsm" -> DdsmReads(i, onwire.data)
    [] shipped.make = "scs"  -> ScsReads(i, onwire.data)
    [] shipped.make = "vesc" -> VescReads(i, onwire)
ReadByDriver(i) ==
  CASE shipped.make = "ddsm" -> DdsmDecode(i, onwire.data)
    [] shipped.make = "vesc" -> VescDecode(i, onwire)
    [] shipped.op = "ack"    -> IF ScsAck(i, onwire.data) THEN <<"ack">> ELSE Refused
    [] shipped.op = "data"   -> ScsFeedback(onwire.data)
Reported(m) ==
  IF m.op = "data" THEN m.v ELSE <<m.op>> \o m.v

\* A command that arrives whole is read by the motor it is for, and by no other,
\* as the value the caller asked for or the nearest the motor may be given,
\* never as another command or the opposite direction; a reading that arrives
\* whole is stored as the device meant it by the driver of that device; a frame
\* that was damaged is neither.  (A reading of an SMS/STS servo is stored for the
\* servo asked, whatever servo shipped it: its id is not compared.)
FramesMeanTheCommand ==
  \A i \in Drives :
    IF shipped.command
    THEN ReadByMotor(i) = IF ~bad /\ (i = shipped.id \/ ForAll(shipped)) THEN Asked(shipped) ELSE Refused
    ELSE i = shipped.id \/ shipped.op # "data" =>
           ReadByDriver(i) = IF ~bad /\ i = shipped.id THEN Reported(shipped) ELSE Refused
=============================================================================
