----------------------------- MODULE BaseCodec -----------------------------
(***************************************************************************)
(* The frames of the mobile base: core_codec.hpp and the swerve profile    *)
(* over codec_util.hpp, the CRC of e2e.hpp, and what the client makes of a *)
(* frame (MobileBaseCanClient::OnFrame).  A sender encodes a message, the  *)
(* bus may damage one byte of the frame, and it is decoded.                *)
(***************************************************************************)
EXTENDS Bytes

CONSTANTS
  Numbers,    \* scaled values of a field, rounded as nearbyint does
  Bytes,      \* values of a field that is one byte, an enumeration among them
  Counts,     \* values of the alive counter
  Flips       \* what a damaged byte may suffer: sets of bits

\* A field is <<n>>, or not a number, or infinite: what dividing by 0 makes.
NaN == <<>>
PlusInf == <<1, 0>>
MinusInf == <<-1, 0>>

ASSUME BaseCodecAssumption ==
  /\ Numbers \subseteq Int /\ Bytes \subseteq 0..255 /\ Counts \subseteq 0..255
  /\ Flips \subseteq (SUBSET Byte) \ {{}}

VARIABLES
  message,    \* what was sent
  frame,      \* what is on the bus
  spoilt      \* history: a byte of it was damaged

codecVars == <<message, frame, spoilt>>

-----------------------------------------------------------------------------
(* The CRC, and what it covers.                                              *)

\* Mistake: the counter is left out of what the CRC covers.
CrcWithoutCounter(f) == Crc8Autosar(<<f.id % 256, f.id \div 256>> \o SubSeq(f.data, 1, 6))

\* The id, and the payload with the counter.
ComputeCrc(f) == Crc8Autosar(<<f.id % 256, f.id \div 256>> \o SubSeq(f.data, 1, 7))

-----------------------------------------------------------------------------
(* Fields: data[at] is f.data[at + 1] here, low byte first.                  *)

Under(v, n) == v = MinusInf \/ (v # PlusInf /\ v[1] < n)
Over(v, n)  == v = PlusInf \/ (v # MinusInf /\ v[1] > n)

\* Only isnan is tested: an infinite value is full scale.
SatI16(v) == IF v = NaN THEN 0
             ELSE IF Under(v, -32768) THEN -32768 ELSE IF Over(v, 32767) THEN 32767 ELSE v[1]
SatU16(v) == IF v = NaN THEN 0
             ELSE IF Under(v, 0) THEN 0 ELSE IF Over(v, 65535) THEN 65535 ELSE v[1]

Raw(kind, v) == CASE kind = "i16" -> SatI16(v) % 65536
                  [] kind = "sat" -> SatU16(v)
                  [] OTHER        -> v[1]
Size(kind) == CASE kind = "u8" -> 1 [] kind = "u32" -> 4 [] OTHER -> 2

\* PutI16, PutU16, PutU32, and a byte stored as it is.
Put(data, kind, at, v) ==
  [i \in DOMAIN data |-> IF i - 1 - at \in 0..(Size(kind) - 1)
                         THEN (Raw(kind, v) \div 256^(i - 1 - at)) % 256 ELSE data[i]]
Word(data, at, n) == Unsigned(Reverse(SubSeq(data, at + 1, at + n)))
Get(data, kind, at) ==
  LET w == Word(data, at, Size(kind))
  IN  IF kind = "i16" /\ w > 32767 THEN w - 65536 ELSE w

\* The payload as Encode() packs it.
Speeds == <<<<"i16", 0>>, <<"i16", 2>>, <<"i16", 4>>>>
Packed ==
  [twist |-> Speeds, mode |-> <<<<"u8", 0>>>>, estop |-> <<<<"u8", 0>>, <<"u16", 1>>>>,
   heartbeat |-> <<<<"u8", 0>>>>,
   status |-> <<<<"u8", 0>>, <<"u8", 1>>, <<"u8", 2>>, <<"u16", 3>>>>,
   odom_twist |-> Speeds, odom_pose |-> Speeds, limits |-> Speeds,
   capabilities |-> [i \in 1..6 |-> <<"u8", i - 1>>],
   battery |-> <<<<"sat", 0>>, <<"i16", 2>>, <<"u8", 4>>>>,
   faults |-> <<<<"u32", 0>>, <<"u8", 4>>>>,
   module |-> <<<<"i16", 0>>, <<"i16", 2>>, <<"u8", 4>>>>]
Types == DOMAIN Packed
States == {"status", "odom_twist", "odom_pose", "capabilities", "limits", "battery", "faults"}

\* The id map of core.hpp; the swerve modules have four ids.
IdOf(t) == CASE t = "twist" -> 256 [] t = "mode" -> 257 [] t = "estop" -> 258
             [] t = "heartbeat" -> 259 [] t = "status" -> 512 [] t = "odom_twist" -> 513
             [] t = "odom_pose" -> 514 [] t = "capabilities" -> 515 [] t = "limits" -> 516
             [] t = "battery" -> 517 [] t = "faults" -> 518 [] t = "module" -> 544
IsModelId(id) == id \in 288..383 \/ id \in 544..639

\* MakeFrame, the payload, StampE2e.
Encode(m) ==
  LET zero == [id |-> IdOf(m.type) + (m.index % 4), data |-> [i \in 1..8 |-> 0]]
      pack(f, i) == [f EXCEPT !.data = Put(@, Packed[m.type][i][1], Packed[m.type][i][2], m.fields[i])]
      full == [FoldLeft(pack, zero, [i \in 1..Len(m.fields) |-> i]) EXCEPT !.data[7] = m.counter]
  IN  [full EXCEPT !.data[8] = ComputeCrc(full)]

-----------------------------------------------------------------------------
(* Decoding.                                                                 *)

\* The payload as the Decode functions unpack it.
Velocities == <<<<"i16", 0>>, <<"i16", 2>>, <<"i16", 4>>>>
Unpacked ==
  [twist |-> Velocities, mode |-> <<<<"u8", 0>>>>, estop |-> <<<<"u8", 0>>, <<"u16", 1>>>>,
   heartbeat |-> <<<<"u8", 0>>>>,
   status |-> <<<<"u8", 0>>, <<"u8", 1>>, <<"u8", 2>>, <<"u16", 3>>>>,
   odom_twist |-> Velocities, odom_pose |-> Velocities, limits |-> Velocities,
   capabilities |-> [i \in 1..6 |-> <<"u8", i - 1>>],
   battery |-> <<<<"u16", 0>>, <<"i16", 2>>, <<"u8", 4>>>>,
   faults |-> <<<<"u32", 0>>, <<"u8", 4>>>>,
   module |-> <<<<"i16", 0>>, <<"i16", 2>>, <<"u8", 4>>>>]

Key == 49642     \* kEStopClearKey, 0xC1EA

\* What Decode refuses although the CRC is right.
Admits(t, v) ==
  CASE t = "mode"   -> v[1] <= 1
    [] t = "estop"  -> v[1] = 1 \/ (v[1] = 2 /\ v[2] = Key)
    [] t = "status" -> v[2] <= 3
    [] OTHER        -> TRUE

\* The ids a decoder takes.
IdsOf(t) == IdOf(t)..(IF t = "module" THEN IdOf(t) + 3 ELSE IdOf(t))
DecodableAs(f, t) == f.id \in IdsOf(t) /\ f.data[8] = ComputeCrc(f)

Nothing == <<>>
Decode(f, t) ==
  LET v == [i \in DOMAIN Unpacked[t] |-> Get(f.data, Unpacked[t][i][1], Unpacked[t][i][2])]
  IN  IF DecodableAs(f, t) /\ Admits(t, v) THEN v ELSE Nothing

\* OnFrame of the client: the slot that is stored, or the model callback.
ClientOnFrame(f) ==
  IF IsModelId(f.id) THEN <<"model", f>>
  ELSE LET slots == {t \in States : f.id = IdOf(t) /\ Decode(f, t) # Nothing}
       IN  IF slots = {} THEN Nothing
           ELSE LET t == CHOOSE t \in slots : TRUE IN <<t, Decode(f, t)>>

-----------------------------------------------------------------------------
(* One frame: sent, and perhaps damaged.                                     *)

FieldValues(kind) ==
  CASE kind = "u8" -> {<<b>> : b \in Bytes}
    [] kind = "u16" -> {<<0>>, <<Key>>}
    [] kind = "u32" -> {<<0>>, <<305419896>>}
    [] OTHER -> {<<n>> : n \in Numbers} \cup {NaN, PlusInf, MinusInf}
\* All the values of the last two fields, and one of each before them.
Samples(t) ==
  LET at(i) == Packed[t][i][1]
      few(i) == IF i + 1 < Len(Packed[t]) /\ at(i) = "u8" THEN {<<i>>} ELSE FieldValues(at(i))
  IN  {v \in [DOMAIN Packed[t] -> UNION {few(i) : i \in DOMAIN Packed[t]}] :
         \A i \in DOMAIN v : v[i] \in few(i)}

CodecInit ==
  /\ \E t \in Types : \E v \in Samples(t), n \in Counts, k \in IF t = "module" THEN 0..3 ELSE {0} :
       message = [type |-> t, fields |-> v, counter |-> n, index |-> k]
  /\ frame = Encode(message)
  /\ spoilt = FALSE

\* One byte, of the payload, the trailer or the id, comes out different.
Spoil ==
  /\ ~spoilt
  /\ spoilt' = TRUE
  /\ \/ \E i \in 1..8 : \E b \in Damaged(frame.data[i], Flips) :
          frame' = [frame EXCEPT !.data[i] = b]
     \/ \E b \in Damaged(frame.id % 256, Flips) : frame' = [frame EXCEPT !.id = @ - (@ % 256) + b]
     \/ \E b \in Damaged(frame.id \div 256, Flips) : frame' = [frame EXCEPT !.id = 256 * b + (@ % 256)]
  /\ UNCHANGED message

CodecNext == Spoil
CodecSpec == CodecInit /\ [][CodecNext]_codecVars

-----------------------------------------------------------------------------
(* Properties.                                                               *)

\* The value a field arrives with: the nearest one that fits, full scale for what is
\* infinite, and 0 for what is not a number.  can_protocol.md asks for 0 for both, "a bad
\* command must never become motion": the code does so for the second only.
Nearest(kind, v) ==
  LET low  == IF kind = "i16" THEN -32768 ELSE 0
      high == CASE kind = "i16" -> 32767 [] kind = "u8" -> 255 [] OTHER -> 65535
  IN  IF v = NaN THEN 0 ELSE IF v = PlusInf THEN high ELSE IF v = MinusInf THEN low
      ELSE IF kind = "u32" \/ v[1] \in low..high THEN v[1] ELSE IF v[1] < low THEN low ELSE high

Meant == [i \in DOMAIN message.fields |-> Nearest(Packed[message.type][i][1], message.fields[i])]

\* A whole frame is taken by the decoder of its own type and by no other, field
\* by field as it was meant, and a clear of the emergency stop only with its key;
\* a damaged one by none.  The client stores it in the slot of its type.
FramesMeanOneThing ==
  /\ \A t \in Types :
       Decode(frame, t) = IF t = message.type /\ ~spoilt /\ Admits(t, Meant) THEN Meant ELSE Nothing
  /\ message.type = "estop" /\ Decode(frame, "estop") # Nothing /\ Decode(frame, "estop")[1] = 2
       => Decode(frame, "estop")[2] = Key
  /\ ~spoilt /\ message.type \in States /\ Admits(message.type, Meant)
       => ClientOnFrame(frame) = <<message.type, Meant>>
  /\ ~spoilt /\ message.type = "module" => ClientOnFrame(frame)[1] = "model" /\ frame.id - 544 = message.index
=============================================================================
