---------------------------- MODULE InputFrames ----------------------------
(***************************************************************************)
(* What the input drivers make of a whole frame: SbusBuildMessage of the   *)
(* SBUS decoder (sbus_decoder.cpp), and decode_ch with parse_data of the   *)
(* HiPNUC decoder (ch_serial.c) with ToSample (imu_hipnuc.cpp).            *)
(* A reading of several bytes stays the bytes: the arithmetic on the       *)
(* floating point number they are is left out.                             *)
(***************************************************************************)
EXTENDS Bytes, TLC

CONSTANT Flips      \* sets of bits damaged in a byte

ASSUME InputFramesAssumption == Flips \subseteq (SUBSET Byte) \ {{}}

VARIABLES
  meant,      \* what the device sent: of which make, and the values
  arrived,    \* the frame
  broken      \* history: it was damaged on its way

inputFrameVars == <<meant, arrived, broken>>

Slice(bytes, first, n) == SubSeq(bytes, first, first + n - 1)

-----------------------------------------------------------------------------
(* SBUS: a head, sixteen channels of eleven bits, a byte of flags, a tail.   *)

\* The byte of sframe_buf a channel begins in, and the bits shifted out of it;
\* channel 8 begins anew eleven bytes on.
Begins == << <<1, 0>>, <<2, 3>>, <<3, 6>>, <<5, 1>>, <<6, 4>>, <<7, 7>>, <<9, 2>>, <<10, 5>> >>

\* Mistake: a shift is forgotten, and the low bits are those of the channel before.
ChannelUnshifted(b, c) ==
  LET at == Begins[(c % 8) + 1][1] + 11 * (c \div 8)
  IN  (b[at + 1] + 256 * b[at + 2]) % 2048

\* Two or three bytes, as far as eleven bits reach.
Channel(b, c) ==
  LET at    == Begins[(c % 8) + 1][1] + 11 * (c \div 8)
      shift == Begins[(c % 8) + 1][2]
      third == IF shift > 5 THEN b[at + 3] * 2^(16 - shift) ELSE 0
  IN  (b[at + 1] \div 2^shift + b[at + 2] * 2^(8 - shift) + third) % 2048

\* SbusBuildMessage; b[i + 1] is sframe_buf[i].
SbusBuildMessage(b) ==
  LET flag(bit) == (b[24] \div 2^bit) % 2 = 1
  IN  [channels |-> [c \in 0..17 |-> CASE c = 16 -> IF flag(7) THEN 128 ELSE 0
                                       [] c = 17 -> IF flag(6) THEN 64 ELSE 0
                                       [] OTHER  -> Channel(b, c)],
       frame_loss |-> flag(5), fault_protection |-> flag(4)]

\* OnBytes: the frame that Read() hands out.
RcFrame(msg) ==
  [channels |-> msg.channels, frame_loss |-> msg.frame_loss, failsafe |-> msg.fault_protection]

\* External: the bits of the channels one after the other, the lowest first, and
\* the flags.
SbusFrame(m) ==
  LET bit(n) == (m.channels[n \div 11] \div 2^(n % 11)) % 2 = 1
  IN  <<15>> \o [k \in 1..22 |-> Number({i \in Byte : bit(8 * (k - 1) + i)})]
      \o <<Number(m.flags), 0>>

-----------------------------------------------------------------------------
(* HiPNUC: 5A A5, the length of the payload, a checksum, and items.          *)

\* What eight shifts make of the high byte of the checksum: the polynomial 0x1021,
\* most significant bit first.
Shifted8 ==
  LET Up(crc) == LET moved == {i + 1 : i \in crc \ {15}}
                 IN  IF 15 \in crc THEN Xor(moved, {0, 5, 12}) ELSE moved
  IN  [high \in SUBSET Byte |-> Up(Up(Up(Up(Up(Up(Up(Up({i + 8 : i \in high}))))))))]

\* crc16_update, byte after byte.
Crc16(bytes) ==
  LET over[n \in 1..(Len(bytes) + 1), crc \in SUBSET (0..15)] ==
        IF n > Len(bytes) THEN crc
        ELSE over[n + 1, Xor({i + 8 : i \in crc \cap Byte},
                             Shifted8[Xor({i - 8 : i \in crc \ Byte}, Bits(bytes[n]))])]
  IN  Number(over[1, {}])

\* The tags of the items, and the bytes each takes, its tag among them.
Items == 144 :> 2 @@ 145 :> 76 @@ 160 :> 7 @@ 176 :> 7 @@ 192 :> 7 @@ 208 :> 7 @@ 209 :> 17
         @@ 240 :> 5

\* raw->imu as Connect() leaves it.
Blank == [acc |-> <<>>, gyr |-> <<>>, mag |-> <<>>, eul |-> <<>>, quat |-> <<>>, prs |-> <<>>,
          temp |-> <<>>]

\* What the item whose tag is p[ofs] says; the others stay as they were.
Item(imu, p, ofs) ==
  LET at(n, len) == Slice(p, ofs + n, len)
  IN  CASE p[ofs] = 160 -> [imu EXCEPT !.acc = at(1, 6)]
        [] p[ofs] = 176 -> [imu EXCEPT !.gyr = at(1, 6)]
        [] p[ofs] = 192 -> [imu EXCEPT !.mag = at(1, 6)]
        [] p[ofs] = 208 -> [imu EXCEPT !.eul = at(1, 6)]
        [] p[ofs] = 209 -> [imu EXCEPT !.quat = at(1, 16)]
        [] p[ofs] = 240 -> [imu EXCEPT !.prs = at(1, 4)]
        [] p[ofs] = 145 -> [acc |-> at(12, 12), gyr |-> at(24, 12), mag |-> at(36, 12),
                            eul |-> at(48, 12), quat |-> at(60, 16), prs |-> at(4, 4),
                            temp |-> at(3, 1)]
        [] OTHER        -> imu

\* CH_ITEM_FITS.
Fits(p, ofs) == ofs - 1 + Items[p[ofs]] <= Len(p)

\* Where the items of a payload begin, one after the other; a byte that is no tag
\* is skipped, and an item that does not fit ends it all.
Found(p) ==
  LET from[ofs \in 1..(Len(p) + 1)] ==
        IF ofs > Len(p) THEN [ok |-> TRUE, at |-> <<>>]
        ELSE IF p[ofs] \notin DOMAIN Items THEN from[ofs + 1]
        ELSE IF ~Fits(p, ofs) THEN [ok |-> FALSE, at |-> <<>>]
        ELSE LET rest == from[ofs + Items[p[ofs]]] IN [rest EXCEPT !.at = <<ofs>> \o @]
  IN  from[1]

\* parse_data: what an item writes stays, until another frame writes it, and when an
\* item after it does not fit.
ParseData(imu, p) == FoldLeft(LAMBDA rec, ofs : Item(rec, p, ofs), imu, Found(p).at)

\* What the owner gets of it; the signs and units of a sample are left out.
ToSample(imu) ==
  [accel |-> imu.acc, gyro |-> imu.gyr, mag |-> imu.mag, orientation |-> imu.quat,
   temperature |-> imu.temp]

\* decode_ch, and ch_serial_input before it: the record after a frame, and the samples
\* made of it, if any.
Decoded(imu, b) ==
  LET len   == Unsigned(Reverse(Slice(b, 3, 2)))
      p     == Slice(b, 7, len)
      whole == Slice(b, 1, 2) = <<90, 165>> /\ len <= Len(b) - 6
               /\ Crc16(Slice(b, 1, 4) \o p) = Unsigned(Reverse(Slice(b, 5, 2)))
      after == ParseData(imu, p)
  IN  IF ~whole THEN [imu |-> imu, samples |-> {}]
      ELSE [imu |-> after, samples |-> IF Found(p).ok THEN {ToSample(after)} ELSE {}]

\* External: the bytes of an item, tags of others among them, and a frame; one
\* that was cut lacks the last byte of its payload, and is sealed all the same.
ItemBytes(tag) ==
  <<tag>> \o [i \in 1..((IF tag \in DOMAIN Items THEN Items[tag] ELSE 1) - 1) |-> (tag + 16 * i) % 256]
ImuFrame(m) ==
  LET whole == FlattenSeq([k \in DOMAIN m.items |-> ItemBytes(m.items[k])])
      p     == IF m.cut THEN Front(whole) ELSE whole
      head  == <<90, 165>> \o Le(Len(p), 2)
  IN  head \o Le(Crc16(head \o p), 2) \o p

-----------------------------------------------------------------------------
(* A frame on its way.                                                       *)

\* Each bit of each channel alone, and all of them with any of the flags.
SbusMeant ==
  {[make |-> "sbus", channels |-> [c \in 0..15 |-> IF c = on THEN 2^i ELSE 0], flags |-> {}] :
      on \in 0..15, i \in 0..10}
  \cup {[make |-> "sbus", channels |-> [c \in 0..15 |-> 2047], flags |-> f] : f \in SUBSET {4, 5, 6, 7}}
\* What an IMU sent first, and then.
Earlier == {[cut |-> FALSE, items |-> <<>>], [cut |-> FALSE, items |-> <<145>>],
            [cut |-> TRUE, items |-> <<176, 209>>]}
ImuMeant ==
  {[make |-> "imu", before |-> e, now |-> [cut |-> c, items |-> i]] :
     e \in Earlier, c \in BOOLEAN,
     i \in {<<145>>, <<144, 145>>, <<160, 176, 192, 209>>, <<208, 240>>, <<1, 160>>, <<160, 1, 209, 160>>}}

InputFramesInit ==
  /\ \/ meant \in SbusMeant /\ arrived = SbusFrame(meant)
     \/ meant \in ImuMeant /\ arrived = ImuFrame(meant.now)
  /\ broken = FALSE

\* A byte is damaged; of an SBUS frame nobody could tell: it has no checksum.
BreakOnTheWay ==
  /\ ~broken /\ meant.make = "imu"
  /\ broken' = TRUE
  /\ \E i \in DOMAIN arrived : \E b \in Damaged(arrived[i], Flips) :
       arrived' = [arrived EXCEPT ![i] = b]
  /\ UNCHANGED meant

InputFramesNext == BreakOnTheWay
InputFramesSpec == InputFramesInit /\ [][InputFramesNext]_inputFrameVars

-----------------------------------------------------------------------------
(* Properties.                                                               *)

\* The items of a frame that are all there, and what the last of them that says
\* anything of a field says of it.
Whole(sent) == IF sent.cut THEN Front(sent.items) ELSE sent.items
LastSaid(tags, field) ==
  LET said(k) == Item(Blank, ItemBytes(tags[k]), 1)[field]
      saying  == {k \in DOMAIN tags : said(k) # <<>>}
  IN  IF saying = {} THEN <<>> ELSE said(Max(saying))

\* The receiver's channels and flags are read as the device meant them, wherever in the
\* frame they are.  Of an IMU every field is what the last item that carries it says, one
\* of an earlier frame if need be, and of an earlier frame that was refused half-way too;
\* a frame that was damaged says nothing and makes no sample, and one whose last item is
\* not all there makes none either, though its other items stay.
InputFramesMeant ==
  IF meant.make = "sbus"
  THEN LET f == RcFrame(SbusBuildMessage(arrived))
       IN  /\ \A c \in 0..15 : f.channels[c] = meant.channels[c]
           /\ f.channels[16] > 0 <=> 7 \in meant.flags
           /\ f.channels[17] > 0 <=> 6 \in meant.flags
           /\ f.frame_loss <=> 5 \in meant.flags
           /\ f.failsafe <=> 4 \in meant.flags
  ELSE LET tags == Whole(meant.before) \o (IF broken THEN <<>> ELSE Whole(meant.now))
           imu  == [field \in DOMAIN Blank |-> LastSaid(tags, field)]
       IN  Decoded(Decoded(Blank, ImuFrame(meant.before)).imu, arrived) =
             [imu |-> imu, samples |-> IF broken \/ meant.now.cut THEN {} ELSE {ToSample(imu)}]
=============================================================================
