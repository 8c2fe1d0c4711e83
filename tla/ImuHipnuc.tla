----------------------------- MODULE ImuHipnuc -----------------------------
(***************************************************************************)
(* The HiPNUC IMU: imu_hipnuc.cpp over the frame decoder ch_serial.c.      *)
(*                                                                         *)
(* A frame is the tokens <<5A, A5, length, checksum, payload...>>; length  *)
(* and checksum are two bytes in the code.  A token belongs to the frame   *)
(* it was sent in, so that a checksum is right when the tokens it covers   *)
(* are those of its frame, all of them and in order.  A token of payload   *)
(* is an item: the field of the record it writes, or one that does not     *)
(* fit.  raw->imu keeps every field until another frame writes it.  The    *)
(* bytes of the items are InputFrames' subject.                            *)
(***************************************************************************)
EXTENDS Freshness, Sequences, SequencesExt

CONSTANTS
  Fields,      \* fields of raw->imu
  Payloads,    \* what a frame may carry: fields, in order, or items that do not fit
  MaxLen,      \* longest payload the decoder takes (506 bytes in the code)
  ImuFresh,    \* the freshness window, in ticks of the clock
  MaxFrames,   \* model bound: frames the IMU sends
  MaxDamage    \* model bound: tokens damaged or lost

Cut == "cut"      \* an item longer than what is left of the payload

ASSUME ImuAssumption ==
  /\ {MaxLen, ImuFresh, MaxFrames, MaxDamage} \subseteq Nat
  /\ \A items \in Payloads : items \in Seq(Fields \cup {Cut}) /\ Len(items) <= MaxLen
  /\ Cut \notin Fields

VARIABLES
  iport,      \* the serial port is open
  ihalf,      \* buf[1] before a frame began: the last token was 5A
  iraw,       \* buf[0..nbyte-1] of the frame being received
  iage,       \* monitor_, ImuFresh + 1 when too old
  ifault,     \* faulted_
  ireport,    \* the I/O thread is about to call the error callback
  irec,       \* raw->imu: the frame each field was last written by, 0 for none
  imarked,    \* the sample OnSerialData has made and marked, not yet stored, if any
  isample,    \* last_sample_: its fields, and after how many frames it was made
  iline,      \* external: tokens on their way
  isent,      \* history: frames sent since the start, and damages
  ilog        \* history: the intact frames of this session, in order

imuVars == <<iport, ihalf, iraw, iage, ifault, ireport, irec, imarked, isample, iline, isent, ilog>>

Token(is, n, of) == [is |-> is, n |-> n, of |-> of]
Sync1 == Token("5A", 0, <<>>)
Sync2 == Token("A5", 0, <<>>)
Junk == Token("junk", 0, <<>>)
Frame(n, items) ==
  <<Sync1, Sync2, Token("len", Len(items), <<>>), Token("crc", n, items)>>
  \o [i \in 1..Len(items) |-> Token("pay", n, <<items[i]>>)]
Header == 4

\* What a token reads as where a length is expected: junk may read as any.
Lengths(t) == IF t.is = "len" THEN {t.n} ELSE 0..(MaxLen + 1)

ImuTypeOK ==
  /\ {iport, ihalf, ifault, ireport} \subseteq BOOLEAN
  /\ iage \in 0..(ImuFresh + 1)
  /\ isent \in [frames : 0..MaxFrames, damage : 0..MaxDamage]
  /\ irec \in [Fields -> 0..MaxFrames]
  /\ isample.at \in Nat /\ isample.rec \in [Fields -> 0..MaxFrames]
  /\ iraw = <<>> \/ (iraw[1] = Sync1 /\ iraw[2] = Sync2)
  /\ Len(iraw) < Header + MaxLen      \* "bounded parsing": within raw

Blank0 == [f \in Fields |-> 0]

ImuInit ==
  /\ iport = FALSE /\ ihalf = FALSE /\ iraw = <<>> /\ iage = ImuFresh + 1
  /\ ifault = FALSE /\ ireport = FALSE
  /\ irec = Blank0 /\ imarked = <<>> /\ isample = [at |-> 0, rec |-> Blank0] /\ ilog = <<>>
  /\ iline = <<>> /\ isent = [frames |-> 0, damage |-> 0]

\* Mistake: only the receiver is reset; the record of the last session stays.
AnewReceiver == ihalf' = FALSE /\ iraw' = <<>> /\ iage' = ImuFresh + 1 /\ UNCHANGED irec

\* The decoder, raw->imu with it, and the monitor start anew.
Anew == ihalf' = FALSE /\ iraw' = <<>> /\ iage' = ImuFresh + 1 /\ irec' = Blank0

\* The I/O thread is in no callback.
ImuFree == ~ireport /\ imarked = <<>>

\* Connect(): an open port is left alone; Reset, and Open() at last.
ImuConnect ==
  /\ ~iport
  /\ Anew /\ ifault' = FALSE
  /\ iport' = TRUE /\ ilog' = <<>>
  /\ UNCHANGED <<ireport, imarked, isample, iline, isent>>

\* Disconnect(): Close() waits for the I/O thread and drops what is unread.
ImuDisconnect ==
  /\ iport => ImuFree
  /\ iport' = FALSE /\ iline' = <<>>
  /\ iage' = ImuFresh + 1 /\ ifault' = FALSE
  /\ UNCHANGED <<ihalf, iraw, ireport, irec, imarked, isample, isent, ilog>>

\* CH_HDR_SIZE and the payload must fit the buffer.
TooLong(len) == len > MaxLen

\* decode_ch: the checksum is over all but itself.
Accepts(raw) == raw[4].is = "crc" /\ raw = Frame(raw[4].n, raw[4].of)

\* parse_data: the items in turn, until one does not fit.
Fails(items) == \E i \in DOMAIN items : items[i] = Cut
Written(items) == {f \in Fields : \E i \in DOMAIN items : items[i] = f /\ \A j \in 1..i : items[j] # Cut}

\* A frame whose checksum is right: its items are in raw->imu even when it fails; when
\* it does not, OnSerialData makes a sample of all of raw->imu and marks the monitor.
DecodeCh(n, items) ==
  /\ irec' = [f \in Fields |-> IF f \in Written(items) THEN n ELSE irec[f]]
  /\ ilog' = Append(ilog, [n |-> n, items |-> items])
  /\ IF Fails(items)
     THEN UNCHANGED <<iage, imarked>>
     ELSE iage' = 0 /\ imarked' = <<[at |-> Len(ilog) + 1, rec |-> irec']>>

\* ch_serial_input for one token.  The length is read when the header is complete.
Take(t, raw, len) ==
  IF raw = <<>>
  THEN /\ iraw' = IF ihalf /\ t = Sync2 THEN <<Sync1, Sync2>> ELSE <<>>
       /\ ihalf' = (t = Sync1)
       /\ UNCHANGED <<iage, imarked, irec, ilog>>
  ELSE LET now == Append(raw, t)
           ends == Len(now) >= Header /\ (TooLong(len) \/ Len(now) >= Header + len)
       IN  /\ iraw' = IF ends THEN <<>> ELSE now
           /\ ihalf' = FALSE
           /\ IF ends /\ ~TooLong(len) /\ Accepts(now)
              THEN DecodeCh(now[4].n, now[4].of)
              ELSE UNCHANGED <<iage, imarked, irec, ilog>>

\* The third token, once read, is a length: junk becomes the length it reads as.
ImuReceive ==
  /\ iport /\ ImuFree /\ iline # <<>>
  /\ iline' = Tail(iline)
  /\ \E n \in IF Len(iraw) = 2 THEN Lengths(Head(iline)) ELSE {0} :
       LET t == IF Len(iraw) # 2 THEN Head(iline)
                ELSE IF Head(iline).is = "len" THEN Head(iline) ELSE Token("read", n, <<>>)
       IN  Take(t, iraw, IF Len(iraw) > 2 THEN iraw[3].n ELSE 0)
  /\ UNCHANGED <<iport, ifault, ireport, isample, isent>>

\* OnSerialData marks the monitor first, and then stores the sample under the lock.
ImuStore ==
  /\ imarked # <<>>
  /\ isample' = imarked[1]
  /\ imarked' = <<>>
  /\ UNCHANGED <<iport, ihalf, iraw, iage, ifault, ireport, irec, iline, isent, ilog>>

\* The port closes itself, then calls the error callback.
ImuFaults ==
  /\ iport /\ ImuFree
  /\ iport' = FALSE /\ iline' = <<>> /\ ireport' = TRUE
  /\ UNCHANGED <<ihalf, iraw, iage, ifault, irec, imarked, isample, isent, ilog>>

ImuErrorCallback ==
  /\ ireport
  /\ ireport' = FALSE /\ ifault' = TRUE
  /\ UNCHANGED <<iport, ihalf, iraw, iage, irec, imarked, isample, iline, isent, ilog>>

\* The IMU sends a frame; a bad line loses or damages a token of it.
ImuSends ==
  /\ iport /\ isent.frames < MaxFrames /\ Len(iline) <= Header
  /\ \E items \in Payloads : LET f == Frame(isent.frames + 1, items) IN
         \/ iline' = iline \o f /\ isent' = [isent EXCEPT !.frames = @ + 1]
         \/ /\ isent.damage < MaxDamage
            /\ \E i \in DOMAIN f : iline' \in {iline \o RemoveAt(f, i), iline \o [f EXCEPT ![i] = Junk]}
            /\ isent' = [frames |-> isent.frames + 1, damage |-> isent.damage + 1]
  /\ UNCHANGED <<iport, ihalf, iraw, iage, ifault, ireport, irec, imarked, isample, ilog>>

ImuTick ==
  /\ iage <= ImuFresh
  /\ iage' = iage + 1
  /\ UNCHANGED <<iport, ihalf, iraw, ifault, ireport, irec, imarked, isample, iline, isent, ilog>>

ImuNext ==
  \/ ImuConnect \/ ImuDisconnect \/ ImuReceive \/ ImuStore \/ ImuFaults \/ ImuErrorCallback
  \/ ImuSends \/ ImuTick
ImuSpec == ImuInit /\ [][ImuNext]_imuVars

-----------------------------------------------------------------------------
(* What the driver says.                                                     *)

\* A fault of the port outranks a stale sample, but only while it is open.
ImuHealth ==
  IF iport /\ ifault THEN "fault" ELSE HealthFromFreshness(iport, iage, ImuFresh)

ImuRead == ReadStatus(iport, iage, ImuFresh)

-----------------------------------------------------------------------------
(* Properties.                                                               *)

\* What the frames log[1..at] leave in the record: in every field what the last of
\* them that carried it wrote there, nothing if none did.
Says(rec, log, at) ==
  \A f \in Fields :
    LET carried == {i \in 1..at : f \in Written(log[i].items)}
    IN  \/ carried = {} /\ rec[f] = 0
        \/ \E i \in carried : rec[f] = log[i].n /\ \A j \in carried : j <= i

\* The sample of the newest frame that did not fail.
Newest(sample, log) ==
  /\ sample.at \in DOMAIN log /\ ~Fails(log[sample.at].items)
  /\ \A j \in DOMAIN log : j > sample.at => Fails(log[j].items)
  /\ Says(sample.rec, log, sample.at)

\* Read() hands out a sample, and Health() is kOk, only after an intact frame of this
\* session, and the sample holds the fields of the newest one that did not fail; each
\* field that frame does not carry is that of the last intact frame of this session that
\* did, one refused half-way included, and blank if there was none: nothing comes from
\* another session or from a frame that was damaged, whatever the line lost, damaged or
\* cut off at a reconnection.  Left out: the moment between the mark and the store, when
\* Read() hands out the sample before.
ImuSampleOfSession ==
  (ImuRead = "ok" \/ ImuHealth = "ok") /\ imarked = <<>> => Newest(isample, ilog)
=============================================================================
