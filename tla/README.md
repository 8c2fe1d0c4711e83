# Verification of xmDriver

TLA+ models of the core of xmDriver (C++ drivers for motors, sensors, input
devices and a CAN-controlled mobile base), their TLC configurations, and TLAPS
proofs. Paths below are relative to the repository (`src/` is its source tree).

## 1. Inventory

| component | state | operations | interacts with |
|---|---|---|---|
| `transport/async_port` **AsyncCAN** | `port_opened_`, TX queue (256), `tx_in_progress_`, `tx_frame_`, the socket | `Open`, `Close`, `SendFrame`; handlers `StartWrite`, `ReadFromPort`, `HandleError` on the I/O thread | callers' threads, asio, the driver's receive and error callbacks |
| **AsyncSerial** | `port_opened_`, TX ring, `tx_buf_`, `tx_in_progress_`, descriptor | `Open`, `Close`, `SendBytes`, line settings; the same handlers | the same |
| **RingBuffer** | storage, two free-running indices, overwrite flag | `Write`, `Read`, `Peek`, `PeekAt`, size queries, `Reset` | AsyncSerial (TX), DDSM210 (RX resynchronisation) |
| **IoService** | one `io_context`, one thread | handlers in order, one at a time | every port of the process |
| `transport/modbus_rtu` | libmodbus context | blocking register reads and writes | AKELC |
| `hal` freshness, telemetry, `ActuatorGroup`, `MotorFactory` | last-update time; last reported state; members | `Mark`/`IsFresh`/`Reset`; `Update`; group commands with an aggregate status | every driver |
| `robots/mobile_base_can` **client** | `connected_`, four TX counters, cached feedback | `Connect`, `Disconnect`, five commands, frame and error callbacks | a CAN port; the base over the bus |
| **CommandTracker**, **CounterCheck** (base side) | last counter per id, twist and its time, latched mode, e-stop, sticky faults | `OnFrame`, `Snapshot`, `ClearFaults` | the client's frames |
| `devices/motor_vesc` | `connected_`, `bus_fault_`, freshness, last status | `Connect`, `Disconnect`, `SetSpeed/SetCurrent/ApplyBrake/Stop`, `Health`, status and error callbacks | a CAN port |
| `devices/motor_waveshare` **DDSM210** (single, array) | connection, raw feedback, RX ring, ids | commands, mode and id handshakes, group stop | a serial port, polled by sleeping callers |
| `devices/motor_waveshare` **SMS/STS servo** (single, array) | id, cached readings and their age, poll thread | blocking transactions, group stop, change of the id, `StopRefresh` | the vendored servo library (`servo/SCS.cpp`, `SCSerial.cpp`, `SMS_STS.cpp`) under a bus mutex |
| `devices/motor_akelc` | freshness, a Modbus port it may share | `Connect` with a probe, speed, readings, `Disconnect` | Modbus port |
| `devices/sensor_imu` | byte decoder, freshness, last sample | `Connect`, byte callback, `Read`, `Health` | a serial port, the vendored decoder `ch_serial.c` |
| `devices/input_sbus` | byte decoder, failsafe watchdog | `Connect`, byte callback, watchdog | a serial port |
| `devices/input_hid` | reader thread, stop pipe, key and axis state | `Connect`, `Disconnect`, drain, resynchronisation, hot-unplug | evdev |
| `apps/cli` | none | arguments to driver calls | all drivers |

What is hard here: senders on many threads share a queue with one I/O thread
and the wakeup between them must not be lost; a port may be closed by its owner,
by an error, or by both at once, and opened again; every driver has callbacks
that run while its owner is inside `Connect()` or `Disconnect()`; the bus loses
and reorders nothing by itself, but threads may overtake each other between
drawing a counter and sending; the base must act on the right command across
losses, restarts and timeouts. What makes each component correct:

- *ports*: accepted frames leave in order and at most once; as long as the port
  lives, each does leave; one write and one read loop at a time; a fault is told
  once and only if there was one; `Close()` returns.
- *ring*: it is a bounded queue, whatever its indices wrap to.
- *mobile base*: losses within the window cost nothing, a late command never
  replaces a newer one, motion stops when commands do.
- *motors*: a fault stays visible, health never rests on the feedback of another
  session or device, an acknowledged stop has stopped every motor, a disconnected
  driver sends nothing, a group tells of the member that failed.
- *inputs*: what a sample holds was sent in this session, in frames that came whole; the state
  of the keys returns to the device's after lost events; loss is told.
- *codecs*: what is decoded is what was meant, or the nearest the wire can say, or nothing is.

## 2. Modules and plan

| module | models | state and actions against the code |
|---|---|---|
| `HandlerQueue` | a FIFO of handler kinds, counting | `io_context` of `io_service.hpp` |
| `CanLink` | *abstract* CAN port: a bounded FIFO that a hang-up empties | the contract of `can_interface.hpp` |
| `AsyncCan` | `async_can.{hpp,cpp}` | one action per handler of the I/O thread (`Run...`), per critical section of `SendFrame` (`SendCheck`, `SendEnqueue`, `SendPost`), per reactor event; `HandleError` in two steps, as its lock splits it |
| `BytePipe` | *abstract* serial port: bytes leave in order, at most once | the contract of `serial_interface.hpp` |
| `AsyncSerial` | `async_serial.{hpp,cpp}` | as AsyncCan; the ring is the sequence of its unread bytes |
| `ByteQueue`, `RingBuffer` | *abstract* bounded queue; `ring_buffer.hpp` with indices modulo `Words` | one action per operation; each records the answer it gives |
| `Bytes` | shifts, masks, two's complement, saturation, bits that flip | the casts and shifts of the codecs |
| `Freshness` | `freshness.hpp` | an age in ticks, and what Health and a reading make of it |
| `CounterCheck`, `CommandTracker` | `e2e.hpp`, `command_tracker.hpp` | operators from tracker record to tracker record, one per kind of frame |
| `BaseLink` | the client's threads, a lossy bus, the base | `Issue` draws the counter, `Send...` hands the frame to the port, `Receive...` is `OnFrame` |
| `BaseCodec` | `core_codec.hpp`, `codec_util.hpp`, the CRC of `e2e.hpp`, the frame of the swerve profile | an encoder makes a frame, the bus may flip bits, every decoder looks at it |
| `VescMotor` | `vesc_motor.cpp`, `vesc_can_interface.cpp` | `Connect` and `Disconnect` in the stages another thread can see |
| `ScsBus` | the vendored servo library | `Transact`: flush, send, wait for what it accepts as an answer; a *fate* says who heard it: nobody (`deaf`), the servo alone (`lost`), both (`answered`), or both too late (`late`); a reply that is late may intrude into the transaction after, and the ids whose answer it was taken for are remembered (`mixed`) |
| `SmsSts` | the servo and the servo array | a command is a transaction; `Stop` goes servo by servo (`ServoStopNext`); the poll thread reads, publishes and sleeps in steps; `StopRefresh` joins it |
| `Ddsm210` | the single wheel motor | the handshakes look at the feedback turn by turn, as the code's sleeps do (`SetModeAsk`, `SetModeLook`, `SetMotorIdSend`, `SetMotorIdLook`) |
| `FrameScan` | `ddsm_210_frame.cpp`, the scan | a byte is a place in a frame; damage; the checksum as "these are the bytes of one frame" |
| `Ddsm210Array` | `ddsm_210_array.cpp` over a serial port | `SetSpeeds`/`Stop` frame by frame (`Begin`, `Continue`), `ProcessRx` one turn of its loop at a time (`Receive`, `ScanFrame`, `ScanByte`, `ScanEnd`), `Connect`/`Disconnect` in stages |
| `MotorFrames` | the frames of VESC, servo and DDSM210 | one frame is made, damaged or not, and decoded |
| `MotorGroup` | `actuator_group.hpp` over AKELC motors that share a Modbus port | a group command visits member by member (`GroupNext`); each motor's `Connect`, `Disconnect`, write and read |
| `SbusReceiver` | `sbus_receiver.cpp`, `sbus_decoder.cpp` | owner, watchdog (`WatchdogLooks`, `EmitFailsafe`) and I/O thread (`ByteArrives`, `Publish`, `FireCallback`); the decoder's states |
| `ImuHipnuc` | `imu_hipnuc.cpp`, `ch_serial.c` | the decoder token by token (`ImuReceive`), the record a frame writes its fields to and leaves to the next (`DecodeCh`), the store of the sample apart from the mark (`ImuStore`), faults and their report |
| `Hid` | `evdev_reader.cpp`, `evdev_joystick.cpp`, `evdev_keyboard.cpp` | owner and reader thread in steps; the kernel's queue overflows into `SYN_DROPPED` (`Queued`), `Replay` reads the device's state back |
| `InputFrames` | channels of an SBUS frame, items and checksum of an IMU payload | one frame is made, damaged or not, and decoded; an IMU's on the record that another frame left |
| `MC*` | instances for TLC | the constants' small sets |
| `*_proof` | theorems and proofs | section 5 |

The components meet as follows. `BaseLink` and `VescMotor` use the CAN port as
`CanLink` specifies it (open check and enqueue in one step, FIFO, discarded on
close), which is what `ImplementsLink` shows of AsyncCan. `BaseLink` composes the
client with `CommandTracker`, which composes one `CounterCheck` per command id.
`Ddsm210Array` uses the serial port as AsyncSerial behaves (frames whole or not
at all, discarded on close) and `RingBuffer` as the queue it was shown to be, in
overwrite mode. `SmsSts` drives `ScsBus`; `MotorGroup` puts a group over motors
over one port. `SmsSts`, `Ddsm210` and `ImuHipnuc` take their health from
`Freshness`. Drivers of one kind make one promise (health that was heard,
silence when disconnected, stops that hold, calls that return), so `MCMotors` and
`MCInputs` state it once for all of them: a variable `which` says whose
behaviour this is, and the others rest. `MCBase` and `MCAsyncSerial` do the same
for the parts of the base and for port and ring.

Eight modules hold theorems: `Basics_proof` (lemmas on queues, folds, remainders,
induction, bytes and checksums that the others cite), `CanLink_proof`, `AsyncCan_proof`,
`SerialPort_proof` (port and ring), `BaseLink_proof`, `Ddsm210Array_proof`,
`Motors_proof` and `Inputs_proof`; the last two and `BaseLink_proof` prove about
the compositions that the runs check.

What is left, in the order it would be worth doing: proofs about the handshakes of the
single DDSM210; the client's cached feedback with the staleness of its getters; the
telemetry aggregation.

## 3. Runs

States are distinct states.

| run | bounds | what it shows |
|---|---|---|
| `can_port` | 2 callers, queue of 1, 2 sessions, 2 sends; 104,606 states | The port implements `CanLink`; one write, one read loop (`OneOfEach`); no lost wakeup (`NoStall`, and with fairness `FrameLeaves`); faults are told, and real (`FaultsAreTrue`); `Close()` returns |
| `can_reopen` | 2 callers, queue of 2, eager reopen, 3 sends | **finding**: two writes in flight on one buffer |
| `serial_port` | port: 2 callers, ring of 3, calls of 1 or 2 bytes, 2 sessions, 3 bytes; ring: 4 slots, index word of 8, bursts to 4; 410,252 states | The port implements `BytePipe`, accepted bytes are never overwritten, it stalls only after an aborted write; the ring is a queue in both overwrite modes, through every wrap (`RingIsQueue`) |
| `serial_reopen` | 1 caller, otherwise the same port | **finding**: a reopened port that accepts bytes and writes none |
| `base` | counters mod 8, window 2, port queue 2, timeout 1, at most 4 commands and 4 sends in all, 1 restart; a behaviour keeps to one scope: *race*: 2 threads, e-stop and twist, counters from 7 on, 3 sends; *loss*: 1 thread, e-stop, from 6 on, 4 sends; *motion*: 1 thread, twist, mode and heartbeat, from 0 on, a client of the right and of a wrong version, 3 sends; *codec*: any one frame with numbers from {-40000, -2, 300, 70000}, NaN and the infinities, whole or with bits {0}, {7} or {1, 4} of a byte flipped; 565,661 states | The base agrees with the commander (`CommandsAgree`), tolerates losses (`ToleratesLoss`), never lets a late command replace a newer one (`CommandsInOrder`), stops when twists stop (`BaseStops`); a frame means one thing or nothing (`FramesAgree`) |
| `base_resume` | 1 thread, timeout 1 | **finding**: motion resumes without a new mode request |
| `motors` | *vesc*: limit 1, timeout 1, port queue 2, 2 sessions, 3 sends; *servo*: chains of 1 and of 2, one new id, any fate of a frame and of its reply, freshness 0; *wheel*: ids 1 and 2, 2 turns, wire of 1, 2 opens; *group*: 2 motors on one lossy port, targets 0, 1 and 40000, freshness 1; *frames*: amounts to both ends of 16 and 32 bits; 273,904 states | Health tells the truth (`HealthIsTrue`), the VESC's last word is the last command, and a stop of servos or of a group answered kOk holds (`MotorsObey`), frames mean what they were made for (`MotorFramesMean`), the id used is the servo's (`IdFollows`), silence after `Disconnect()`, a group call reaches every member and folds what they answer (`GroupCommands`), the VESC's stop takes effect, calls return (`CallsReturn`) |
| `vesc_disconnect` | as *vesc* | **finding**: the stop of `Disconnect()` is discarded |
| `ddsm_mode` | 2 turns, wire of 2, 2 opens | **finding**: `SetMode()` confirms a mode nobody reported |
| `akelc_shared` | 2 motors on one port | **finding**: a motor disconnects and takes the port away from the stop of the other |
| `ddsm_array` | 2 motors and a stranger, frames of 2 bytes, ring of 3, port of 1 frame, 2 sessions, 2 accepted frames, 1 spoilt or strange frame; 2,672,420 states | The scanner loses no intact frame (`FramesAreHandled`); no mode and no health that was not heard in this session; a `Stop()` answered kOk halts every motor |
| `inputs` | *sbus*: frames of 5 bytes, timeout 1; *imu*: payloads of one field, of both, or of one and an item that does not fit, at most 2 items, 3 frames, 2 of them damaged or cut; *hid*: 3 keys of which 2 are known, kernel queue of 2; *frames*: six payloads after each of three, whole or cut, bits {0} or {3, 4} of a byte flipped; 471,275 states | Failsafe after every loss (`LossReachesConsumer`), silence after `Disconnect()`, the SBUS decoder regains step after one plain frame; each field of a sample is from the last intact frame of this session that carried it, and keys return to the device's state after lost events (`ReadingsAreTrue`); a frame that is taken means what was put into it (`FramesAreMeant`); an unplug is noticed and calls return (`HotUnplugNoticed`) |

Why the bounds are enough: each bound is one above what the hazard needs. Two
callers race, the third adds nothing to a lock; a queue of one is full with one
frame; a ring of one frame and a half is overrun by two; two sessions let
anything of the first reach the second; a counter modulo 8 with a window of 2
wraps, is stuck, is in window and out of window; a chain of two servos has one
that answers and one that does not; a kernel queue of two overflows with three
events, and the reader may be before, within and after the replay when it does;
an amount of 40000 leaves 16 bits and one of -2,000,000,000 tells all four bytes
apart. Every `Max...` constant only stops new calls; what has begun runs to its
end. `CHECK_DEADLOCK FALSE` stands where these bounds stop the system, which is
everywhere. Two bounds exclude behaviour: a frame is not overtaken by
`CounterMod - MaxDelta` others (`InReach` of the proofs), and no three threads are
between the draw of a counter and the send of one id at once (`FewAtOnce`: with three a
refused gap can let a late command pass `CommandsInOrder`, section 7). Freshness 0
means that a reading is young until the clock's next tick: young and old are all
that the servos' health tells apart. A servo's reply may be lost or late at any
time. What is not promised then is part of the properties: `StopHalts` and
`NoSilentServo` leave out the ids for whose reply a late one was taken since the
port was opened, and `IdFollows` a servo whose answer to a new id went astray.
Without these exclusions TLC finds each of them violated (section 7).

## 4. Fairness

- *AsyncCan, AsyncSerial*: the I/O thread runs what is queued
  (`io_context::run` returns only at process exit), a caller inside
  `SendFrame`/`SendBytes` finishes (its critical sections never block), and a live
  device completes a write or fails. Nothing makes a caller call, an owner open
  or close, or a device fail.
- *BaseLink*: the base's clock advances.
- *VescMotor*: a frame in the port's queue leaves it, which is `FrameLeaves` of
  AsyncCan.
- *SmsSts*: owner and poll thread go on: a transaction ends with its `IOTimeOut`,
  the bus mutex is held for one transaction at a time, and sleeps end. The loop
  of `SCSerial.cpp` that never ends when the device is gone is left out here and
  listed in section 7.
- *Ddsm210*: the caller's sleeps end.
- *SbusReceiver*: the clock advances, the watchdog thread runs (it sleeps 50 ms at
  a time), and the I/O thread finishes what it began; no byte need ever arrive.
- *Hid*: owner and reader thread go on. The reader is strongly fair where another
  event of the device may come between: woken by `Close()` it leaves, and it finds
  the queue empty now and then. The latter assumes a hand that moves more slowly
  than the reader reads (`[]<>(queue = <<>>)`): otherwise `Drain()` never returns to
  `poll`, in the model as in the code.

## 5. Proofs

Property names in bold are checked by a run as well.

| theorem | establishes | for |
|---|---|---|
| `Typing`, `AnyReopen`, `QueuedFramesMove` (`AsyncCan_proof`) | **`TypeOK`**, the inductive invariant, **`NoStall`** | every number of callers, queue bound, sessions, and both values of `EagerReopen` |
| `QuietReopen`, `OneReadOneWrite`, `FaultsAreSound` (`AsyncCan_proof`) | the stronger invariant, **`OneOfEach`**, **`FaultsAreTrue`** | `EagerReopen = FALSE` |
| `PortImplementsLink`, `FramesInOrder` (`AsyncCan_proof`) | **`ImplementsLink`**, and through it the abstract link's order on the wire | `EagerReopen = FALSE` |
| `InOrder`, `Bounded` (`CanLink_proof`) | the abstract link transmits in order, at most once, and holds at most its limit | every limit |
| `PortTyping`, `SerialInvariant`, `SerialOneOfEach`, `SerialStalls`, `SerialFaultsAreTold` (`SerialPort_proof`) | **`PortTypeOK`**, the inductive invariant, **`OneOfEach`**, **`StallsOnlyAfterAbort`**, **`NoSilentDeath`** | every set of callers, ring, message length, number of sessions |
| `PortImplementsPipe`, `BytesInOrder` (`SerialPort_proof`) | **`ImplementsPipe`**, and through it the order of the bytes at the device | the same |
| `RingImplementsQueue` (`SerialPort_proof`) | **`RingIsQueue`** | every array size, index width and burst, both overwrite modes |
| `BaseTyping`, `BaseInvariance`, `BaseAgrees`, `LossIsTolerated` (`BaseLink_proof`) | **`TypeOK`**, the inductive invariant, **`CommandsAgree`**, **`ToleratesLoss`** | every set of threads and commands, counter size, window, port queue and number of restarts |
| `OrderIsKept` (`BaseLink_proof`) | **`CommandsInOrder`** | any number of threads and runs of any length in which no three threads are between draw and send of one id at once (`[]FewAtOnce`) and no frame on its way is `CounterMod - MaxDelta` numbers behind the last one checked (`[]InReach`) |
| `FramesMean` (`BaseLink_proof`) | **`FramesAgree`** | every set of integers in the fields, NaN and the infinities, of counters, and of bits damaged in a byte |
| `ArrayTyping`, `ArrayHears`, `ArrayStops`, `FramesHandled` (`Ddsm210Array_proof`) | **`TypeOK`**, **`HeardThisSession`**, **`StopHalts`**, **`FramesAreHandled`** | every list of ids, frame length, ring, port and number of sessions |
| `VescInvariance`, `VescSilence`, `VescObeys` (`Motors_proof`) | the inductive invariant with the envelope of every command; **`SilentWhenDisconnected`**; `Obeys`, the last word of the VESC | every set of requests, limit, timeout, queue, sessions |
| `StopsHold`, `IdsFollow`, `SilenceShows` (`Motors_proof`) | `StopHalts`, **`IdFollows`**, `NoSilentServo` | every chain of servos, whatever is lost or late |
| `GroupServes` (`Motors_proof`) | **`GroupCommands`** | groups of every size, every set of targets, with and without losses |
| `MotorsTyping`, `MotorsObeyed`, `HealthTellsTheTruth` (`Motors_proof`) | **`MotorsTypeOK`**, **`MotorsObey`** and **`HealthIsTrue`** of the composition | the same, with the constants of the other drivers |
| `FramesMeanWhatWasAsked` (`Motors_proof`) | **`MotorFramesMean`** | every set of amounts of 32 bits, of up to 31 ids and of bits damaged in a byte |
| `Typing`, `Silence`, `RegainsStep` (`Inputs_proof`) | `TypeOK`, **`SilentWhenDisconnected`**, **`StepRegained`** of the SBUS receiver | every frame length from 3 and every timeout |
| `StateConverges` (`Inputs_proof`) | `StateIsTheDevices` | every set of keys, kernel queue and number of lost events |
| `SamplesOfThisSession` (`Inputs_proof`) | `ImuSampleOfSession` | every set of fields and payloads, buffer, window and damage |
| `InputsTyping`, `ReadingsTrue` (`Inputs_proof`) | **`InputsTypeOK`** and **`ReadingsAreTrue`** of the composition | the same |

Every theorem rests on the assumptions on the constants that its modules name
(`AsyncCanAssumption`, `AsyncSerialAssumption`, `RingBufferAssumption`,
`CounterAssumption`, `TrackerAssumption`, `CommandsAssumption`,
`BaseLinkAssumption`, `ArrayAssumption`, `VescAssumption`, `SmsStsAssumption`,
`Ddsm210Assumption`, `MotorGroupAssumption`, `SbusAssumption`, `ImuAssumption`,
`HidAssumption`, `BaseCodecAssumption`), which the runs evaluate, and on the condition of the last
column. They are sizes and shapes: a ring has room, the window is smaller than
the counter, a group has a member.

*The CAN port.* `AnyReopenInv` adds to `NoStall` what it needs to survive a step:
a stream serves the session it was opened for (`StreamInv`), `tx_in_progress_`
is accounted for by an armed write, a queued completion or the aborted one
(`BusyInv`), and the fate of a session agrees with the flags (`FateInv`). It is
inductive for any owner. One write at a time is not: an aborted completion of
the closed session clears the flag of the next (the finding of `can_reopen`). With
an owner that reopens only when the handlers of the closed session have run,
`QuietReopenInv` counts every source of a write and of a read and finds at most
one. `PortImplementsLink` maps queue, flag, accepted and wire to the link's
variables, and every step to a step of the link or to none. Lemmas on sequences
and on the count of handlers are in `Basics_proof`.

*The serial port.* `SerialInv` has the same parts and one more: `IdleInv`, bytes
without a write in progress have their drain posted, unless the session is being
torn down. The flag may outlive its write, as an orphan of an aborted session: then
the port stalls, which is why the theorem is `StallsOnlyAfterAbort` and not
`NoStall` (the finding of `serial_reopen`). Under the refinement the bytes of the
ring and those of the write in flight are the pipe's backlog; a completed write
moves a prefix of it to the wire, so the proof needs the order of concatenated
and cut sequences.

*The ring.* The indices run freely modulo `Words`, a multiple of the array's
length, and what is unread is read off the array by masked differences.
`IndicesAgree` says that their difference, so computed, is the number of unread
bytes, and never more than the capacity. `Kept` lists those bytes; the lemmas show
what one stored byte, one byte taken, and one overwritten do to it. A burst is a
fold of such steps. The folds of the community modules are recursive functions over
subsets, so `Basics_proof` first shows that such a function exists and what it
does in one step (`FoldExists`, `FoldTurns`), with induction carried out over sets of
natural numbers, since no prover here can instantiate a theorem over an operator.

*The mobile base.* Numbers that never wrap stand for the counters; the code's
counters are their remainders. `LinkInv` places each frame on its way: accepted frames
are in the backlog or on the wire, once, in order. `Before` and `Beside` say which of two
frames will be heard first, if it is known. `CountInv` ties the gate's reference to
the number of the last frame checked, so that `LossIsTolerated` comes down to a
lemma on remainders. For `CommandsAgree` an id is *quiet* while none of its frames was lost, refused or
overtaken; then the frames on their way carry exactly the numbers between the last one
heard and the last one drawn, in order, and the last of them carries the intent (`QuietInv`).
For `CommandsInOrder` a frame that is behind the newest accepted one must be behind
the last one checked too (`OrderInv`). Only a refused gap could bring the reference back
under it, which takes three frames heard in the order 3, 1, 2, and so three
threads that had drawn and not sent at once. The code does not rule that out, and
the property is false then (section 7), so the theorem speaks of behaviours in which
it does not happen (`FewAtOnce`), with however many threads. It
remains that the counter has not come round, which is `InReach`: 241 numbers in the
code.

*The base's frames.* `CodecInv` says that what is on the bus is what `Encode` made of
the message, or that with one byte of payload, trailer or id changed. Each field stores
the bytes of its value and leaves the others alone (`Put`), so after the fold over the fields the
payload is `Laid` out, and reading a field back gives the nearest value that fits
(`RoundTrip`); NaN is stored as 0 and an infinite value as full scale, as the code has it (section 7). The table of the CRC is a permutation, because each of its eight
shifts is one (`AutosarInjective`): two checksums that differ go on to differ, so that one byte
that comes out different changes the outcome, wherever it stands (`AutosarFinds`).
No decoder takes such a frame, and a whole one only that of its id.

*The motors' frames.* `FramesInv` says the same of the frames of VESC, servo and DDSM210: on the
wire is what the message was encoded as, or that with a byte damaged or, from a
VESC, cut off. Each encoding has a lemma with its bytes one by one, and its decoder
reads them; the two ways to write a sign are lemmas on bytes (`SignedBe` for
two's complement, `MarkedBack` for a sign bit and a magnitude). A damaged byte is found by the CRC of the DDSM210 (`MaximFinds`) and
by the sum of the servos (`TotalFinds`): a sum modulo 256 differs when one of its terms
does, and the checks that come before it only refuse more. A synchronised write has
eight bytes for every servo and counts them in one byte (`mesLen`, `SCS.cpp:127`):
it has room for 31. The code does not look: the array of a longer list would send a frame
that says less than it holds. So `MotorFramesAssumption` asks for at most 31 drives, with ids that do not speak
to all and amounts of 32 bits, the widest integer of the drivers' fields. The order of the servos in that
frame does not matter: `SyncIs` holds for every list of ids. The proof showed two definitions
of `MotorFrames` to say less than was meant, where TLC had taken the first alternative:
a CHOOSE that the wrong command satisfied as well, and a CASE whose guards overlapped
for a report that is too short. Both are now determined.

*The DDSM210 array.* `HeardInv` says of every byte on the bus, and of the last byte of
every frame that can still be cut out of the ring, that it is of this session
(`News`), that a closed port carries nothing (`Quiet`), and that monitors and modes
were marked by such frames (`Fresh`), unless the last `Connect()` found the port open
(`late`, section 7). For `StopHalts` the invariant looks ahead: once the port has sent what it
holds, a motor that was told to stop ends up standing (`Ends`), and so does every motor
that a `Stop()` under way has passed without a failure (`Stopping`). `FramesAreHandled` is
about one step of `ProcessRx`: the places of the frames in the ring after it
are, one to one, those before it but the one that was handled.

*The VESC.* `OkIsFresh` alone survives no step of `Connect()`. `DriverInv` adds
how far the owner has come and what port and monitor hold there
(`VescOwnerInv`), that a fault told in this session stays in `bus_fault_` (`VescFaultInv`), and
that the monitor was marked in this session only (`VescHeardInv`). `Obeys` needs where the
last accepted command is: the last of the backlog if there is one, the last of the wire
otherwise (`LastIs`).

*The servos.* `ServoInv` consists of the shape of the state and what it says of
the poll thread's progress (`ShapeInv`), what a closed port leaves behind (`ClosedInv`),
`IdFollows`, `ServoHeardInv` (a young reading, or one about to be published, is
of a servo that was heard at this address) and `StopInv` (those servos a
`Stop()` in progress has passed, and found acknowledged, stand still), the last two but
for the ids in `mixed`. A reading that is late for the single servo is one of its own, so
there the exclusion is not needed, and a change of the id cannot carry it over to
the new one. Two lemmas carry it: `Effect` says what a transaction has done to the one
servo that was asked if it was answered, lost, late or met a late reply, and `Twofold`
the same for the pair of transactions of `WriteSpe`.

*The group.* `GroupInv` speaks of a call that is half way: who has failed is among the
members that had their turn, the aggregate is kOk just if nobody has (`AnswerInv`), those
that did not fail have taken the target (`ServedInv`), and the sum is that of the
members so far (`SumInv`); `CalmInv` carries a `Stop()` answered kOk to the next command. The
property compares with `SumFunction`, which adds in an order that only CHOOSE knows:
`SumAdds` proves that every order gives the same sum. A 16-bit register gives back
what was saturated (`TakenTarget`, `TwoRegisters`).

*The SBUS receiver.* The inductive invariant has three parts: which threads can
be at work by how far the owner has come (`LinkInv`), where the decoder's index
stands in each state (`DecoderInv`), and `StepInv`: while a plain frame arrives
whole, the decoder is in step, or still inside a frame it began before this one
(its index is then at least the wire's position), or about to end one, or waiting
for a head. At the frame's end only the head is left to wait for.

*The HID reader.* `StateIsTheDevices` speaks of an empty queue only. `HidInv` splits
the way from the device to the state in two: the state agrees with libevdev's
picture for every key the driver answers for (`PictureInv`), and the picture
agrees with the device for every key without a queued event, while for the others
the last queued event does (`QueueInv`). An overflow suspends the second half until
the replay, which compares the picture with the device as it is at that moment.

*The IMU.* `RawInv` bounds what the decoder holds by the length it has read, which may be
too long only until the header is complete; `MarkInv` says that a fresh mark is the
stored sample's, or that of the frame about to be stored; and the record agrees
field by field with what the intact frames of this session left in it (`Says`).

*The compositions.* Each step of an `MCSpec` is a step of every driver or leaves it
alone, so each driver's invariant holds of it (`EachSteps`, `InputsSteps`,
`MCBaseSteps`). The wheel motor comes in here: what is on its way back, or fresh, was
sent in this session (`WheelInv`), and its handshakes keep their types (`WheelTypes`).

Only model-checked: all liveness (`FrameLeaves`, `CloseReturns`, `BaseStops`,
`StopTakesEffect`, `CallsReturn`, `LossReachesConsumer`, `HotUnplugNoticed`),
which the prover does not reach; and `FramesAreMeant`, the frames of the inputs. A
damaged byte of an IMU frame may be one of its length, so that the checksum is taken
over another number of bytes: whether it is then found depends on the payload, and
is enumerated for the bits the run damages.

## 6. What the models leave out

- *AsyncCan*: a frame is the number of its acceptance; a failing `Open()` and a
  frame with dlc > 8 change nothing; closing the socket and clearing the flag is
  one step; CAN-FD and the receive path's content are left out.
- *AsyncSerial*: its owner reopens when the handlers of the closed session have
  run; `SetBaudRate`, flow control and the destructor are left out; a byte is the
  number of its acceptance.
- *BaseLink*: the port takes open check and enqueue as one step; the owner does
  not call `Connect()` while connected, and each `Connect()` makes a new port; the
  port's fault and `connected_ = false` are one step, `connected_ = true` another.
  `drawn % CounterMod` is the counter; a restart moves `drawn` to the next
  multiple. The CRC is modelled by its outcome here and bit by bit in
  `BaseCodec`. What the getters make of cached feedback is left out.
- *Codecs and frames* (`BaseCodec`, `MotorFrames`, `InputFrames`): values are
  integers in wire units, in `BaseCodec` NaN and the infinities as well; scaling between them and floating point is left out. An
  SBUS frame has no checksum, and `ValidateSbusMessage` is never called, so a
  damaged one may be decoded and only plain ones are promised anything.
- *VescMotor*: the firmware's own command timeout is left out; values are clamped
  to a limit and not scaled; `fault_code` keeps the constant it has in the code;
  `MaxSends` does not count the stops of `Disconnect()`.
- *ScsBus, SmsSts*: a transaction is one step, as the bus mutex makes it; a late reply
  reaches the next transaction or is flushed by it, and none comes later than that; the
  faults of the status byte and the temperature, and a `begin()` that fails half
  way, are left out; so are SMSBL and SCSCL, which no driver uses.
- *Ddsm210, Ddsm210Array*: device error codes, positions and odometry values; a
  vector of `SetSpeeds` holds one value; no two frames collide in their checksum,
  the line to the array's motors is reliable and replies do not overlap; unread
  bytes are lost when the port closes. `HeardThisSession` leaves out a session whose
  `Connect()` found the port open (`late`, section 7). What `StopHalts` promises needs a session
  that lasts: the frames of a `Stop()` are lost with the port that held them.
- *MotorGroup*: the brake, the PID gains and the fault registers of AKELC; the
  overload with one speed per member and the group of positions, which are the
  same fold over another call.
- *SbusReceiver*: `Health()`; `SetFrameCallback`. A frame's payload may hold any
  byte, but step is promised only after a frame whose payload holds no head: with a
  resting stick that reads 0x0f the decoder may never find it.
- *ImuHipnuc*: arithmetic on floating point samples. `ImuSampleOfSession` leaves out
  the moment between mark and store, in which it does not hold (section 7).
- *Hid*: the key tables are the set `Known` of keys that have a place; the scaling
  of an axis and the keyboard's callbacks are left out.

Not modelled, and why: the SocketCAN frame conversion and the table of baud rates
(stateless, covered case by case by unit tests); the factory and registry (a
table filled once at start); the simulated motor, the value types and the
device-neutral interface of the base (a test double, plain data, an abstract
class); the telemetry aggregation (no driver's state depends on it); the command
line tool (argument parsing and printing); logging and metrics.

## 7. Findings

The six violation runs are disagreements between the code and its own comments,
documents or tests; `findings` in `PROJECT.json` quotes them. Met while
modelling, without a run of their own, at the lines given there:

- *base*: clearing the e-stop keeps mode auto; a refused gap still moves the
  counter reference, so that with three threads an overtaken command can pass; a fault during `Connect()` is overwritten; the client never
  checks the counter of the frames it receives; `Connect()` keeps the freshness of
  the session before; an infinite value becomes full-scale motion and not 0.
- *ports*: a serial `Open()` that fails on an option leaves the device open; a short
  write on a serial port loses the rest of bytes that were answered kOk.
- *motors*: the VESC's `fault_code` is never assigned; the stop of a DDSM210 array's
  `Disconnect()` is discarded like the VESC's; a DDSM210's `Connect()` overwrites a
  fault; an array's `Connect()` goes on with a port that is open already, on what it
  heard in the session before; `SetMotorId()` uses the new id before the motor has taken it, may take an
  old reply for the acknowledgement, and accepts ids its own frame asserts against.
- *servos*: a late reply is taken for that of the servo asked next, since the id is
  not compared; an acknowledgement has no sign of what it acknowledges; a read
  from a device that is gone never ends; the single servo's `Stop()` answers kOk
  whatever happened; a lost acknowledgement of a new id leaves the driver with the
  old one; the length of a synchronised write wraps at 32 servos.
- *inputs*: a faulted SBUS receiver answers `Connect()` with kOk and stays down, and
  its decoder may stay out of step; the IMU's fault state is unreachable, and its
  monitor is marked before the sample is stored; its fresh samples hold fields of older
  frames, and of frames refused half-way, beside those of the newest; an unplug during a joystick's
  `Connect()` is overwritten; a keyboard keeps its pressed keys over a reconnection.
- *telemetry*: two threads may report in another order than they observed.
