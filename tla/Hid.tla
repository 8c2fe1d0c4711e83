-------------------------------- MODULE Hid --------------------------------
(***************************************************************************)
(* An evdev joystick or keyboard: evdev_reader.cpp, evdev_joystick.cpp,    *)
(* evdev_keyboard.cpp.  The reader thread drains the events of the device  *)
(* and keeps the state that Read() hands out; the owner connects and       *)
(* disconnects; the device is pulled out and plugged in again.             *)
(***************************************************************************)
EXTENDS Integers, Sequences

CONSTANTS
  Keys,        \* what the device reports: buttons, keys, an axis at an end
  Known,       \* those with a place in the state (JsButtonIndex, keycode_map)
  Room         \* events the kernel holds for a reader before it drops them

ASSUME HidAssumption == Known \subseteq Keys /\ "SYN_DROPPED" \notin Keys /\ Room \in Nat \ {0}

VARIABLES
  joystick,    \* BOOLEAN: EvdevJoystick, or EvdevKeyboard
  hcall,       \* the owner's call under way
  reader,      \* reader_: none, or open_ of it
  running,     \* keep_running_
  thread,      \* the reader thread
  hconn,       \* connected_
  state,       \* state_: the keys taken for pressed
  plugged,     \* external: the device is there
  fd,          \* external: none, live, or dead since the device went
  down,        \* external: the keys held down
  queue,       \* external: what the kernel holds for fd
  seen,        \* libevdev's own picture of the device
  handled,     \* history: keys the state was told of in this session
  early        \* history: the loss was noticed before Connect() stored connected_

deviceVars == <<plugged, fd, down, queue>>
viewVars == <<state, seen, handled>>
readerVars == <<reader, running, thread, hconn>>
hidVars == <<joystick, hcall, readerVars, deviceVars, viewVars, early>>

Dropped == <<<<"SYN_DROPPED", 1>>>>
Values == 0..2                    \* released, pressed, still held (autorepeat)
Events == Keys \X Values
Lost == {"gone", "parked"}        \* the thread has read ENODEV

HidTypeOK ==
  /\ {joystick, running, hconn, plugged, early} \subseteq BOOLEAN
  /\ hcall \in {"none", "replace", "open", "store", "join"}
  /\ reader \in {"none", "open", "shut"}
  /\ thread \in {"off", "wait", "drain"} \cup Lost
  /\ fd \in {"none", "live", "dead"}
  /\ state \subseteq Known /\ handled \subseteq Known /\ down \subseteq Keys /\ seen \subseteq Keys
  /\ queue = Dropped \/ (queue \in Seq(Events) /\ Len(queue) <= Room)

HidInit ==
  /\ joystick \in BOOLEAN /\ hcall = "none"
  /\ reader = "none" /\ running = FALSE /\ thread = "off" /\ hconn = FALSE
  /\ state = {} /\ seen = {} /\ handled = {} /\ early = FALSE
  /\ plugged = TRUE /\ fd = "none" /\ down \in SUBSET Keys /\ queue = <<>>

-----------------------------------------------------------------------------
(* The owner's thread.                                                       *)

\* Connect(): a reader of an earlier session is closed when reader_ takes the
\* new one.
HidConnect ==
  /\ hcall = "none" /\ ~hconn
  /\ IF reader = "none" THEN hcall' = "open" /\ UNCHANGED running
     ELSE hcall' = "replace" /\ running' = FALSE
  /\ UNCHANGED <<joystick, reader, thread, hconn, deviceVars, viewVars, early>>

\* thread_.join() returns.
Joined == thread = "off"

\* The rest of EvdevReader::Close(): join, Teardown, open_.
Teardown == reader' = "none" /\ fd' = "none" /\ queue' = <<>> /\ seen' = {} /\ handled' = {}

HidReplaced ==
  /\ hcall = "replace" /\ Joined
  /\ hcall' = "open"
  /\ Teardown
  /\ UNCHANGED <<joystick, running, thread, hconn, plugged, down, state, early>>

\* JsButtonToKeyCode and JsAxisToAbsCode: where the device keeps what has a place.
Coded == Known

\* OnDeviceReady of the joystick; the keyboard has none.
Seed == state' = IF joystick THEN down \cap Coded ELSE state

\* Open(): libevdev_new_from_fd reads the keys, then the thread starts.
HidOpen ==
  /\ hcall = "open"
  /\ IF plugged
     THEN /\ fd' = "live" /\ seen' = down
          /\ Seed
          /\ reader' = "open" /\ running' = TRUE /\ thread' = "wait"
          /\ hcall' = "store"
     ELSE hcall' = "none" /\ UNCHANGED <<fd, seen, state, reader, running, thread>>
  /\ UNCHANGED <<joystick, hconn, plugged, down, queue, handled, early>>

HidStore ==
  /\ hcall = "store"
  /\ hconn' = TRUE /\ hcall' = "none"
  /\ early' = (thread = "parked")
  /\ UNCHANGED <<joystick, reader, running, thread, deviceVars, viewVars>>

\* Disconnect(): Close() of the reader if there is one.
HidDisconnect ==
  /\ hcall = "none"
  /\ IF reader = "none" THEN hconn' = FALSE /\ UNCHANGED <<hcall, running>>
     ELSE hcall' = "join" /\ running' = FALSE /\ UNCHANGED hconn
  /\ UNCHANGED <<joystick, reader, thread, deviceVars, viewVars, early>>

HidDisconnected ==
  /\ hcall = "join" /\ Joined
  /\ Teardown
  /\ hconn' = FALSE /\ hcall' = "none" /\ early' = FALSE
  /\ UNCHANGED <<joystick, running, thread, plugged, down, state>>

-----------------------------------------------------------------------------
(* The reader thread.                                                        *)

\* RunLoop: epoll_wait, woken by Close(), by an event or by the loss of the
\* device; it sees the wake first, or the device.
HidWait ==
  /\ thread = "wait"
  /\ \/ ~running /\ thread' = "off"
     \/ (queue # <<>> \/ fd = "dead") /\ thread' = "drain"
  /\ UNCHANGED <<joystick, hcall, reader, running, hconn, deviceVars, viewVars, early>>

\* A key the state has a place for: JsButtonIndex and JsAxisIndex of the joystick,
\* keycode_map of the keyboard.
Indexed(key) == key \in Known

Set(key, held) == state' = IF held THEN state \cup {key} ELSE state \ {key}

\* HandleEvent of each; a joystick knows no autorepeat.
JoystickHandles(key, value) == joystick /\ Set(key, value # 0)
KeyboardHandles(key, value) == ~joystick /\ Set(key, value # 0)

HandleEvent(key, value) ==
  IF Indexed(key)
  THEN (JoystickHandles(key, value) \/ KeyboardHandles(key, value)) /\ handled' = handled \cup {key}
  ELSE UNCHANGED <<state, handled>>

\* SYN_DROPPED: libevdev reads the keys again and replays what has changed
\* since its picture of them.
Replay ==
  LET changed == Known \cap ((seen \ down) \cup (down \ seen))
  IN  /\ state' = (state \ changed) \cup (down \cap changed)
      /\ handled' = handled \cup changed

\* DrainEvents: one event, or EAGAIN, or the replay and EAGAIN after it.
HidDrain ==
  /\ thread = "drain" /\ fd = "live"
  /\ CASE queue = <<>> -> thread' = "wait" /\ UNCHANGED <<viewVars, queue>>
       [] queue = Dropped ->
            thread' = "wait" /\ Replay /\ seen' = down /\ queue' = <<>>
       [] OTHER ->
            LET e == Head(queue)
            IN  /\ HandleEvent(e[1], e[2])
                /\ seen' = IF e[2] # 0 THEN seen \cup {e[1]} ELSE seen \ {e[1]}
                /\ thread' = thread /\ queue' = Tail(queue)
  /\ UNCHANGED <<joystick, hcall, reader, running, hconn, plugged, fd, down, early>>

\* ENODEV: open_ is cleared and the device is no longer watched.
HidGone ==
  /\ thread = "drain" /\ fd = "dead"
  /\ thread' = "gone" /\ reader' = "shut"
  /\ UNCHANGED <<joystick, hcall, running, hconn, deviceVars, viewVars, early>>

\* Mistake: connected_ is left as it is.
OnDisconnectNot == UNCHANGED hconn

\* The callback of the owner.
OnDisconnect == hconn' = FALSE

HidPark ==
  /\ thread = "gone"
  /\ thread' = "parked"
  /\ OnDisconnect
  /\ UNCHANGED <<joystick, hcall, reader, running, deviceVars, viewVars, early>>

\* Parked on the wake descriptor until Close().
HidLeave ==
  /\ thread = "parked" /\ ~running
  /\ thread' = "off"
  /\ UNCHANGED <<joystick, hcall, reader, running, hconn, deviceVars, viewVars, early>>

-----------------------------------------------------------------------------
(* External: the device and the kernel.                                      *)

Queued(event) ==
  queue' = IF fd # "live" \/ queue = Dropped THEN queue
           ELSE IF Len(queue) = Room THEN Dropped ELSE Append(queue, event)

DevicePress ==
  /\ plugged
  /\ \E k \in Keys :
       LET held == k \in down
       IN  /\ down' = IF held THEN down \ {k} ELSE down \cup {k}
           /\ Queued(<<k, IF held THEN 0 ELSE 1>>)
  /\ UNCHANGED <<joystick, hcall, readerVars, plugged, fd, viewVars, early>>

\* A keyboard repeats a key that is held.
DeviceRepeat ==
  /\ plugged /\ ~joystick
  /\ \E k \in down : Queued(<<k, 2>>)
  /\ UNCHANGED <<joystick, hcall, readerVars, plugged, fd, down, viewVars, early>>

Unplug ==
  /\ plugged
  /\ plugged' = FALSE /\ queue' = <<>>
  /\ fd' = IF fd = "live" THEN "dead" ELSE fd
  /\ UNCHANGED <<joystick, hcall, readerVars, down, viewVars, early>>

Replug ==
  /\ ~plugged
  /\ plugged' = TRUE
  /\ UNCHANGED <<joystick, hcall, readerVars, fd, down, queue, viewVars, early>>

HidOwner == HidReplaced \/ HidOpen \/ HidStore \/ HidDisconnected
HidThread == HidWait \/ HidDrain \/ HidGone \/ HidPark \/ HidLeave
HidDevice == DevicePress \/ DeviceRepeat \/ Unplug \/ Replug
HidNext == HidConnect \/ HidDisconnect \/ HidOwner \/ HidThread \/ HidDevice

\* The calls go on and so does the thread; once woken by Close() it drains at
\* most once more.  It reads faster than a hand moves: it finds EAGAIN.
HidFairness ==
  /\ WF_hidVars(HidOwner)
  /\ WF_hidVars(HidThread) /\ SF_hidVars(HidWait /\ thread' = "off")
  /\ []<>(queue = <<>>) /\ SF_hidVars(HidDrain /\ thread' = "wait")
HidSpec == HidInit /\ [][HidNext]_hidVars /\ HidFairness

-----------------------------------------------------------------------------
\* Health() is kOk, and Read() hands out the state, while connected_ holds: "an
\* idle joystick is still live".
HidReads == hconn

-----------------------------------------------------------------------------
(* Properties.                                                               *)

\* "Seed the initial state from the device so a Read() right after Connect()
\* reflects reality", and "our cached state re-converges": once the thread has
\* drained what there was, the joystick's state is the device's, and the
\* keyboard's is for every key it was told of, however many events were lost.
StateIsTheDevices ==
  fd = "live" /\ queue = <<>> /\ thread = "wait" =>
    \A k \in IF joystick THEN Known ELSE handled : k \in state <=> k \in down

\* "A hot-unplug drops connected_ via the reader", and every call of the owner
\* returns.  Left out: a loss noticed before Connect() has stored connected_.
HotUnplugNoticed ==
  LET unnoticed == fd = "dead" /\ HidReads /\ ~early
  IN  (hcall # "none" \/ unnoticed) ~> (hcall = "none" /\ ~unnoticed)
=============================================================================
