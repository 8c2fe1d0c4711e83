------------------------------ MODULE Ddsm210 ------------------------------
(***************************************************************************)
(* One DDSM210 wheel motor on a serial port: ddsm_210.cpp.  Its handshakes *)
(* block the caller and look at what the I/O thread has stored meanwhile.  *)
(* Frames are taken whole: how ProcessFeedback cuts them out of the ring   *)
(* is FrameScan's subject, and a damaged frame is one that is lost.        *)
(***************************************************************************)
EXTENDS Freshness, Sequences

CONSTANTS
  MotorIds,      \* ids the motor may have
  Turns,         \* turns of a handshake's loops (10 to ask, 5 to send, in the code)
  WheelFresh,    \* the freshness window, in ticks of the clock
  MaxWire,       \* model bound: frames on their way, one direction
  MaxOpens       \* model bound: times the port is opened

WheelModes == {"openloop", "speed"}      \* a third one, position, is left out

ASSUME Ddsm210Assumption == Turns \in Nat \ {0} /\ WheelFresh \in Nat /\ MaxWire \in Nat

VARIABLES
  wport,     \* the serial port is open
  wconn,     \* connected_
  wid,       \* cfg_.id
  wack,      \* id_set_ack_received_
  wmode,     \* the mode byte of raw_feedback_, 0 (kOpenLoop) before any arrives
  wage,      \* freshness_, WheelFresh + 1 once it is too old
  wcall,     \* the call under way
  wline,      \* external: frames on their way to the motor
  wair,      \* external: feedback on its way back
  wheel,     \* external: id and mode of the motor
  wopens,    \* history: times the port was opened
  wspoke,    \* history: the motor answered in this session
  wsaid,     \* history: modes it reported since the last SetMode() began
  wanswer    \* history: what the last handshake asked for, once it was answered kOk

cfgVars == <<wid, wack>>
fbVars == <<wmode, wage>>
motorVars == <<wline, wair, wheel, wspoke, wsaid>>
wheelVars == <<wport, wconn, cfgVars, fbVars, wcall, motorVars, wopens, wanswer>>

None == <<"none">>
All == 0        \* the address of every motor, 0xaa
WheelOps == {<<"speed">>, <<"ask">>} \cup ({"mode"} \X WheelModes) \cup ({"id"} \X MotorIds)
WheelFrames == [id : MotorIds \cup {All}, op : WheelOps]

\* A handshake is a turn of its loop: what it asks for, and how often it has asked.
WheelCalls ==
  {None, <<"opened">>, <<"close">>}
  \cup ({"ask", "look"} \X WheelModes \X (1..Turns)) \cup ({"setid", "wait"} \X MotorIds \X (0..Turns))

WheelTypeOK ==
  /\ wport \in BOOLEAN /\ wconn \in BOOLEAN /\ wack \in BOOLEAN /\ wspoke \in BOOLEAN
  /\ wid \in MotorIds /\ wmode \in WheelModes /\ wage \in 0..(WheelFresh + 1)
  /\ wline \in Seq(WheelFrames) /\ Len(wline) <= MaxWire /\ Len(wair) <= MaxWire
  /\ wheel \in [id : MotorIds, mode : WheelModes]
  /\ wcall \in WheelCalls

WheelInit ==
  /\ wport = FALSE /\ wconn = FALSE /\ wcall = None
  /\ wid \in MotorIds /\ wack = FALSE
  /\ wmode = "openloop" /\ wage = WheelFresh + 1
  /\ wline = <<>> /\ wair = <<>>
  /\ wheel \in [id : {wid}, mode : WheelModes]
  /\ wopens = 0 /\ wspoke = FALSE /\ wsaid = {} /\ wanswer = None

WheelConnected == wconn /\ wport
Calm == wcall = None /\ WheelConnected
Stored == wport /\ Len(wline) < MaxWire

\* SendFrame: the port takes the frame, or refuses it and the call fails.
WheelSend(id, op) == wline' = IF Stored THEN Append(wline, [id |-> id, op |-> op]) ELSE wline

-----------------------------------------------------------------------------
(* The caller's thread.                                                      *)

WheelReset == wage' = WheelFresh + 1

\* Connect(): Open() first, then the monitor and connected_.
WheelOpen ==
  /\ wcall = None /\ ~wconn /\ ~wport /\ wopens < MaxOpens
  /\ wport' = TRUE /\ wcall' = <<"opened">>
  /\ wopens' = wopens + 1
  /\ wspoke' = FALSE
  /\ UNCHANGED <<wconn, cfgVars, fbVars, wline, wair, wheel, wsaid, wanswer>>

WheelConnect ==
  /\ wcall = <<"opened">>
  /\ WheelReset
  /\ wconn' = TRUE /\ wcall' = None
  /\ UNCHANGED <<wport, cfgVars, wmode, motorVars, wopens, wanswer>>

\* SetSpeed, SetPosition, Stop; RequestOdometryFeedback, RequestModeFeedback.
WheelCommand ==
  /\ Calm
  /\ \E op \in {"speed", "ask"} : WheelSend(wid, <<op>>)
  /\ UNCHANGED <<wport, wconn, cfgVars, fbVars, wcall, wair, wheel, wspoke, wsaid, wopens, wanswer>>

\* Disconnect(): Stop() if the port still takes it, then Close().
WheelDisconnect ==
  /\ wcall = None /\ wconn
  /\ IF wport THEN WheelSend(wid, <<"speed">>) ELSE UNCHANGED wline
  /\ wcall' = <<"close">>
  /\ UNCHANGED <<wport, wconn, cfgVars, fbVars, wair, wheel, wspoke, wsaid, wopens, wanswer>>

WheelClose ==
  /\ wcall = <<"close">>
  /\ wport' = FALSE /\ wline' = <<>> /\ wair' = <<>>
  /\ wconn' = FALSE /\ wcall' = None
  /\ WheelReset
  /\ UNCHANGED <<cfgVars, wmode, wheel, wspoke, wsaid, wopens, wanswer>>

\* SetMode(): the command, and then up to ten times: ask, sleep, look.
SetMode ==
  /\ Calm /\ Stored
  /\ \E m \in WheelModes :
       /\ WheelSend(wid, <<"mode", m>>)
       /\ wcall' = <<"ask", m, 1>>
  /\ wsaid' = {} /\ wanswer' = None
  /\ UNCHANGED <<wport, wconn, cfgVars, fbVars, wair, wheel, wspoke, wopens>>

SetModeAsk ==
  /\ wcall[1] = "ask"
  /\ IF wconn THEN WheelSend(wid, <<"ask">>) ELSE UNCHANGED wline
  /\ wcall' = [wcall EXCEPT ![1] = "look"]
  /\ UNCHANGED <<wport, wconn, cfgVars, fbVars, wair, wheel, wspoke, wsaid, wopens, wanswer>>

\* Mistake: the loop does not count its turns.
AgainAlways(next) == next

\* One turn more, or kTimeout.
Again(next) == IF wcall[3] < Turns THEN [next EXCEPT ![3] = @ + 1] ELSE None

SetModeLook ==
  /\ wcall[1] = "look"
  /\ IF wmode = wcall[2]
     THEN wcall' = None /\ wanswer' = <<"mode", wmode>>
     ELSE wcall' = Again([wcall EXCEPT ![1] = "ask"]) /\ UNCHANGED wanswer
  /\ UNCHANGED <<wport, wconn, cfgVars, fbVars, motorVars, wopens>>

\* SetMotorId(): the flag is cleared, and only then is the new id in use.
SetMotorId ==
  /\ Calm
  /\ \E i \in MotorIds : wcall' = <<"setid", i, 0>>
  /\ wack' = FALSE /\ wanswer' = None
  /\ UNCHANGED <<wport, wconn, wid, fbVars, motorVars, wopens>>

\* The frame is sent to every motor, several times; a refused one ends the call.
SetMotorIdSend ==
  /\ wcall[1] = "setid"
  /\ wid' = wcall[2]
  /\ WheelSend(All, <<"id", wcall[2]>>)
  /\ wcall' = IF ~Stored THEN None
              ELSE IF wcall[3] + 1 < Turns THEN [wcall EXCEPT ![3] = @ + 1]
              ELSE <<"wait", wcall[2], 1>>
  /\ UNCHANGED <<wport, wconn, wack, fbVars, wair, wheel, wspoke, wsaid, wopens, wanswer>>

SetMotorIdLook ==
  /\ wcall[1] = "wait"
  /\ IF wack THEN wcall' = None /\ wanswer' = <<"id", wcall[2]>>
     ELSE wcall' = Again(wcall) /\ UNCHANGED wanswer
  /\ UNCHANGED <<wport, wconn, cfgVars, fbVars, motorVars, wopens>>

-----------------------------------------------------------------------------
(* The I/O thread, the motor (external) and the clock.                       *)

\* ProcessFeedback: a frame with another id is no frame of ours.
WheelFeedback ==
  /\ wport /\ wair # <<>>
  /\ wair' = Tail(wair)
  /\ LET f == Head(wair)
     IN  IF f.id # wid THEN UNCHANGED <<wack, wmode, wage>>
         ELSE /\ wage' = 0
              /\ wack' = (wack \/ f.says = "speed")
              /\ wmode' = IF f.says \in WheelModes THEN f.says ELSE wmode
  /\ UNCHANGED <<wport, wconn, wid, wcall, wline, wheel, wspoke, wsaid, wopens, wanswer>>

\* The port closes itself and calls the error callback.
WheelFault ==
  /\ wport
  /\ wport' = FALSE /\ wline' = <<>> /\ wair' = <<>>
  /\ wconn' = FALSE
  /\ UNCHANGED <<cfgVars, fbVars, wcall, wheel, wspoke, wsaid, wopens, wanswer>>

\* The motor takes a frame that is for it and answers; either may be lost.  A
\* switch of the mode is answered by a frame that nothing here looks at.
WheelTurns ==
  /\ wline # <<>>
  /\ wline' = Tail(wline)
  /\ LET f == Head(wline)
         w == CASE f.op[1] = "id"   -> [wheel EXCEPT !.id = f.op[2]]
                [] f.op[1] = "mode" -> [wheel EXCEPT !.mode = f.op[2]]
                [] OTHER            -> wheel
         r == CASE f.op[1] = "ask"  -> w.mode
                [] f.op[1] = "mode" -> "switched"
                [] OTHER            -> "speed"
     IN  \/ UNCHANGED <<wheel, wair, wspoke, wsaid>>
         \/ f.id \in {wheel.id, All} /\ wheel' = w /\ UNCHANGED <<wair, wspoke, wsaid>>
         \/ /\ f.id \in {wheel.id, All} /\ Len(wair) < MaxWire
            /\ wheel' = w
            /\ wair' = Append(wair, [id |-> w.id, says |-> r])
            /\ wspoke' = TRUE
            /\ wsaid' = wsaid \cup ({r} \cap WheelModes)
  /\ UNCHANGED <<wport, wconn, cfgVars, fbVars, wcall, wopens, wanswer>>

WheelTick ==
  /\ wage <= WheelFresh
  /\ wage' = wage + 1
  /\ UNCHANGED <<wport, wconn, cfgVars, wmode, wcall, motorVars, wopens, wanswer>>

WheelCaller == WheelConnect \/ WheelClose \/ SetModeAsk \/ SetModeLook \/ SetMotorIdSend
               \/ SetMotorIdLook
WheelNext ==
  \/ WheelOpen \/ WheelCommand \/ WheelDisconnect \/ SetMode \/ SetMotorId \/ WheelCaller
  \/ WheelFeedback \/ WheelFault \/ WheelTurns \/ WheelTick

\* The caller's sleeps end.
WheelFairness == WF_wheelVars(WheelCaller)
WheelSpec == WheelInit /\ [][WheelNext]_wheelVars /\ WheelFairness

-----------------------------------------------------------------------------
(* Properties.                                                               *)

\* Health(); the error code of the motor, which makes a fault of kOk, is left out.
WheelHealth == HealthFromFreshness(WheelConnected, wage, WheelFresh)

\* Health() is kOk only if the motor answered in this session.
NoSilentWheel == WheelHealth = "ok" => wspoke

\* The handshakes, Connect() and Disconnect() are bounded: each one returns,
\* whatever the motor, the line and the port do.
HandshakeReturns == (wcall # None) ~> (wcall = None)

\* "Config-time handshake: bounded blocking poll for confirmation." (SetMode):
\* it is answered kOk only if the motor reported the mode since it was asked.
ModeConfirmed == wanswer[1] = "mode" => wanswer[2] \in wsaid

\* "then acknowledges on the 0x64 reply" (SetMotorId): it is answered kOk only
\* if the motor took the new id.
IdConfirmed == wanswer[1] = "id" /\ wcall = None => wheel.id = wid
=============================================================================
