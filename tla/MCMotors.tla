------------------------------ MODULE MCMotors ------------------------------
\* The motor drivers for TLC: a behaviour is one of a VESC, of SMS/STS servos, of
\* a DDSM210, of a group of AKELC motors, or of one frame of the first three.
EXTENDS VescMotor, SmsSts, Ddsm210, MCMotorGroup, MotorFrames

VARIABLE which

VescRequests == {<<"speed", -2>>, <<"brake", 2>>}
OneOrTwo == {<<1>>, <<1, 2>>}
WireAmounts == {-2000000000, -40000, -7, 0, 300, 40000}
WireDamage == {{0}, {7}}

ServoRests == ServoInit /\ chain = <<1>> /\ array
WheelRests == WheelInit /\ wid = 1 /\ wheel.mode = "speed"
FramesRest == shipped = [make |-> "none", op |-> "none", id |-> 1, command |-> FALSE]
              /\ onwire = "none" /\ bad = FALSE

MCInit ==
  /\ which \in {"vesc", "servo", "wheel", "group", "frames"}
  /\ Init
  /\ IF which = "servo" THEN ServoInit ELSE ServoRests
  /\ IF which = "wheel" THEN WheelInit ELSE WheelRests
  /\ GroupInit
  /\ IF which = "frames" THEN FramesInit ELSE FramesRest

MCNext ==
  /\ UNCHANGED which
  /\ IF which = "vesc" THEN Next ELSE UNCHANGED vars
  /\ IF which = "servo" THEN ServoNext ELSE UNCHANGED servoVars
  /\ IF which = "wheel" THEN WheelNext ELSE UNCHANGED wheelVars
  /\ IF which = "group" THEN GroupSteps ELSE UNCHANGED groupVars
  /\ IF which = "frames" THEN FramesNext ELSE UNCHANGED framesVars

\* The fairness of each driver, in its own behaviours.
MCFairness ==
  /\ WF_vars(which = "vesc" /\ Transmit)
  /\ WF_servoVars(which = "servo" /\ ServoOwner) /\ WF_servoVars(which = "servo" /\ ServoPoller)
  /\ WF_wheelVars(which = "wheel" /\ WheelCaller)

MCSpec ==
  /\ MCInit
  /\ [][MCNext]_<<which, vars, servoVars, wheelVars, groupVars, framesVars>>
  /\ MCFairness

-----------------------------------------------------------------------------
(* Properties of several drivers under one name.                             *)

\* The types of each driver.
MotorsTypeOK == TypeOK /\ ServoTypeOK /\ WheelTypeOK /\ GroupTypeOK

\* Health() tells the truth: a fault that was reported shows, and kOk means that
\* the device itself was heard in this session (freshness.hpp, Health() of each). Of
\* the servos those are left out for whose reply a late one was taken, see NoSilentServo.
HealthIsTrue == FaultStaysVisible /\ OkIsFresh /\ NoSilentServo /\ NoSilentWheel

\* What was asked is what the motors get: the VESC's last word is what it was last
\* told, and a Stop() of several motors that was answered kOk stops them all, but for the
\* servos for whose reply a late one was taken in this session.
MotorsObey == Obeys /\ StopHalts /\ GroupStopHalts

\* A frame means what it was made for, in the drivers' codecs.
MotorFramesMean == which = "frames" => FramesMeanTheCommand

\* Handshakes and calls that join a thread return.
CallsReturn == DisconnectReturns /\ HandshakeReturns
=============================================================================
