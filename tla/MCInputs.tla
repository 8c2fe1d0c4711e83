------------------------------ MODULE MCInputs ------------------------------
\* The input drivers for TLC: a behaviour is one of an SBUS receiver, of a HiPNUC
\* IMU, of an evdev joystick or keyboard, or of one frame of the first two.
EXTENDS SbusReceiver, ImuHipnuc, Hid, InputFrames

VARIABLE which

HidRests == HidInit /\ joystick /\ down = {}
SbusRests == Init /\ pos = 0
NoFrame == meant = [make |-> "none"] /\ arrived = <<>> /\ broken = FALSE
FewFlips == {{0}, {3, 4}}
\* One frame that carries one field, one that carries both, and one that is refused
\* after the first.
ImuPayloads == {<<"gyr">>, <<"acc", "gyr">>, <<"acc", "cut">>}

MCInit ==
  /\ which \in {"sbus", "imu", "hid", "frames"}
  /\ IF which = "sbus" THEN Init ELSE SbusRests
  /\ ImuInit
  /\ IF which = "hid" THEN HidInit ELSE HidRests
  /\ IF which = "frames" THEN InputFramesInit ELSE NoFrame

MCNext ==
  /\ UNCHANGED which
  /\ IF which = "sbus" THEN Next ELSE UNCHANGED vars
  /\ IF which = "imu" THEN ImuNext ELSE UNCHANGED imuVars
  /\ IF which = "hid" THEN HidNext ELSE UNCHANGED hidVars
  /\ IF which = "frames" THEN InputFramesNext ELSE UNCHANGED inputFrameVars

\* The fairness of FairSpec and of HidSpec, each in its own behaviours.
MCFairness ==
  /\ WF_vars(which = "sbus" /\ Tick)
  /\ WF_vars(which = "sbus" /\ WatchdogLooks) /\ WF_vars(which = "sbus" /\ EmitFailsafe)
  /\ WF_vars(which = "sbus" /\ Publish) /\ WF_vars(which = "sbus" /\ FireCallback)
  /\ WF_vars(which = "sbus" /\ ErrorCallback)
  /\ WF_hidVars(which = "hid" /\ HidOwner)
  /\ WF_hidVars(which = "hid" /\ HidThread)
  /\ SF_hidVars(which = "hid" /\ HidWait /\ thread' = "off")
  /\ []<>(queue = <<>>) /\ SF_hidVars(which = "hid" /\ HidDrain /\ thread' = "wait")

MCSpec == MCInit /\ [][MCNext]_<<which, vars, imuVars, hidVars, inputFrameVars>> /\ MCFairness

-----------------------------------------------------------------------------
\* The types of each driver, and the bounds of its buffer.
InputsTypeOK == TypeOK /\ ImuTypeOK /\ HidTypeOK

\* What a caller reads is the device's: every field of an IMU's sample was
\* carried by an intact frame of this session, the last that did, and the state of an evdev device is the device's once drained.
ReadingsAreTrue == ImuSampleOfSession /\ StateIsTheDevices

\* A frame that is taken means what the device put into it.
FramesAreMeant == which = "frames" => InputFramesMeant
=============================================================================
