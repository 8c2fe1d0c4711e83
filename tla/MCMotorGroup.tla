---------------------------- MODULE MCMotorGroup ----------------------------
\* Two AKELC motors on one line, for TLC.
EXTENDS MotorGroup

TwoMotors == <<"left", "right">>
=============================================================================
