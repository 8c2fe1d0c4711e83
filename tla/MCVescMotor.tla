---------------------------- MODULE MCVescMotor ----------------------------
(* A small VescMotor for TLC. *)
EXTENDS VescMotor

Asked == {<<"speed", 2>>, <<"current", -2>>, <<"brake", 1>>, <<"brake", 2>>}
=============================================================================
