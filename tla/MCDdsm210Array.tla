-------------------------- MODULE MCDdsm210Array --------------------------
(* Two motors and a stranger on the bus, for TLC. *)
EXTENDS Ddsm210Array

TwoMotors == <<1, 2>>
=============================================================================
