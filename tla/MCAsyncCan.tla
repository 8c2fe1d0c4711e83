----------------------------- MODULE MCAsyncCan -----------------------------
(* A small AsyncCan for TLC. *)
EXTENDS AsyncCan
=============================================================================
