---------------------------- MODULE CounterCheck ----------------------------
(***************************************************************************)
(* The alive-counter validator of mobile_base_can/e2e.hpp: one per command *)
(* id, fed the 8-bit counter of every frame that passed its CRC.           *)
(***************************************************************************)
EXTENDS Integers

CONSTANTS
  CounterMod,   \* values of a counter: 256
  MaxDelta      \* largest jump that is still in order: 15

ASSUME CounterAssumption ==
  /\ CounterMod \in Nat
  /\ MaxDelta \in 1..(CounterMod - 1)

Counters == 0..(CounterMod - 1)
Checks == [have : BOOLEAN, last : Counters]
NoReference == [have |-> FALSE, last |-> 0]

Delta(ctr, counter) == (counter - ctr.last) % CounterMod

\* Mistake: only a repeated counter is refused.
ResultAnyJump(ctr, counter) ==
  IF ~ctr.have THEN "init"
  ELSE IF Delta(ctr, counter) = 0 THEN "stuck"
  ELSE "inOrder"

Result(ctr, counter) ==
  IF ~ctr.have THEN "init"
  ELSE IF Delta(ctr, counter) = 0 THEN "stuck"
  ELSE IF Delta(ctr, counter) > MaxDelta THEN "gap"
  ELSE "inOrder"

\* Mistake: a gap does not move the reference either.
UpdatedInOrder(ctr, counter) ==
  IF Result(ctr, counter) \in {"stuck", "gap"} THEN ctr
  ELSE [have |-> TRUE, last |-> counter]

\* A replay leaves the reference alone; a gap moves it, so the next frame is in
\* order again.
Updated(ctr, counter) ==
  IF Result(ctr, counter) = "stuck" THEN ctr ELSE [have |-> TRUE, last |-> counter]

Accepted(result) == result \in {"init", "inOrder"}
=============================================================================
