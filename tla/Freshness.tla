----------------------------- MODULE Freshness -----------------------------
(***************************************************************************)
(* What the drivers make of a FreshnessMonitor (freshness.hpp).  An age is *)
(* counted in ticks of the clock; past the window it is not told apart     *)
(* from that of a monitor that was never marked, or was Reset.             *)
(***************************************************************************)
EXTENDS Integers

IsFresh(age, window) == age <= window

\* A driver raises this to a fault when its device reports one.
HealthFromFreshness(connected, age, window) ==
  IF ~connected THEN "disconnected" ELSE IF IsFresh(age, window) THEN "ok" ELSE "degraded"

\* The answer of Read(), GetSpeed(), GetState(): only fresh data are handed out.
ReadStatus(connected, age, window) ==
  IF ~connected THEN "not_connected" ELSE IF IsFresh(age, window) THEN "ok" ELSE "timeout"
=============================================================================
