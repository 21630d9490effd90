-------------------------------- MODULE Clock -------------------------------
(***************************************************************************)
(* The steady clock that alarms, the task runner and the packet router      *)
(* share: Clock::now(), which they are given as a ClockNowFunctionPtr.      *)
(***************************************************************************)
EXTENDS Integers

CONSTANT MaxTime  \* bound: the last time of the clock, for every later one too

VARIABLE now
=============================================================================
