------------------------------ MODULE MCTimers ------------------------------
(* Timers for TLC, with the two kinds of functions that bnirc is given: the  *)
(* refresher of the ncurses driver, which adds itself again and is deleted   *)
(* when the driver goes, and the timed functions of scripts.                 *)
EXTENDS Timers

CONSTANTS refresher, script

MCFunc == {refresher, script}
MCDeleted == {refresher}
=============================================================================
