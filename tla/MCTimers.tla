------------------------------ MODULE MCTimers ------------------------------
(* Small instances of Timers.                                               *)
EXTENDS Timers

CONSTANTS c1, c2, c3, c4
=============================================================================
