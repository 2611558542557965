------------------------------ MODULE MCTimers ------------------------------
(* Instances of TimerDelays for TLC. *)
EXTENDS TimerDelays

CONSTANTS t1, t2
=============================================================================
