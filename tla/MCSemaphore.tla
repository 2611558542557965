---------------------------- MODULE MCSemaphore ----------------------------
(* Instances of Semaphore for TLC. *)
EXTENDS Semaphore, TLC

CONSTANTS a, b, c, idle

AppSymmetry == Permutations(Tasks \ {Idle})
=============================================================================
