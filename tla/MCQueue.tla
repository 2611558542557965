------------------------------- MODULE MCQueue -------------------------------
(* Instances of Queue for TLC. *)
EXTENDS Queue, TLC

CONSTANTS a, b, idle, isr, x, y, none

QueueSymmetry == Permutations(Tasks \ {Idle}) \cup Permutations(Items)
=============================================================================
