---------------------------- MODULE MCTaskKernel ----------------------------
(* Instances of TaskKernel for TLC. *)
EXTENDS TaskKernel

CONSTANTS a, b, idle
=============================================================================
