------------------------------ MODULE MCMutex ------------------------------
(* Instances of Mutex for TLC. *)
EXTENDS Mutex, TLC

CONSTANTS a, b, c, idle

AppSymmetry == Permutations(App)
=============================================================================
