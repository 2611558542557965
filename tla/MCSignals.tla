----------------------------- MODULE MCSignals -----------------------------
(* Instances of Signals for TLC. *)
EXTENDS Signals, TLC

CONSTANTS a, b, c, idle, x, y

\* One event, kept or consumed; either of two, kept; both, consumed.
TypicalRequests ==
    {w \in Wants : w.bits # {} /\ IF Cardinality(w.bits) = 1 THEN ~w.all
                                  ELSE w.all = w.clear}

Symmetry == Permutations(Tasks \ {Idle}) \cup Permutations(Bits)
=============================================================================
