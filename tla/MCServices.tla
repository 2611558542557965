----------------------------- MODULE MCServices -----------------------------
(* Instances of Services for TLC. *)
EXTENDS Services

CONSTANTS t1, t2, w1, w2, w3, c1, c2
=============================================================================
