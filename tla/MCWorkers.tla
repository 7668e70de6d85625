----------------------------- MODULE MCWorkers -----------------------------
(* Instances of Workers for TLC. *)
EXTENDS Workers

CONSTANTS w1, w2, a1, a2
=============================================================================
