----------------------------- MODULE MCEventLog -----------------------------
(* Instances of EventLog for TLC. *)
EXTENDS EventLog

CONSTANTS w1, w2, r1
=============================================================================
