------------------------------ MODULE MCCadence ------------------------------
(* Instances of CadenceEnrollment for TLC. *)
EXTENDS CadenceEnrollment

CONSTANTS s1, s2

\* At once, after two days, after one day.
Delays == [k \in 0 .. 2 |-> IF k = 0 THEN 0 ELSE 3 - k]
TwoDelays == [k \in 0 .. 1 |-> k]
=============================================================================
