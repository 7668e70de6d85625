--------------------------- MODULE MCIdempotency ---------------------------
(***************************************************************************)
(* Instances of Idempotency for TLC and for Requests_proofs: the variables *)
(* have names that ChatIntake does not have.                               *)
(***************************************************************************)
EXTENDS Naturals

CONSTANTS Request, NoRequest, Backends, TTL, MaxDeaths

ASSUME RequestAssumption == NoRequest \notin Request
ASSUME BackendAssumption == Backends \subseteq {"memory", "redis"}
ASSUME BoundAssumption == TTL \in Nat \ {0} /\ MaxDeaths \in Nat

VARIABLES backend, entry, at, worked, cacheable, answer, forgotten, deaths

Key == INSTANCE Idempotency WITH pc <- at

requests == <<backend, entry, at, worked, cacheable, answer, forgotten, deaths>>

KeySpec == Key!Init /\ [][Key!Next]_requests

\* The fairness of FairSpec.
FairKeySpec ==
    KeySpec /\ WF_requests(Key!Tick) /\ \A r \in Request : WF_requests(Key!Proceed(r))

\* One key, one result (Idempotency).
OneResult == Key!OneResult

\* A key whose request died can be used again some day (Idempotency).
KeyComesFree == Key!KeyComesFree

CONSTANTS r1, r2, r3
=============================================================================
