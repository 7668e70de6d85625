------------------------------ MODULE MCEngine ------------------------------
(* Instances of OrchestrationEngine for TLC. *)
EXTENDS OrchestrationEngine, TLC

CONSTANTS s1, s2, MaxRacing

ASSUME SerialAssumption == s1 \in Session

VARIABLE serial     \* requests come one at a time

\* 0 (research) -> 2 (compose) -> 3 (send) -> 4, with 1 (research of another source)
\* beside them.  research_account itself is 0, 2, 3: its scoring step is driven as
\* research is.
TwoRoots == (0 :> {}) @@ (1 :> {}) @@ (2 :> {0}) @@ (3 :> {2}) @@ (4 :> {3})

\* Each behaviour is of requests that come one at a time, of which there may be
\* MaxRequests, or of MaxRacing that race.
MCInit == Init /\ serial \in BOOLEAN

MCNext ==
    /\ \E s \in IF serial THEN {s1} ELSE Session : Arrive(s) \/ Proceed(s) \/ Abort(s)
    /\ serial \/ requests' <= MaxRacing
    /\ UNCHANGED serial

\* A step of a session can be taken by the run if the engine can take it: only
\* new requests are held back.
MCSpec ==
    /\ MCInit
    /\ [][MCNext]_<<vars, serial>>
    /\ \A s \in Session : WF_vars(Proceed(s))

\* One request at a time: what goes out is what was granted, a rejected gate has
\* sent nothing, and exactly what is downstream of a failure is skipped.
SerialOutcome == serial => SentAsGranted /\ RejectedNeverSent /\ SkippedExactlyDownstream

\* One request at a time: that, and what was decided, and what has ended, stays as it is.
Serially == [][SerialOutcome' /\ (serial => DecisionIsFinal /\ TerminalIsFinal)]_vars
=============================================================================
