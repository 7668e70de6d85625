---------------------------- MODULE OutboundGate ----------------------------
(***************************************************************************)
(* What the orchestrator promises about outbound work: "a cold-outreach    *)
(* send" never goes out "unreviewed" (src/nexus/orchestration/engine.py,   *)
(* header).  A human asks for a gated step to be sent; from then on it may *)
(* be pushed, any number of times.  Nothing else is ever pushed.           *)
(***************************************************************************)
EXTENDS Naturals

CONSTANTS Steps, Gated

VARIABLES
    asked,     \* asked[i]: a human has asked for step i to be sent
    pushed     \* pushed[i]: how often step i was pushed to the outside

gateVars == <<asked, pushed>>

Init ==
    /\ asked = [i \in Steps |-> FALSE]
    /\ pushed = [i \in Steps |-> 0]

Ask(i) ==
    /\ i \in Gated
    /\ asked' = [asked EXCEPT ![i] = TRUE]
    /\ UNCHANGED pushed

Push(i) ==
    /\ i \in Gated
    /\ asked[i]
    /\ pushed' = [pushed EXCEPT ![i] = @ + 1]
    /\ UNCHANGED asked

Next == \E i \in Steps : Ask(i) \/ Push(i)

Spec == Init /\ [][Next]_gateVars
=============================================================================
