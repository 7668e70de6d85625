----------------------------- MODULE MCCampaign -----------------------------
(* Instances of CampaignSend for TLC. *)
EXTENDS CampaignSend

CONSTANTS s1, s2, t1, t2

Plain(v) == [grounded |-> TRUE, contact |-> TRUE, verdict |-> v,
             sourced |-> FALSE, confident |-> FALSE]

\* One draft for each branch of the send policy, and one that is not sendable.
SomeDrafts ==
    {Plain("valid"), Plain("risky"),
     [Plain("unknown") EXCEPT !.sourced = TRUE],
     [Plain("valid") EXCEPT !.grounded = FALSE]}
=============================================================================
