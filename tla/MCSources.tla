----------------------------- MODULE MCSources -----------------------------
(***************************************************************************)
(* Instances of DataSources for TLC and for Workers_proofs: constants and  *)
(* variables have names that Workers and MCCRMSync do not have.            *)
(***************************************************************************)
EXTENDS Naturals, Sequences

CONSTANTS
    Session, NumHits, Junk, Unfit, Listed, MaxCandidates, Pool, Target, ExcludeCap, NumKeys, Budget,
    Threshold, MaxFaults

VARIABLES
    calls, failed, open, cache, keyIdx, tracked, stage, query, pos, got, known, key, attempts, pauses,
    tried, rotated, lookups, overlapped, faults

Src == INSTANCE DataSources WITH pc <- stage, failures <- faults, MaxFailures <- MaxFaults

ASSUME ListAssumption ==
    /\ NumHits \in Nat
    /\ Junk \subseteq Src!Hit /\ Unfit \subseteq Src!Company
    /\ Listed \in Seq(Src!Company) /\ Len(Listed) <= NumHits
ASSUME LimitAssumption ==
    /\ {MaxCandidates, Pool, Target, NumKeys, Budget, Threshold} \subseteq Nat \ {0}
    /\ ExcludeCap \in Nat /\ MaxFaults \in Nat

sources == <<calls, failed, open, cache, keyIdx, tracked, stage, query, pos, got, known, key, attempts,
             pauses, tried, rotated, lookups, overlapped, faults>>

SourcesSpec == Src!Init /\ [][Src!Next]_sources

\* The fairness of FairSpec.
FairSourcesSpec ==
    /\ SourcesSpec
    /\ SF_sources(\E s \in Session : Src!AutoStart(s))
    /\ \A s \in Session : WF_sources(Src!Step(s))

\* The network is asked as often as need be (DataSources).
AskedAsNeeded == Src!AskedAsNeeded

\* A breaker stays open for the rest of the process (DataSources).
BreakerHolds == [][Src!BreakerKept]_sources

\* Daily discovery does not dry up (DataSources).
DiscoveryReachesAll == Src!DiscoveryReachesAll

\* The first hit is no company, the second a company that may be rejected; the first source
\* lists the third only.
FirstHit == {1}
SecondHit == {2}
ListedThird == <<3>>
=============================================================================
