CONSTANTS
    Session = {s1, s2}
    NumHits = 4
    Junk <- FirstHit
    Unfit <- SecondHit
    Listed <- ListedThird
    MaxCandidates = 2
    Pool = 3
    Target = 1
    ExcludeCap = 1
    NumKeys = 2
    Budget = 2
    Threshold = 1
    MaxFaults = 4
SPECIFICATION FairSourcesSpec
INVARIANTS
    AskedAsNeeded
PROPERTIES
    BreakerHolds
    DiscoveryReachesAll
