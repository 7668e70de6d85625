CONSTANTS
    Target = {t1, t2}
    t1 = t1
    t2 = t2
    Drafts <- SomeDrafts
    SendRisky = FALSE
    Modes = {"none", "some"}
    Jobs = {"draft"}
    s1 = s1
    s2 = s2
    Session = {s1, s2}
    NoSession = NoSession
    MaxRequests = 3
    MaxTouches = 2
    MaxAborts = 1
SPECIFICATION FairSpec
CHECK_DEADLOCK FALSE
INVARIANTS
    OncePerTarget
    SaysTheTruth
PROPERTIES
    EndsForGood
