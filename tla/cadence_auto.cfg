CONSTANTS
    NumSteps = 3
    Delay <- Delays
    CallSteps = {1}
    Review = FALSE
    CapDays = 4
    Controls = {"pause", "stop"}
    s1 = s1
    s2 = s2
    Session = {s1, s2}
    NoSession = NoSession
    MaxRequests = 3
    MaxAborts = 1
SPECIFICATION FairSpec
CHECK_DEADLOCK FALSE
INVARIANTS
    ClaimHolds
    EachStepOnceInOrder
    ReplyStops
PROPERTIES
    EndsForGood
