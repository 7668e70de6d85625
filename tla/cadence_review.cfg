CONSTANTS
    NumSteps = 2
    Delay <- TwoDelays
    CallSteps = {}
    Review = TRUE
    CapDays = 2
    Controls = {"resume", "stop"}
    s1 = s1
    s2 = s2
    Session = {s1, s2}
    NoSession = NoSession
    MaxRequests = 3
    MaxAborts = 0
SPECIFICATION FairSpec
CHECK_DEADLOCK FALSE
INVARIANTS
    AwaitingIsCurrent
PROPERTIES
    ImplementsGate
    SessionsEnd
