CONSTANTS
    NumSteps = 5
    Deps <- TwoRoots
    Gated = {3}
    Composer = 2
    s1 = s1
    s2 = s2
    Session = {s1, s2}
    NoSession = NoSession
    MaxAttempts = 2
    MaxRequests = 6
    MaxRacing = 4
    MaxAborts = 1
SPECIFICATION MCSpec
CHECK_DEADLOCK FALSE
INVARIANTS
    RunCanGoOn
    RestsBetweenSteps
PROPERTIES
    ImplementsGate
    Serially
    RequestsEnd
