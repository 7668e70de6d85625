CONSTANTS
    Session = {w1, w2}
    Signal = {s1, s2}
    Strong = {s1, s2}
    Shared = {s2}
    Discovered = TRUE
    MaxTasks = 2
    MaxFailures = 1
    Domain = {d1, d2}
    CrmDomain = d1
    Person = {p1, p2}
    Persona = {p2}
    MaxRequests = 3
    Nobody = Nobody
    Job = {j1, j2}
    Interval = 2
    Horizon = 4
SPECIFICATION MCSpec
\* The book of accounts stops when its requests are used up.
CHECK_DEADLOCK FALSE
INVARIANTS
    OneUnitOfWork
    DigestsAgree
PROPERTIES
    RaisedOnceForAll
    BookHolds
