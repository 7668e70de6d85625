CONSTANTS
    r1 = r1
    r2 = r2
    r3 = r3
    Request = {r1, r2, r3}
    NoRequest = NoRequest
    Backends = {"memory", "redis"}
    TTL = 2
    MaxDeaths = 2
SPECIFICATION FairKeySpec
CHECK_DEADLOCK FALSE
INVARIANTS
    OneResult
PROPERTIES
    KeyComesFree
