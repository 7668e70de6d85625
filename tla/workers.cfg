CONSTANTS
    w1 = w1
    w2 = w2
    Process = {w1, w2}
    Nobody = Nobody
    a1 = a1
    a2 = a2
    Account = {a1, a2}
    Drivers = {"refresh", "discover"}
    Interval = 2
    Batch = 1
    MaxQueue = 1
    MaxLosses = 1
SPECIFICATION FairSpec
INVARIANTS
    StampHasJob
    SearchAlone
PROPERTIES
    ScheduleGoesOn
