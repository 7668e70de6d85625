CONSTANTS
    w1 = w1
    w2 = w2
    r1 = r1
    Writer = {w1, w2}
    Reader = {r1}
    MaxSeq = 4
    MaxDrops = 2
SPECIFICATION FairSpec
CHECK_DEADLOCK FALSE
INVARIANTS
    LogHasNoGaps
    StreamIsLog
PROPERTIES
    OpenStreamDelivers
