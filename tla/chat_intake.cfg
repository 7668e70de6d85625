SPECIFICATION Spec
CONSTANTS
    Session = {s1, s2}
    Turn = {t1, t2}
    Text <- MCText
    Reading <- MCReading
    MaxTurns = 3
    MaxErrors = 1
CHECK_DEADLOCK FALSE
SYMMETRY Turns
INVARIANTS
    LogIsWhole
    ProfileIsWhatWasSaid
