CONSTANTS
    Worker = {w1, w2}
    Signal = {s1}
    Company = {c1, c2, c3}
    None = None
    MaxFailures = 1
SPECIFICATION FairCrmSpec
INVARIANTS
    SyncedIsTrue
    OneCompany
PROPERTIES
    DueIsSynced
