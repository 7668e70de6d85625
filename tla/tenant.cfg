SPECIFICATION Spec
CONSTANTS
    Request = {q1, q2}
    Slug = {w1}
    MaxAttempts = 2
    MaxResends = 1
    MaxCodes = 2
    MaxGuesses = 2
    MaxCrashes = 1
    Member = {u1, u2}
    Editor = {e1, e2}
    MaxEdits = 4
    Admin = {d1, d2}
    MaxBoxes = 2
    MaxPasswords = 2
    MaxChanges = 3
    OAuth = {a1, a2}
    Rotating = {a1}
    Manual = {m1, m2}
    Sync = {j1, j2}
    MaxContacts = 2
    MaxTokens = 2
    MaxSyncs = 2
    MaxAborts = 1
    Job = {v1, v2}
    NumCandidates = 2
    Budget = 2
    FailThreshold = 1
    MaxRequests = 2
    MaxFailures = 1
    MaxMonths = 1
\* A component stops when its bounds are used up.
CHECK_DEADLOCK FALSE
INVARIANTS
    NewestCodeStands OwnerStays MailboxesAgree GraphHolds AddressesHold
SYMMETRY Alike
