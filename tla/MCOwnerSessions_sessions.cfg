SPECIFICATION Spec
SYMMETRY MCSymmetry
CHECK_DEADLOCK FALSE
CONSTANTS
    Reqs = {r1, r2}
    Tabs = {t1}
    Links = {l1}
    MaxFailed = 2
    LockTime = 1
    LinkTime = 0
    RefreshTime = 0
    None = None
    MaxTime = 1
    MaxAttempts = 3
    MaxRows = 2
    MaxFaults = 1
INVARIANTS
    RevokedFirst
    SurvivorsAreBounded
    GuessesAreBounded
    NobodyIsTurnedOut
PROPERTY
    LedgerPromise
