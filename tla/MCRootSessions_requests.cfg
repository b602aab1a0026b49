SPECIFICATION Spec
CONSTANTS
    Reqs = {h1, h2}
    Challenges = {c1, c2}
    Secrets = {s1}
    BackupCodes = {b1}
    MaxFailed = 2
    LockTime = 1
    StepLength = 1
    None = None
    MaxTime = 1
    MaxAttempts = 2
    MaxRows = 2
    MaxFaults = 1
SYMMETRY MCSymmetry
INVARIANTS
    OriginsAreUnique
    StepsAreUnique
    LimitLocks
PROPERTY
    LedgerPromise
