SPECIFICATION Spec
CONSTANTS
    Items = {i1}
    Photos = {p1, p2}
    Tasks = {t1, t2, t3}
    Reqs = {r1, r2}
    Cron = Cron
    Callers <- MCCallers
    Admins <- MCAdmins
    OwnerOf <- MCOwnerOf
    DailyCap <- MCCapOne
    Manual = Manual
    None = None
    MaxFaults = 1
    owner = owner
    admin = admin
CONSTRAINT MCScope
SYMMETRY MCSymmetry
INVARIANTS
    PendingIsBlank
    GeneratingIsTracked
    CapOvershootIsBounded
PROPERTIES
    OneLiveLink
CHECK_DEADLOCK FALSE
