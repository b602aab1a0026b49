SPECIFICATION FairSpec
CONSTANTS
    Items = {i1}
    Photos = {p1}
    Tasks = {t1, t2}
    Reqs = {r1}
    Cron = Cron
    Callers <- MCOwner
    Admins <- MCNobody
    OwnerOf <- MCOwnerOf
    DailyCap <- MCCapOwner
    Manual = Manual
    None = None
    MaxFaults = 1
    owner = owner
    admin = admin
INVARIANTS
    FilesBelongTogether
PROPERTIES
    DishPagePromise
    GenerationEnds
CHECK_DEADLOCK FALSE
