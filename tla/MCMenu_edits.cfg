SPECIFICATION Spec
SYMMETRY MCSymmetry
CONSTRAINT MCScope
CHECK_DEADLOCK FALSE
CONSTANTS
    Reqs = {r1, r2}
    Slugs = {s1, s2, s3}
    Names = {n1, n2}
    MaxOwned = 1
    MaxItems = 2
    MaxItemPhotos = 3
    None = None
    Gone = Gone
    MaxCategories = 1
    MaxDishes = 3
    MaxPhotos = 2
    MaxFaults = 1
INVARIANTS
    LimitsAreNearlyKept
    NamesakesAreBounded
    CategoriesAreSound
    PhotosFit
    AloneInOrder
