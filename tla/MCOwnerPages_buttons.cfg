SPECIFICATION Spec
CONSTANTS
    Dishes = {d1, d2}
    Codes = {c1, c2}
    Requests = {q1, q2}
    MaxPhotos = 2
    MaxBatch = 2
    Tours <- MCTours
    Starts <- MCStarts
    MaxOwned = 2
    None = None
    MaxClicks = 3
    MaxChanges = 1
SYMMETRY MCSymmetry
INVARIANTS
    OneRequestPerDish
    RefusedMeansStale
    MarkedForARequest
