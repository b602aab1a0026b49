SPECIFICATION Spec
CONSTANTS
    Restaurants = {a}
    Packages = {p1}
    Refs = {o1, o2}
    StripeRefs <- MCNoStripe
    stripe1 = stripe1
    Handlers = {h1}
    Grace = 1
    MaxRedemptions = 0
    Redelivery = FALSE
    None = None
    MaxTime = 2
    MaxFaults = 0
SYMMETRY MCSymmetry
INVARIANTS
    ExpiredIsUnpaid
