SPECIFICATION Spec
CONSTANTS
    Restaurants = {a, b}
    Packages = {p1}
    Refs = {o1, o2}
    StripeRefs <- MCNoStripe
    stripe1 = stripe1
    Handlers = {h1, h2}
    Grace = 1
    MaxRedemptions = 1
    Redelivery = TRUE
    None = None
    MaxTime = 0
    MaxFaults = 0
SYMMETRY MCSymmetry
INVARIANTS
    BackedByOwnPayment
    RowsAreBounded
    PromoOvershootIsBounded
