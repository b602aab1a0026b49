SPECIFICATION FairSpec
CONSTANTS
    Restaurants = {a}
    Packages = {p1}
    Refs = {stripe1}
    StripeRefs <- MCStripe
    stripe1 = stripe1
    Handlers = {h1}
    Grace = 1
    MaxRedemptions = 0
    Redelivery = FALSE
    None = None
    MaxTime = 2
    MaxFaults = 1
PROPERTIES
    GraceEnds
    PaymentActivates
INVARIANTS
    GateNeedsGrace
