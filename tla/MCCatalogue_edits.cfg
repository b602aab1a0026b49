SPECIFICATION Spec
SYMMETRY MCSymmetry
CONSTRAINT MCScope
CHECK_DEADLOCK FALSE
CONSTANTS
    Reqs = {r1, r2}
    Restaurants = {a, b}
    Codes = {SAVE}
    Currencies = {pkr, usd}
    Prices = {100, 101}
    Amounts = {1, 101}
    Limits = {1}
    None = None
    Null = Null
    Gone = Gone
    MaxRows = 2
    MaxSessions = 2
INVARIANTS
    SubscribersKeepTheirPackage
    PaymentsAreHonoured
    PricesAreSane
    HistoryLostIsRecent
