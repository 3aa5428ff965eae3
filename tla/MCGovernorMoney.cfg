CONSTANTS
    Scopes = {s1, s2, s3}
    HoldIds = {h1, h2}
    None = None
    Asks = {0, 1, 3}
    PARTS = 2
    MaxDepth = 2
    TripOnOverdraft = TRUE
    TripOnExhaustion = TRUE
    MaxCalls = 0
    Window = 0
    MaxTime = 0
    MaxFunded = 2
SYMMETRY Symmetry
SPECIFICATION Spec
INVARIANTS TypeOK Conservation CachesMatchHolds DelegationBound RefundsBounded
PROPERTIES HaltedSpendsNothingNew
