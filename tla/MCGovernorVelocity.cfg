CONSTANTS
    Scopes = {s1, s2}
    HoldIds = {h1}
    None = None
    Asks = {1, 2}
    PARTS = 1
    MaxDepth = 1
    TripOnOverdraft = FALSE
    TripOnExhaustion = FALSE
    MaxCalls = 2
    Window = 1
    MaxTime = 2
    MaxFunded = 1
SYMMETRY Symmetry
SPECIFICATION Spec
INVARIANTS RunawayLatched
PROPERTIES OverdrawLatches
