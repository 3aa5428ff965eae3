SPECIFICATION Spec
CONSTANTS
    Governors = {g1, g2}
    Keys = {k}
    None = None
    ClaimIds = {c1}
    ClaimAmounts = {0, 1}
    Budget = 1
    MaxEntries = 4
    MaxUnit = 1
    MaxFailovers = 1
SYMMETRY Symmetry
INVARIANTS ClaimsBookedOnce NoFalseAlarm ServedIsCommitted
PROPERTY SerialLedger
