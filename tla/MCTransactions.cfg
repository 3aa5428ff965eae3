SPECIFICATION Spec
CONSTANTS
    Scopes = {root, child}
    Root = root
    Keys = {k1, k2}
    None = None
    Unread = Unread
    LockHeld = TRUE
    MaxEntries = 4
SYMMETRY Symmetry
INVARIANTS KeyedOnce AnswersStand OnlyTripsSurvive TripsOutliveTheirBlock SpendIsWhole
