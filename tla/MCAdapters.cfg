SPECIFICATION FairSpec
CONSTANTS
    Calls = {c1, c2}
    Mixes <- MixesOnce
    MaxOut = 3
    Faults = TRUE
    Closers = TRUE
INVARIANTS NoHoldLeftOpen ConsumedIsCharged StreamChargesWhatWasBilled
PROPERTIES CancelledCallEnds
CHECK_DEADLOCK FALSE
