SPECIFICATION FairSpec
CONSTANTS
    Requests = {r1, r2, r3}
    None = None
    BATCH = 2
INVARIANTS AnswersMatchLedger SectionUndisturbed
PROPERTY EveryCallAnswered
CHECK_DEADLOCK FALSE
