SPECIFICATION FairAuditSpec
CONSTANTS
    Auditors = {own, beside}
    InProcess = own
    None = None
    MaxLength = 3
    MaxDamage = 1
    MaxMarks = 3
INVARIANT VerifiedWasReplayed
PROPERTY DamageIsFound
CHECK_DEADLOCK FALSE
