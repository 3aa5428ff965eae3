SPECIFICATION Spec
CONSTANTS
    Scopes = {r, c}
    Root = r
    None = None
    Amounts = {1}
    MaxOld = 4
    MaxPosts = 2
    Stores = {TRUE, FALSE}
    Workloads <- MCWorkloads
INVARIANTS
    WritesReplay
    StateIsReplay
    CachesAreImplied
    SnapshotsOfTheChain
CHECK_DEADLOCK FALSE
