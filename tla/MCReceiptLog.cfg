SPECIFICATION Spec
CONSTANTS
    Callers = {p, q}
    Ids = {a, b, d}
    Deliveries = {d}
    Keys = {k1, k2}
    FirstKey = k1
    Outside = out
    EveryReceipts = 2
    MaxCalls = 3
    MaxRotations = 1
    MaxPublished = 2
    MaxFaults = 2
    TreeEmptyRoot <- MCEmptyRoot
    TreeLeafHash <- MCLeafHash
    TreeRoot <- MCRoot
    TreeInclusionProof <- MCInclusionProof
    TreeVerifyInclusion <- MCVerifyInclusion
    TreeConsistencyProof <- MCConsistencyProof
    TreeVerifyConsistency <- MCVerifyConsistency
SYMMETRY Alike
INVARIANTS IssuedStays Reopens BundlesVerify NobodyStranded
CHECK_DEADLOCK FALSE
