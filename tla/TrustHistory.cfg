SPECIFICATION MCSpec
CONSTANTS
    p1 = p1
    p2 = p2
    k1 = k1
    k2 = k2
    k3 = k3
    s1 = s1
    s2 = s2
    Procs <- MCProcs
    Keys <- MCKeys
    ServiceOf <- MCServiceOf
    ValidFrom <- MCValidFrom
    MayRotate <- MCMayRotate
    Quorum = 2
    Distinct = TRUE
    Roots <- MCRoots
    Tables <- MCTables
    MaxLength = 3
    MaxBundles = 3
INVARIANTS
    HistoryReplays
    NeverForks
    TrustOnlyShrinks
    ReadyIsRecent
SYMMETRY Symmetric
