SPECIFICATION MCSpec
CONSTANTS
    p1 = p1
    p2 = p2
    k1 = k1
    k2 = k2
    s1 = s1
    m1 = m1
    m2 = m2
    d1 = d1
    d2 = d2
    Procs <- MCProcs
    Keys <- MCKeys
    ServiceOf <- MCServiceOf
    ValidFrom <- MCValidFrom
    MayRotate <- MCKeys
    MayPublish <- MCKeys
    Quorum = 1
    Distinct = FALSE
    Payloads <- MCPayloads
    Sources <- MCSources
    Tables <- MCTables
    MaxPublications = 2
    MaxBundles = 3
SYMMETRY Symmetric
INVARIANTS
    HistoryOpens
    ForksAreFound
    ObjectsWereCurrent
PROPERTIES
    SignedUnderHead
