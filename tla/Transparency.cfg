SPECIFICATION MCSpec
CONSTANTS
    d1 = d1
    d2 = d2
    w1 = w1
    w2 = w2
    a1 = a1
    a2 = a2
    s1 = s1
    s2 = s2
    k1 = k1
    k2 = k2
    k3 = k3
    logService = logService
    Dirs <- MCOneDir
    Writers <- MCWriters
    Payloads = {1, 2}
    MaxRecords = 3
    Levels = 4
SYMMETRY Symmetry
INVARIANTS
    DirectoriesOpen
    AcknowledgedIsKept
    AuditsAreRight
