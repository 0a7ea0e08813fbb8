SPECIFICATION MCSpec
CONSTANTS
    p1 = p1
    p2 = p2
    k1 = k1
    k2 = k2
    s1 = s1
    s2 = s2
    Procs <- MCProcs
    Commands = 2
    Offset <- MCOffset
    Latency = 1
    ValidFrom = 1
    StartDeadline = 1
    ValidThrough = 2
    Signings <- MCSignings
    MaxRecords = 7
    MaxTime = 3
    MaxTrust = 2
INVARIANTS
    LedgerOpens
    GrantsAreDurable
    RoomToFinish
    GrantsAreReviewed
PROPERTY ImplementsSequencer
SYMMETRY Symmetric
