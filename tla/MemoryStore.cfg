SPECIFICATION FairSpec
CONSTANTS
    p1 = p1
    p2 = p2
    m1 = m1
    m2 = m2
    m3 = m3
    Procs <- MCProcs
    Memories <- MCMemories
    Limits <- MCLimits
    OpenLimit <- MCOpenLimit
INVARIANTS
    StoreOpens
PROPERTIES
    CommitIsCompareAndSwap
    ImplementsChain
    LockReleased
