SPECIFICATION Spec
CONSTANTS
    Procs = {p1, p2}
    Scenes = {s1, s2}
    MaxLength = 2
    SharedLength = 2
    MaxVersions = 3
    Crashes = TRUE
INVARIANTS
    UpdateIsAtomic
CHECK_DEADLOCK FALSE
