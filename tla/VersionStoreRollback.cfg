SPECIFICATION Spec
CONSTANTS
    Procs = {p1, p2}
    Scenes = {s1, s2}
    MaxLength = 2
    SharedLength = 2
    MaxVersions = 3
    Crashes = FALSE
PROPERTIES
    RollbackKeepsVersions
CHECK_DEADLOCK FALSE
