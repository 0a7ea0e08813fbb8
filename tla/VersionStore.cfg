SPECIFICATION Spec
CONSTANTS
    Procs = {p1, p2}
    Scenes = {s1, s2}
    MaxLength = 3
    SharedLength = 2
    MaxVersions = 3
    Crashes = TRUE
INVARIANTS
    VersionsAreKept
PROPERTIES
    LoneWriterImplementsTree
CHECK_DEADLOCK FALSE
