SPECIFICATION Spec
CONSTANTS
    Callers = {c1, c2}
    Windows = {1, 2}
    EventLimits = {3, 5}
    MaxReloads = 1
INVARIANTS
    GateOpensAfterReview
PROPERTIES
    DecisionsAreInformed
    RetiredIsFinal
