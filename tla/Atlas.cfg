SPECIFICATION MCSpec
CONSTANTS
    o1 = o1
    o2 = o2
    Rounded <- Whole
    Root <- MCRoot
    Atlases <- MCAtlases
    Tolerance = 1
    Starts <- MCStarts
    Requests <- MCRequests
    WaypointLimit = 1
    TotalLimit = 2
    TrackingTolerance = 1
    Times = {0, 1}
    MaxDecisions = 2
    Proposals <- MCProposals
    MinimumConfidence = 1
    MaximumUncertainty = 1
    Modes = {"InputOrder", "HighestConfidence", "LowestUncertainty"}
    MaxBatch = 3
    MaxRecords = 3
    Scale = 2
    ProfileInputs <- MCProfileInputs
    LowerBound <- Cautious
    MinimumTotalSamples = 8
    MinimumBinSamples = 8
    MaximumExpectedError = 1
    MaximumBinError = 1
    Pose <- SumOfJoints
    PoseTolerance = 0
    MaxStep = 2
    MaxIterations = 2
INVARIANTS
    AtlasesAreSafe
    PlansAreCertified
    ChoicesAreSound
    RegionsAreCertified
    OccupanciesAreCertified
    PlannersAreHonest
    LoadsAreWhole
    ConstraintsAreExact
