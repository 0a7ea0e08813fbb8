SPECIFICATION MCSpec
CONSTANTS
    d1 = d1
    d2 = d2
    s1 = s1
    s2 = s2
    t1 = t1
    t2 = t2
    c1 = c1
    c2 = c2
    r1 = r1
    r2 = r2
    a1 = a1
    a2 = a2
    b1 = b1
    q1 = q1
    q2 = q2
    u1 = u1
    u2 = u2
    h1 = h1
    h2 = h2
    k1 = k1
    k2 = k2
    v1 = v1
    plan = plan
    x1 = x1
    x2 = x2
    y1 = y1
    y2 = y2
    none = none
    Artifacts <- MCArtifacts
    Deployments <- MCDeployments
    Scenes <- MCScenes
    Tasks <- MCTasks
    DeploymentOf <- MCDeploymentOf
    SceneOf <- MCSceneOf
    TaskOf <- MCTaskOf
    Qualified <- MCQualified
    Callers <- MCCallers
    EventLimits <- MCEventLimits
    MaxArtifacts = 2
SYMMETRY Symmetry
INVARIANTS
    LogReplays
    ReuseIsCurrent
    SchedulesAreExact
    AgreementsHold
    JournalIsTrue
PROPERTIES
    ChangesAreSeenAndWhole
    SourcesAreCurrent
