CONSTANTS
    db = db
    app = app
    web = web
    wt = wt
    i1 = i1
    i2 = i2
    Self = wt
    Containers <- MCContainers
    Images <- MCImages
    Configs <- AllConfigs
    Faults <- AllFaults
SPECIFICATION Spec
INVARIANTS
    TypeOK
    TouchedForAReason
    StopRespectsLinks
    StartRespectsLinks
    SelfUpdateIsLast
    NothingLost
    TruthfulReport
    DependentsFollow
    CleanupIsExact
PROPERTIES
    SessionEnds
    ImplementsRollout
