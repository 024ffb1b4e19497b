CONSTANTS
    db = db
    app = app
    web = web
    wt = wt
    i1 = i1
    i2 = i2
    Self = wt
    Containers <- MCContainers
    Images <- MCImages
    Configs <- ChainConfigs
    Faults <- StartFault
SPECIFICATION Spec
INVARIANT FailureIsReported
