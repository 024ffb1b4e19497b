CONSTANTS
    web = web
    api = api
    a = a
    b = b
    own = own
    Nobody = Nobody
    NoDigest = NoDigest
    Containers <- MCContainers
    Images <- MCImages
    Registries <- MCRegistries
    Cases <- MCCases
SPECIFICATION Spec
INVARIANTS
    TypeOK
    VerdictIsCurrent
    ListedIsNews
    EveryoneIsJudged
PROPERTY ScanEnds
