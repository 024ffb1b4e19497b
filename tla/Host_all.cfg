CONSTANTS
    alice = alice
    bob = bob
    db = db
    web = web
    app = app
    ghost = ghost
    front = front
    back = back
    Clients = {alice, bob}
    Services <- MCServices
    Keys <- MCKeys
    Unknown = ghost
    Networks = {front, back}
    Specs <- MCSpecs
    Cases <- MCCases
    MaxIds = 6
SPECIFICATION Spec
INVARIANTS
    TypeOK
    DependenciesFirst
    RemovedStaysGone
    StoppedStaysDown
    NoTwins
