CONSTANTS
    t1 = t1
    t2 = t2
    full = full
    Main = main
    Job = job
    Requests <- MCRequests
    Targeted <- MCTargeted
    Fallible <- MCFallible
    Settings <- AllSettings
    Patient = FALSE
SPECIFICATION Spec
INVARIANTS
    TypeOK
    OneSession
    TokenKept
    NoIdleWaiter
    NoEarlySelfUpdate
PROPERTY RefusedOnlyWhenBusy
