CONSTANTS
    t1 = t1
    t2 = t2
    full = full
    Main = main
    Job = job
    Requests <- MCRequests
    Targeted <- MCTargeted
    Fallible <- MCFallible
    Settings <- BusySettings
    Patient = TRUE
SPECIFICATION StuckSpec
PROPERTIES
    WaitersAreServed
    ShutdownEnds
