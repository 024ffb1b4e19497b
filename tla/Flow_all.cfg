CONSTANTS
    web = web
    e1 = e1
    e2 = e2
    Free = Free
    Callers <- MCCallers
    Entries <- MCEntries
    Subjects <- MCSubjects
    Containers <- MCContainers
    Settings <- MCSettings
    Cap = 1
    ChannelCap = 1
    MaxSessions = 2
SPECIFICATION Spec
INVARIANTS
    TypeOK
    EntriesAreKept
    DrainedBeforeClosed
    ReportHasItsEntries
    NewsIsTold
    MetricsAddUp
PROPERTY CloseEnds
