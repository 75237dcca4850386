CONSTANTS
    t1 = t1
    t2 = t2
    Tasks = {t1, t2}
    NoTask = NoTask
    Blocked = Blocked
    MaxRequests = 1
SPECIFICATION FairSpec
INVARIANTS
    TypeOK
    RunningIsPolled
PROPERTIES
    ImplementsNotice
    ReportKept
    ProgressEnds
    FollowUpSeen
CHECK_DEADLOCK FALSE
