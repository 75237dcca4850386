CONSTANTS
    e1 = e1
    e2 = e2
    plain = plain
    scaled = scaled
    blank = blank
    draft = draft
    m1 = m1
    m2 = m2
    MaxTasks = 2
    Events = {e1}
    Pending = {e1}
    Maps = {m1, m2}
    NoMap = NoMap
    Schedules = {plain, blank, draft}
    NoSchedule = NoSchedule
    Draft = draft
    Scheduled <- MCScheduled
    Scaling <- MCScaling
    Blank = {blank}
    Overtime = TRUE
    Restarts = TRUE
SPECIFICATION FairSpec
PROPERTY TasksSettle
