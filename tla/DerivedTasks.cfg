CONSTANTS
    e1 = e1
    e2 = e2
    plain = plain
    scaled = scaled
    blank = blank
    draft = draft
    m1 = m1
    m2 = m2
    MaxTasks = 3
    Events = {e1, e2}
    Pending = {e1}
    Maps = {m1, m2}
    NoMap = NoMap
    Schedules = {plain, scaled, draft}
    NoSchedule = NoSchedule
    Draft = draft
    Scheduled <- MCScheduled
    Scaling <- MCScaling
    Blank = {}
    Overtime = FALSE
    Restarts = TRUE
SPECIFICATION Spec
SYMMETRY Symmetry
VIEW EndedAlike
INVARIANTS
    TypeOK
    BasesOfTheMap
PROPERTIES
    MapChangesAlone
    ImplementsData
