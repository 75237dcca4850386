CONSTANTS
    d1 = d1
    d2 = d2
    u1 = u1
    op = op
    t1 = t1
    t2 = t2
    Databases = {d1, d2}
    Configured = d1
    NoDb = NoDb
    Users = {u1}
    Operator = op
    Asked = {t1}
    FollowUps = {t2}
    MaxVersion = 1
    MaxSwitches = 2
SPECIFICATION FairSpec
INVARIANTS
    TypeOK
    WorkersOnActive
    LandsWhereShown
PROPERTIES
    ViewsCatchUp
CHECK_DEADLOCK FALSE
