CONSTANTS
    h1 = h1
    h2 = h2
    Hooks = {h1, h2}
    Fields = {"x", "y"}
    MaxSessions = 2
    MaxTokens = 2
    MaxFaults = 2
SPECIFICATION Spec
INVARIANTS
    TypeOK
    CacheLeads
    QuietAgreement
PROPERTIES
    UpdatesStayInSession
    LoadingEnds
    SessionComes
CHECK_DEADLOCK FALSE
