CONSTANTS
    h1 = h1
    h2 = h2
    Hooks = {h1, h2}
    Fields = {"x", "y"}
    MaxSessions = 2
    MaxTokens = 2
    MaxFaults = 2
SPECIFICATION Spec
PROPERTIES
    BackupSurvivesExpiry
CHECK_DEADLOCK FALSE
