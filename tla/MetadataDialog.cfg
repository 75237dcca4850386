CONSTANTS
    a = a
    b = b
    Scopes = {a, b}
    NoScope = NoScope
    MaxTokens = 2
    MaxMoves = 3
SPECIFICATION Spec
SYMMETRY Alike
INVARIANTS
    TypeOK
    AsksBeforeLosing
    WritesAreOwn
    BaselineWasHeld
PROPERTIES
    EditsSurvive
CHECK_DEADLOCK FALSE
