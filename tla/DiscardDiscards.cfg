CONSTANTS
    a = a
    b = b
    Scopes = {a, b}
    NoScope = NoScope
    MaxTokens = 2
    MaxMoves = 3
SPECIFICATION Spec
SYMMETRY Alike
INVARIANTS
    DiscardDiscards
CHECK_DEADLOCK FALSE
