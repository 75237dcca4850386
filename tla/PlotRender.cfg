CONSTANTS
    e1 = e1
    e2 = e2
    Selections = {e1, e2}
    None = None
    NumPlots = 3
    MaxMoves = 6
    MaxFailures = 2
SPECIFICATION Spec
INVARIANTS
    TypeOK
    SpinnersEnd
    ViewerLoads
PROPERTIES
    ImplementsGallery
    
    RenderingEnds
CHECK_DEADLOCK FALSE
