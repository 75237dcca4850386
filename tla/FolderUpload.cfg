CONSTANTS
    t1 = t1
    t2 = t2
    f1 = f1
    f2 = f2
    f3 = f3
    a = a
    b = b
    h1 = h1
    h2 = h2
    Tasks = {t1, t2}
    Files = {f1, f2}
    Names = {a, b}
    Hashes = {h1, h2}
    NameOf <- MCNameOf
    HashOf <- MCHashOf
    RowsExpire = TRUE
SPECIFICATION Spec
SYMMETRY Symmetry
INVARIANTS
    TypeOK
    RowKeepsUp
    CompletedReportsAll
    RecordedIsOwn
    StopsAfterCancel
    DuplicatesNeedOverlap
PROPERTY ImplementsLedger
