CONSTANTS
    t1 = t1
    t2 = t2
    f1 = f1
    f2 = f2
    f3 = f3
    a = a
    b = b
    h1 = h1
    h2 = h2
    Tasks = {t1, t2}
    Files = {f2}
    Names = {a}
    Hashes = {h2}
    NameOf <- MCNameOf
    HashOf <- MCHashOf
    RowsExpire = FALSE
SPECIFICATION FairSpec
PROPERTY UploadsSettle
