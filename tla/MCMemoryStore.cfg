SPECIFICATION Spec
CONSTANTS
    w1 = w1
    w2 = w2
    r1 = r1
    r2 = r2
    f1 = f1
    f2 = f2
    Store = {w1, w2}
    Replica = {r1, r2}
    Fact = {f1, f2}
    Distance <- MCDistance
    FromOnes <- MCFromOnes
    SameWithin = 0
    MaxLookup = 2
    K = 1
    CANDIDATES = 2
    MaxRecords = 4
    MaxFailures = 1
SYMMETRY Symmetry
INVARIANTS
    TypeOK
    OutOfUseIsNotRecalled
    KeptIsRecalled
    StoredTwiceOnlyIf
