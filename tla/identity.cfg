SPECIFICATION Spec
CONSTANTS
    a = a
    b = b
    n1 = n1
    n2 = n2
    u1 = u1
    u2 = u2
    w1 = w1
    w2 = w2
    None = None
    Missing = Missing
    Sub = {a, b}
    Name = {n1, n2}
    User = {u1, u2}
    Worker = {w1, w2}
SYMMETRY Symmetry
INVARIANTS
    TypeOK
    OwnNamesNotShared
    SignupsKeepOwnName
    SyncedClaimsAreShown
