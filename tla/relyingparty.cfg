SPECIFICATION Spec
CONSTANTS
    k1 = k1
    k2 = k2
    u1 = u1
    w1 = w1
    w2 = w2
    x1 = x1
    x2 = x2
    alice = alice
    p1 = p1
    s1 = s1
    None = None
    Kid = {k1}
    Rotated = {k1}
    Uri = {u1}
    Worker = {w1, w2}
    DiscoveryTTL = 1
    Lifespan = 1
    Cooldown = 1
    FetchTimeout = 1
    MaxTime = 1
    Key = {x1, x2}
    User = {alice}
    Sub = {p1}
    FirstAccounts <- MCFirstAccounts
    Sid = {s1}
    SidSub <- MCSidSub
SYMMETRY Symmetry
INVARIANTS
    TypeOK
    AcknowledgedMeansClosed
    AttemptsGoOn
