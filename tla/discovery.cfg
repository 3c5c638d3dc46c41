SPECIFICATION FairSpec
CONSTANTS
    k1 = k1
    k2 = k2
    u1 = u1
    u2 = u2
    w1 = w1
    w2 = w2
    None = None
    Kid = {k1}
    Rotated = {}
    Uri = {u1, u2}
    Worker = {w1, w2}
    DiscoveryTTL = 1
    Lifespan = 0
    Cooldown = 0
    FetchTimeout = 0
    MaxTime = 2
INVARIANTS
    NobodyStuck
PROPERTIES
    MovedJwksFollowed
    LogoutsAnswered
