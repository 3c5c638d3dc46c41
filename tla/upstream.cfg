SPECIFICATION Spec
CONSTANTS
    k1 = k1
    k2 = k2
    u1 = u1
    u2 = u2
    w1 = w1
    w2 = w2
    None = None
    Kid = {k1, k2}
    Rotated = {k1, k2}
    Uri = {u1}
    Worker = {w1, w2}
    DiscoveryTTL = 1
    Lifespan = 2
    Cooldown = 1
    FetchTimeout = 1
    MaxTime = 4
SYMMETRY Symmetry
INVARIANT
    TypeOK
PROPERTIES
    RetiredKeysExpire
    NewKeysAccepted
