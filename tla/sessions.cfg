SPECIFICATION Spec
CONSTANTS
    k1 = k1
    k2 = k2
    w1 = w1
    w2 = w2
    alice = alice
    bob = bob
    p1 = p1
    p2 = p2
    s1 = s1
    s2 = s2
    None = None
    Key = {k1, k2}
    Worker = {w1, w2}
    User = {alice, bob}
    LocalUser = {bob}
    Sub = {p1, p2}
    FirstAccounts <- MCFirstAccounts
    Sid = {s1, s2}
    SidSub <- MCSidSub
    Day = 2
    SessionCutoffTime = 1
    SessionAge = 1
    MaxTime = 0
SYMMETRY Symmetry
INVARIANTS
    TypeOK
    RecordedUserIsSessionUser
    PingAnswersForOneUser
    TrackedUnlessLost
    LogoutKillsEstablished
PROPERTIES
    NoResurrection
    ImplementsLedger
