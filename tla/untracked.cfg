SPECIFICATION Spec
CONSTANTS
    k1 = k1
    k2 = k2
    w1 = w1
    w2 = w2
    alice = alice
    bob = bob
    p1 = p1
    p2 = p2
    s1 = s1
    s2 = s2
    None = None
    Key = {k1}
    Worker = {w1, w2}
    User = {alice}
    LocalUser = {}
    Sub = {p1}
    FirstAccounts <- MCOneAccount
    Sid = {s1}
    SidSub <- MCOneSidSub
    Day = 2
    SessionCutoffTime = 1
    SessionAge = 2
    MaxTime = 0
INVARIANT
    LiveSessionsAreTracked
