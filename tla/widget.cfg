SPECIFICATION Spec
CONSTANTS
    t1 = t1
    t2 = t2
    alice = alice
    bob = bob
    k1 = k1
    k2 = k2
    c1 = c1
    c2 = c2
    c3 = c3
    v1 = v1
    v2 = v2
    None = None
    Unread = Unread
    Tab = {t1, t2}
    User = {alice, bob}
    Linked = {alice}
    Claims = {v1, v2}
    Key = {k1, k2}
    Secret = {c1, c2, c3}
SYMMETRY Symmetry
INVARIANTS
    TypeOK
    OneIdentityPerPage
    IdentityOfItsRequest
    PopupHeaderShips
PROPERTY
    LogoutEndsOwnUser
