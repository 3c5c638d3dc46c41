SPECIFICATION Spec
CONSTANTS
    admins = admins
    local = local
    w1 = w1
    w2 = w2
    Group = {admins, local}
    Prefixed = {admins}
    FlagGroups <- MCFlagGroups
    Worker = {w1, w2}
SYMMETRY Symmetry
PROPERTY
    FlagsSetOnEveryLogin
