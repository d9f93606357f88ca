SPECIFICATION Spec
CONSTANTS
    Users = {u1, u2}
    Nicks = {n1, n2}
    Handles = {h1, h2}
    Emails = {}
    Flags = {}
    DisableNicks = FALSE
    EmailEnabled = FALSE
    MaxLogins = 1
    NicksPerHandle = 1
    HandlesPerEmail = 1
    NONE = NONE
    STALE = STALE
SYMMETRY Symmetry
INVARIANTS
    Inv
