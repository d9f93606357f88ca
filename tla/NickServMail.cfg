SPECIFICATION Spec
CONSTANTS
    Users = {u1}
    Nicks = {n1}
    Handles = {h1, h2}
    Emails = {e1, e2}
    Flags = {"SUSPENDED", "FROZEN"}
    DisableNicks = TRUE
    EmailEnabled = TRUE
    MaxLogins = 1
    NicksPerHandle = 1
    HandlesPerEmail = 2
    NONE = NONE
    STALE = STALE
SYMMETRY Symmetry
INVARIANTS
    AuthConsistent
    CookieTimed
    CookieToOwner
PROPERTIES
    SuspendedStaysOut
