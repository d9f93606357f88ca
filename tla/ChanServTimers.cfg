SPECIFICATION Spec
CONSTANTS
    Chans = {c1, c2}
    Handles = {h1, h2}
    Staff = {}
    Users = {}
    Data = {r1, r2}
    Ids = {e1, e2, e3}
    Levels = {300}
    Durations = {0, 1}
    SuspDurations = {}
    MaxOwned = 2
    MaxTime = 2
    NONE = NONE
SYMMETRY MemoryAndAccounts
INVARIANTS
    Inv
    NoneEmpty
