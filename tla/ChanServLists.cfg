SPECIFICATION Spec
CONSTANTS
    Chans = {c1, c2}
    Handles = {h1, h2}
    Staff = {h2}
    Users = {u1}
    Data = {r1, r2}
    Ids = {e1, e2}
    Levels = {300, 500}
    Durations = {0}
    SuspDurations = {1}
    MaxOwned = 1
    MaxTime = 2
    NONE = NONE
SYMMETRY Memory
INVARIANTS
    OneEntry
    OneOwner
