SPECIFICATION LiveSpec
CONSTANTS
    Targets = {t1, t2}
    Times = {0, 1, 2, 3}
INVARIANTS
    Inv
    NoneExpiredAfterRun
PROPERTIES
    NeverShortened
    ExpiredIsDropped
