SPECIFICATION MCSpec
CONSTANTS
    none = none
    Users = {"u1", "u2"}
    Opers = {}
    Nicks = {"n1", "n2"}
    Ips = {"i1", "i2"}
    Masks <- GagMasks
    AlertNames = {}
    Discrims <- GagDiscrims
    Limits = {}
    DefCon <- Calm
    untrusted_max = 1
    DefConSessionLimit = 1
    Configs <- Default
    MaxTimeouts = 1
    MaxTime = 2
    Channels = {{"a", "b"}}
    Words = {{"a"}, {"b"}, {"a", "b"}}
    Dummies = {"d1"}
    Threshold = 1
    MaxTimers = 2
INVARIANTS
    ListsHeld
    GaggedListed
    ChannelsHeld
    RoutesSound
PROPERTY
    AlertNotEarly
CHECK_DEADLOCK FALSE
