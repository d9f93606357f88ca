SPECIFICATION MCSpec
CONSTANTS
    None = none
    HelpUsers = {"u1", "u2"}
    Nicks = {"n1", "n2"}
    Handles = {"h1"}
    Bots = {"b1"}
    Helpers = {"h1"}
    Settings = {"helper"}
    HelperLevels = {2}
    Lengths = {"part", "quit"}
    Wraps = {0}
    MaxId = 2
    MaxClock = 2
    Users = {"u1"}
    Ranked = {}
    Channels = {"c1", "c2"}
    Words = {}
    Texts = {{"w"}, {"adv"}}
    Defaults = {"spam", "joinflood"}
    Scans = {}
    Levels = {}
    Durations = {0}
    Reactions = {}
    Limits = {}
    FLOOD_MAX_LINES = 3
    FLOOD_EXPIRE = 1
    JOINFLOOD_MAX = 1
    JOINFLOOD_EXPIRE = 1
    WARN_EXPIRE = 1
    MAX_WARNLEVEL = 1
    KILL_WARNLEVEL = 1
    KILL_EXPIRE = 1
    WordMax = 1
    Trusts = {}
    AllowMoveMerge = TRUE
    StaffActs = FALSE
    OffChannels = FALSE
    Outside = FALSE
    MaxWarn = 2
    MaxTime = 2
INVARIANTS
    RequestsListed
    IntervalsTimed
    WatchedExactly
PROPERTY
    NotKilledAgain
CHECK_DEADLOCK FALSE
