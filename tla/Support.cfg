SPECIFICATION MCSpec
CONSTANTS
    SarIds = {1, 2}
    Addresses = {"a1"}
    Zones = {"z1"}
    SarTimeout = 1
    SarRetries = 2
    MaxQueries = 3
    MaxTime = 5
    Nicks = {"n1"}
    Bots = {"b1"}
    Commands = {"modcmd", "op"}
    Base <- CmdBase
    DefFlags <- CmdFlags
    DefOper <- CmdOper
    Names = {"modcmd", "op"}
    Imports <- RuleImports
    Aliases <- Nothing
    Flags = {"acceptchan"}
    Levels = {900}
    Accesses = {0, 300}
    Triggers = {}
    Users = {"o1"}
    AccountOf <- RuleAccount
    Opers = {"o1"}
    Level <- RuleLevel
    ChanAccess <- RuleAccess
    MaxBinds = 2
    Uids = {"c1"}
    Accounts = {"h1", "h2"}
    Fps = {"f1"}
    FpsOf <- LoginFps
    Roams = {"h1"}
    Near = {"h2"}
    Impersonates = {"h2"}
    maxlogins = 1
    Period = 2
    MaxFragments = 1
    MaxTimers = 2
    MaxRegistrations = 2
    MaxSaslTime = 0
    DbKeys = {"k1", "k2"}
    MaxVersion = 2
    MaxFaults = 1
    PlainNames = {"#a", "##a"}
    DnrMasks = {"#*"}
    AccountNames = {}
    DnrCovers <- CoversNames
    Behind <- BehindNames
    DnrDurations = {0, 1}
    dnr_expire_frequency = 2
    Garbage = {0}
    MaxListTime = 2
    Types = {}
    NoteChannels = {}
    Lengths = {}
    NoteTexts = {}
    NoteLevels = {}
    HostUsers = {"u1"}
    HostNames = {"h1", "h2"}
    Vhosts = {"v1", "v2"}
    Offers = {}
    require_approval = TRUE
    MaxAccount = 2
    NoHost = "none"
    Targets = {"a", "b"}
    Times = {0, 1}
    Wild = {"b"}
    Under <- ShunsUnder
    Order <- UplinkOrder
    MaxTries = 1
    max_cycles = 3
    ping_freq = 1
    ping_timeout = 1
    MaxPings = 2
    MaxUplinkTime = 2
    Mails = {"m1", "m2", "m3"}
    MailAddresses = {"a", "*"}
    MailMasks = {"*"}
    GroupNames = {"g"}
    GroupHandles = {"h", "i"}
    BotNicks = {"b1", "b2"}
    BotChannels = {"c1", "c2"}
    BotOptions = {"fantasy"}
    UnsavedOptions = {"badwords"}
    MAX_BOTS = 2
    BotRenames = {}
    MaxAssigned = 2
    NoBot = "none"
    Fds = {"a", "b", "c", "d"}
    Passwords = {"p", "q"}
    Growth = 2
    MailMatches <- EveryMatch
    Facilities = {"a", "b"}
    Severities = {0, 1, 2}
    Configs <- LogConfigs
    DefaultLog <- LogDefaults
    AuditLimits = {0, 2}
    max_age = 1
    MaxLogTime = 2
    Size = 3
    MaxSize = 6
    Scratch = 4
    MaxLine = 2
    Tls = FALSE
    MaxIn = 0
    MaxOut = 9
    ScanAddresses = {"a1", "a2"}
    Tests <- ScanTests
    NewTests = {}
    reps = 1
    Allocated = 2
    Timeouts = {1}
    gline_duration = 1
    max_cache_age = 1
    MaxSci = 2
    MaxScanTime = 1
INVARIANTS
    ChecksTimed
    CommandsRuled
    SaslSound
    DataKept
    StaffKept
    ShownApproved
    ShunsTimed
    GivesUpLast
    ActiveIsFirst
    ServicesHeld
    RingsAreQueues
    ToolsRight
    OneHitPerQuery
PROPERTY
    RulesSurvive
CHECK_DEADLOCK FALSE
