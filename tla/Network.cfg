SPECIFICATION Spec
CONSTANTS
    Users = {bot, u1, u2}
    Local = {bot}
    Servers = {hub, leaf}
    ServerOf <- OneServerEach
    Nicks = {ns, n1}
    LocalNick <- AnyNickEach
    Channels = {c1}
    Modes = {"R"}
    Keep = {"R"}
    Times = {1, 2}
    MaxLocks = 1
    SELF = SELF
    NONE = NONE
INVARIANTS
    Inv
