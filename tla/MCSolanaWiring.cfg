SPECIFICATION FairSpec
CONSTANTS
    NONE = NONE
    a = a
    b = b
    d1 = d1
    d2 = d2
    wallet = wallet
    vault = vault
    opts = opts
    none = none
    Eids = {1}
    Addrs = {a, b}
    Keys = {wallet, vault}
    OptionSets = {opts}
    EmptyOptions = none
    UlnConfigs <- MCUlnConfigs
    DefaultUln <- MCDefaultUln
    Limits = {7}
    Operators = {"main", "other"}
    Main = "main"
    Wallet = wallet
    Goals <- MCGoals
    ScriptEid = 1
    MaxExtraRuns = 1
CHECK_DEADLOCK FALSE
INVARIANTS
    TypeOK
    PeersAreUsable
    ReadyBeforeHandover
PROPERTIES
    SuccessMeansDone
    Converges
