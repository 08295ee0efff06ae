SPECIFICATION FairSpec
CONSTANTS
    Hub = Hub
    A = A
    Spokes = {A}
    Rate <- MCRate
    MaxUint = 6
    MaxSD = 3
    BPS_DENOMINATOR = 4
    InitialFeeBps <- MCInitialFeeBps
    FeeChoices = {}
    InitialConfig <- MCConfig
    InitialAccounting <- MCAccounting
    InitialPausers = {p}
    Configs = {}
    AccountingChoices = {}
    ListedEids = {}
    Pausers = {p}
    SendAmounts = {1, 2, 3}
    SendTo = {"user", "tokenContract"}
    MinAmounts = {1}
    WithdrawAmounts = {}
    GiftAmounts = {}
    InitialTokens = 3
    MaxGuid = 2
    MaxSurplus = 0
    MaxTime = 2
CHECK_DEADLOCK FALSE
PROPERTIES
    FittingMessagesArrive
    CapacityReturns
