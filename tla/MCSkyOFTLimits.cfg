SPECIFICATION Spec
CONSTANTS
    Hub = Hub
    A = A
    B = B
    Spokes = {A}
    Rate <- MCRate
    MaxUint = 6
    MaxSD = 2
    BPS_DENOMINATOR = 4
    InitialFeeBps <- MCInitialFeeBps
    FeeChoices = {}
    InitialConfig <- MCTightConfig
    InitialAccounting <- MCNet
    InitialPausers = {}
    Configs <- MCConfigs
    AccountingChoices = {"Gross"}
    ListedEids = {A}
    Pausers = {}
    SendAmounts = {1, 4}
    SendTo = {"user"}
    MinAmounts = {1}
    WithdrawAmounts = {}
    GiftAmounts = {}
    InitialTokens = 5
    MaxGuid = 2
    MaxSurplus = 0
    MaxTime = 2
CHECK_DEADLOCK FALSE
PROPERTIES
    LimitersFollowed
