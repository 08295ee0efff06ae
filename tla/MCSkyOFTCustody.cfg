SPECIFICATION Spec
CONSTANTS
    Hub = Hub
    A = A
    B = B
    Spokes = {A}
    Rate <- MCRate
    MaxUint = 100
    MaxSD = 2
    BPS_DENOMINATOR = 4
    InitialFeeBps <- MCInitialFeeBps
    FeeChoices = {2}
    InitialConfig <- MCInitialConfig
    InitialAccounting <- MCNet
    InitialPausers = {}
    Configs = {}
    AccountingChoices = {}
    ListedEids = {A}
    Pausers = {p}
    SendAmounts = {1, 4}
    SendTo = {"user", "oft", "tokenContract"}
    MinAmounts = {1}
    WithdrawAmounts = {1}
    GiftAmounts = {1}
    InitialTokens = 5
    MaxGuid = 2
    MaxSurplus = 2
    MaxTime = 0
CHECK_DEADLOCK FALSE
INVARIANTS
    DeliveriesFunded
PROPERTIES
    PausedMovesNothing
