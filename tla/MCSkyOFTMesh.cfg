SPECIFICATION Spec
CONSTANTS
    Hub = Hub
    A = A
    B = B
    Spokes = {A, B}
    Rate <- MCRate
    MaxUint = 100
    MaxSD = 2
    BPS_DENOMINATOR = 4
    InitialFeeBps <- MCInitialFeeBps
    FeeChoices = {}
    InitialConfig <- MCInitialConfig
    InitialAccounting <- MCNet
    InitialPausers = {}
    Configs = {}
    AccountingChoices = {}
    ListedEids = {}
    Pausers = {}
    SendAmounts = {1, 2, 4, 5}
    SendTo = {"user"}
    MinAmounts = {0}
    WithdrawAmounts = {1}
    GiftAmounts = {}
    InitialTokens = 7
    MaxGuid = 3
    MaxSurplus = 0
    MaxTime = 0
CHECK_DEADLOCK FALSE
INVARIANTS
    TypeOK
    WholeUnits
    Balanced
PROPERTIES
    ImplementsLedger
