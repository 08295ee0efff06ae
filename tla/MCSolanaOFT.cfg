SPECIFICATION Spec
CONSTANTS
    NONE = NONE
    MaxU64 = 20
    ONE_IN_BASIS_POINTS = 4
    Ld2sdRate = 2
    OFTTypes = {"Adapter", "Native"}
    Eids = {1}
    TransferFees <- MCTransferFees
    FeeChoices = {2}
    InitialLimiter <- MCTightLimiter
    LimitChoices <- MCLimitChoices
    SendAmounts = {3, 7}
    MinAmounts = {3}
    RemoteAmounts = {2}
    WithdrawAmounts = {1}
    InitialTokens = 10
    InitialRemote = 3
    MaxPackets = 2
    MaxTime = 1
CHECK_DEADLOCK FALSE
INVARIANTS
    TypeOK
    FeesAreHeld
    ClaimsBacked
    QuoteIsSound
PROPERTIES
    ComposeTellsCredit
    ValueIsMetered
